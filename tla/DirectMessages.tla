--------------------------- MODULE DirectMessages ---------------------------
(***************************************************************************)
(* One-to-one messages between two nodes over GC/2 sessions                *)
(* (crates/node/src/node: direct.rs, gc2_direct.rs, gc2_receipts.rs,       *)
(* gc2_acks.rs, application_inbox.rs and the checkpoints of mod.rs and     *)
(* persist.rs).                                                            *)
(*                                                                         *)
(* A node keeps, for its peer, one session with a generation, a counter    *)
(* window for each direction, the logical records it has not seen          *)
(* acknowledged (pending_1to1), a ledger of the records it accepted        *)
(* (receipts and deferred acknowledgments) and an inbox of durable         *)
(* records.  Every change is written as one checkpoint of the whole state  *)
(* before anything it produced leaves the node, so mem is the live state   *)
(* and disk the last archive.  A checkpoint may fail after it was written. *)
(*                                                                         *)
(* A session is known by its tag <<initiator, generation>>: a node never   *)
(* publishes two sessions of one generation.  net holds every packet that  *)
(* a checkpoint has released and its receiver could still act on: the      *)
(* network may deliver each at any later time, in any order, or never, and *)
(* what is lost is repaired by sending the same packet again.  Clocks are  *)
(* read, never stepped: a read of the wall clock returns any instant of    *)
(* 0..MaxNow, and may be earlier than the last.                            *)
(***************************************************************************)
EXTENDS Naturals, Sequences, FiniteSets

CONSTANTS
    Nodes,          \* the two peers
    Lower,          \* the peer whose identity key sorts first
    Messages,       \* logical records, by message ID
    From,           \* From[m]: the peer that sends m
    Kind,           \* Kind[m]: "durable", "event" or "volatile"
    Horizon,        \* Horizon[m]: the instant after which m has no effect
    MaxNow,         \* the latest instant a wall clock shows
    AppLimit,       \* counters past the credited floor for application records
    ControlLimit,   \* the same for acknowledgments
    InboxLimit,     \* APPLICATION_INBOX_LIMIT
    ReceiptLimit,   \* MAX_PER_PEER of the ledger
    Cases           \* bounds of a behaviour: the records it submits, the session
                    \* recoveries, the restarts, and the checkpoints of unknown
                    \* outcome: [records, recoveries, crashes, faults]

ASSUME WindowAssumption == /\ AppLimit \in Nat \ {0, 1} /\ ControlLimit >= AppLimit
                           /\ \E n \in Nodes : n # Lower /\ Nodes = {Lower, n}

VARIABLES
    mem,        \* mem[n]: the live state of n
    disk,       \* disk[n]: its last archive
    net,        \* packets that may still arrive
    submitted,  \* records handed to prepare_direct_record, in order
    emitted,    \* emitted[m]: events raised for m at its receiver
    confirmed,  \* records whose sender was told of their delivery
    carried,    \* records whose kept ACK was prepared in a later session
    left        \* what the behaviour's bounds still allow

vars == <<mem, disk, net, submitted, emitted, confirmed, carried, left>>

observed == <<submitted, emitted, confirmed, carried>>

Submitted == {submitted[i] : i \in DOMAIN submitted}

Spend(what) == left[what] > 0 /\ left' = [left EXCEPT ![what] = @ - 1]

Peer(n) == CHOOSE p \in Nodes : p # n

-----------------------------------------------------------------------------
(* Sessions and their counter windows (peer_session.rs, gc2_session)       *)

First == <<"first">>
Data(m) == <<"data", m>>
Ack(m) == <<"ack", m>>

NoSession ==
    [gen |-> 0, tag |-> <<>>, state |-> "none", sent |-> <<>>, missing |-> {},
     credited |-> {}, received |-> {}]

\* initiate and initiate_recovery: the first move is counter 1 of the window.
Initiated(n, g) ==
    [NoSession EXCEPT !.gen = g, !.tag = <<n, g>>, !.state = "initiated",
                      !.sent = <<First>>]

\* accept: the first move is the first counter received.
Accepted(tag) ==
    [NoSession EXCEPT !.gen = tag[2], !.tag = tag, !.state = "established",
                      !.received = {1}]

Uncredited(s) == DOMAIN s.sent \ s.credited

CreditedFloor(s) ==
    CHOOSE k \in 0..Len(s.sent) : /\ 1..k \subseteq s.credited
                                  /\ k + 1 \notin s.credited

\* recovery_required: a counter is 24 hours old, or its packet was only in RAM.
RecoveryRequired(s, aged) ==
    (aged /\ Uncredited(s) # {}) \/ s.missing \ s.credited # {}

\* can_send: a counter is free for this purpose and the session needs no recovery.
CanSend(s, limit, aged) ==
    /\ Len(s.sent) + 1 - CreditedFloor(s) <= limit
    /\ ~RecoveryRequired(s, aged)

Received(s, c) == [s EXCEPT !.received = @ \cup {c}, !.state = "established"]

-----------------------------------------------------------------------------
(* The ledger of logical receipts (gc2_receipts.rs).  A receipt without an *)
(* acknowledgment has ack = {}; otherwise ack holds the session tag and    *)
(* the counter of the acknowledgment.                                      *)

\* (Fault: the ledger trusts the wall clock of the moment.)
Bug_LedgerNow(node, now) == now

LedgerNow(node, now) == IF now > node.floor THEN now ELSE node.floor

\* expire: the floor of the clock moves first, then what it passed is dropped.
Expired(node, now) ==
    LET floor == LedgerNow(node, now)
        live == {m \in DOMAIN node.receipts : Horizon[m] > floor}
    IN [node EXCEPT !.floor = floor,
                    !.receipts = [m \in live |-> node.receipts[m]],
                    !.owed = {m \in @ : Horizon[m] > floor}]

WithReceipt(receipts, m, ack) ==
    [k \in DOMAIN receipts \cup {m} |-> IF k = m THEN ack ELSE receipts[k]]

\* stage_data: the receipt names the acknowledgment that was prepared with it.
StageData(node, m, barrier, now) ==
    LET e == Expired(node, now)
    IN [e EXCEPT !.receipts = WithReceipt(@, m, {barrier}), !.owed = @ \ {m}]

\* stage_deferred_ack: no counter was free, the obligation itself is kept.
StageDeferredAck(node, m, now) ==
    LET e == Expired(node, now)
    IN [e EXCEPT !.receipts = WithReceipt(@, m, {}), !.owed = @ \cup {m}]

\* (Fault: the receipt is not told of the acknowledgment that was prepared.)
Bug_StagePreparedAck(node, m, barrier, now) ==
    [Expired(node, now) EXCEPT !.owed = @ \ {m}]

\* stage_prepared_ack: a kept obligation got its counter.
StagePreparedAck(node, m, barrier, now) ==
    LET e == Expired(node, now)
    IN IF m \in e.owed
       THEN [e EXCEPT !.owed = @ \ {m},
                      !.receipts = IF m \in DOMAIN @
                                   THEN [@ EXCEPT ![m] = {barrier}] ELSE @]
       ELSE e

\* stage_credit: an acknowledgment the peer has credited needs no receipt.
StageCredit(node, s, now) ==
    LET e == Expired(node, now)
        kept == {m \in DOMAIN e.receipts :
                   \A b \in e.receipts[m] : ~(b[1] = s.tag /\ b[2] \in s.credited)}
    IN [e EXCEPT !.receipts = [m \in kept |-> e.receipts[m]]]

-----------------------------------------------------------------------------
(* Packets and checkpoints (checkpoint_direct_state, tick)                 *)

Frame(n, s, c) ==
    [tag |-> s.tag, to |-> Peer(n), counter |-> c, body |-> s.sent[c], cover |-> {}]

\* A transport credit carries the receive coverage of its checkpoint.
Credit(n, s) ==
    [tag |-> s.tag, to |-> Peer(n), counter |-> 0, body |-> <<"credit">>,
     cover |-> s.received]

\* What a checkpoint releases: exact ciphertext, and the credit for a receive.
Released(n, s) ==
    {Frame(n, s, c) : c \in Uncredited(s) \ s.missing}
      \cup (IF s.received = {} THEN {} ELSE {Credit(n, s)})

\* A packet of a replaced session, a counter already received and coverage
\* already known change nothing where they arrive (a repeated counter is only
\* credited again).
Useful(p, s) ==
    /\ p.tag[2] >= s.gen
    /\ p.tag = s.tag => IF p.counter = 0 THEN ~(p.cover \subseteq s.credited)
                                        ELSE p.counter \notin s.received

\* The live state of n becomes new and the packets it released may travel.
Live(n, new) ==
    /\ mem' = [mem EXCEPT ![n] = new]
    /\ net' = {p \in net \cup Released(n, new.session) :
                 Useful(p, IF p.to = n THEN new.session ELSE mem[p.to].session)}

\* The archive was written and the candidate becomes the live state.
Saved(n, new) ==
    /\ Live(n, new)
    /\ disk' = [disk EXCEPT ![n] = new]
    /\ UNCHANGED left

\* The sink wrote the archive and then reported an error: the caller rolls
\* its live state back.  (An error before the write changes nothing.)
WrittenThenRefused(n, new) ==
    /\ Spend("faults")
    /\ disk' = [disk EXCEPT ![n] = new]
    /\ UNCHANGED <<mem, net>>

\* owner_transition_failed: after an uncertain write nothing leaves the node
\* until it is reopened from its archive.
Paused(n, new) ==
    /\ Spend("faults")
    /\ mem' = [mem EXCEPT ![n].failed = TRUE]
    /\ disk' \in {disk, [disk EXCEPT ![n] = new]}
    /\ UNCHANGED net

-----------------------------------------------------------------------------
(* Sending (prepare_direct_record, materialize_deferred)                   *)

WithPending(pending, m, c) ==
    [k \in DOMAIN pending \cup {m} |-> IF k = m THEN c ELSE pending[k]]

Without(f, m) == [k \in DOMAIN f \ {m} |-> f[k]]

\* The record takes the next counter of its session.
Encrypted(node, s, m) ==
    [node EXCEPT !.session = [s EXCEPT !.sent = Append(@, Data(m))],
                 !.pending = WithPending(@, m, Len(s.sent) + 1)]

Deferred(node, m) == [node EXCEPT !.pending = WithPending(@, m, 0)]

AwaitingConfirmation(node) == node.session.state = "initiated"

WindowFull(node, aged) ==
    node.session.gen > 0 /\ ~CanSend(node.session, AppLimit, aged)

\* (Fault: a new record overtakes the deferred ones.)
Bug_DeferredPredecessor(node, m) == FALSE

DeferredPredecessor(node, m) ==
    Kind[m] = "durable" /\ \E k \in DOMAIN node.pending :
                             Kind[k] = "durable" /\ node.pending[k] = 0

\* What prepare_direct_record makes of the live state; {} when it refuses.
\* routeless is routing_recovering: the inbox has no public alias yet.
Prepared(n, m, aged, routeless) ==
    LET node == mem[n]
        wait == \/ routeless \/ AwaitingConfirmation(node)
                \/ WindowFull(node, aged) \/ DeferredPredecessor(node, m)
    IN IF Kind[m] = "volatile" /\ node.session.state # "established" THEN {}
       ELSE IF wait
       THEN IF Kind[m] = "durable" THEN {Deferred(node, m)} ELSE {}
       ELSE IF node.session.gen = 0
       THEN {Encrypted(node, Initiated(n, 1), m)}
       ELSE {Encrypted(node, node.session, m)}

Submit(n, m) ==
    /\ ~mem[n].failed
    /\ From[m] = n /\ m \in left.records \ Submitted
    /\ submitted' = Append(submitted, m)
    /\ \E aged, routeless \in BOOLEAN : \E new \in Prepared(n, m, aged, routeless) :
         Saved(n, new) \/ WrittenThenRefused(n, new)
    /\ UNCHANGED <<emitted, confirmed, carried>>

\* m was submitted before k, or is k.
Precedes(m, k) ==
    \E i, j \in DOMAIN submitted : i <= j /\ submitted[i] = m /\ submitted[j] = k

MaterializeDeferred(n) ==
    LET node == mem[n]
        waiting == {m \in DOMAIN node.pending : node.pending[m] = 0}
        s == IF node.session.gen = 0 THEN Initiated(n, 1) ELSE node.session
    IN /\ ~node.failed
       /\ ~AwaitingConfirmation(node)
       /\ CanSend(s, AppLimit, FALSE)
       /\ \E m \in waiting :
            /\ \A k \in waiting : Precedes(m, k)
            /\ LET new == Encrypted(node, s, m) IN Saved(n, new) \/ Paused(n, new)
       /\ UNCHANGED observed

\* The session in which n accepted m is still the current one of both.
ReceivedHere(n, m) ==
    LET p == mem[Peer(n)].session
    IN /\ p.tag = mem[n].session.tag
       /\ \E c \in mem[n].session.received \cap DOMAIN p.sent : p.sent[c] = Data(m)

\* materialize: an obligation of the ledger becomes a ratcheted ACK.
MaterializeAck(n) ==
    LET node == mem[n]
        s == node.session
    IN /\ ~node.failed
       /\ s.state = "established"
       /\ CanSend(s, ControlLimit, FALSE)
       /\ \E m \in node.owed, now \in 0..MaxNow :
            /\ Horizon[m] > LedgerNow(node, now)
            /\ LET staged == StagePreparedAck(node, m, <<s.tag, Len(s.sent) + 1>>, now)
                   new == [staged EXCEPT !.session.sent = Append(@, Ack(m))]
               IN Saved(n, new) \/ Paused(n, new)
            /\ carried' = IF ReceivedHere(n, m) THEN carried ELSE carried \cup {m}
       /\ UNCHANGED <<submitted, emitted, confirmed>>

\* tick: a record past its deadline is dropped, the next save records it.
DropExpired(n) ==
    /\ ~mem[n].failed
    /\ \E m \in DOMAIN mem[n].pending :
         /\ Horizon[m] <= MaxNow
         /\ mem' = [mem EXCEPT ![n].pending = Without(@, m)]
    /\ UNCHANGED <<disk, net, observed, left>>

-----------------------------------------------------------------------------
(* Session recovery and setup (gc2_direct.rs)                              *)

\* (Fault: a record keeps the counter it had in the replaced session.)
Bug_Requeued(node) == node

\* Live logical records lose their ciphertext, never their IDs or deadlines.
Requeued(node) == [node EXCEPT !.pending = [m \in DOMAIN @ |-> 0]]

\* recover_peer, from the maintenance tick (there is live work) or from a fresh
\* volatile record.  A setup that was not confirmed has timed out.
Recover(n) ==
    LET node == mem[n]
        s == node.session
        demand == \/ DOMAIN node.pending # {}
                  \/ \E m \in left.records \ Submitted :
                       From[m] = n /\ Kind[m] = "volatile"
        new == [Requeued(node) EXCEPT !.session = Initiated(n, s.gen + 1)]
    IN /\ ~node.failed
       /\ s.gen > 0
       /\ demand
       /\ RecoveryRequired(s, TRUE) \/ s.state = "initiated"
       /\ \/ Live(n, new) /\ disk' = [disk EXCEPT ![n] = new] /\ Spend("recoveries")
          \/ Paused(n, new)
       /\ UNCHANGED observed

\* (Fault: each side yields to the other's setup.)
Bug_SetupWins(n, tag) ==
    LET s == mem[n].session
    IN tag[2] > s.gen \/ (tag[2] = s.gen /\ s.state = "initiated")

\* The collision rules of accept: a higher generation replaces, an equal one
\* only an unconfirmed setup of the peer that sorts last.
SetupWins(n, tag) ==
    LET s == mem[n].session
    IN /\ tag \notin mem[n].firsts
       /\ \/ tag[2] > s.gen
          \/ tag[2] = s.gen /\ s.state = "initiated" /\ n # Lower

AcceptFirstMove(n, p) ==
    /\ p.body = First
    /\ SetupWins(n, p.tag)
    /\ LET node == mem[n]
           new == [Requeued(node) EXCEPT !.session = Accepted(p.tag),
                                         !.firsts = @ \cup {p.tag}]
       IN Saved(n, new) \/ Paused(n, new)
    /\ UNCHANGED observed

-----------------------------------------------------------------------------
(* Receiving (incoming, process_frame, accept_reliable_direct)             *)

\* The counter is received and credited, the record has no effect.
CreditOnly(n, p) ==
    /\ Saved(n, [mem[n] EXCEPT !.session = Received(@, p.counter)])
    /\ UNCHANGED observed

\* ApplicationInbox::stage; a retained record of the same ID is the same entry.
Staged(node, m) ==
    IF Kind[m] = "durable" /\ m \notin DOMAIN node.receipts /\ node.inbox[m] = 0
    THEN [node EXCEPT !.inbox[m] = 1] ELSE node

InboxHasRoom(node, m) ==
    \/ Kind[m] # "durable" \/ m \in DOMAIN node.receipts \/ node.inbox[m] > 0
    \/ Cardinality({k \in Messages : node.inbox[k] > 0}) < InboxLimit

\* accept_reliable_direct: the receive, the logical receipt and the ACK, or the
\* obligation to send it, are one transaction.
AcceptReliable(node, m, c, aged, now) ==
    LET s == Received(node.session, c)
        staged == [Staged(node, m) EXCEPT !.session = s]
    IN IF CanSend(s, ControlLimit, aged)
       THEN [StageData(staged, m, <<s.tag, Len(s.sent) + 1>>, now)
               EXCEPT !.session.sent = Append(@, Ack(m))]
       ELSE StageDeferredAck(staged, m, now)

\* logical_receive and Ledger::check for a record that is still live.
Admitted(node, m, now) ==
    /\ Horizon[m] > LedgerNow(node, now)
    /\ \/ m \in DOMAIN node.receipts
       \/ Cardinality({k \in DOMAIN node.receipts : Horizon[k] > LedgerNow(node, now)})
            < ReceiptLimit
    /\ InboxHasRoom(node, m)

ReceiveData(n, p) ==
    LET node == mem[n]
        m == p.body[2]
        repeated == m \in DOMAIN node.receipts
        raised == Kind[m] # "durable" /\ ~repeated
    IN /\ p.body[1] = "data"
       /\ p.counter \notin node.session.received
       /\ \E now \in 0..MaxNow :
            \/ Horizon[m] <= LedgerNow(node, now) /\ CreditOnly(n, p)
            \/ /\ Admitted(node, m, now)
               /\ \E aged \in BOOLEAN :
                    LET new == AcceptReliable(node, m, p.counter, aged, now)
                    IN \/ /\ Saved(n, new)
                          /\ emitted' = [emitted EXCEPT ![m] = @ + (IF raised THEN 1 ELSE 0)]
                          /\ UNCHANGED <<submitted, confirmed, carried>>
                       \/ WrittenThenRefused(n, new) /\ UNCHANGED observed

\* The pending record goes in the same transaction as the receive of its ACK.
ReceiveAck(n, p) ==
    LET node == mem[n]
        m == p.body[2]
        new == [node EXCEPT !.session = Received(@, p.counter),
                            !.pending = Without(@, m)]
    IN /\ p.body[1] = "ack"
       /\ p.counter \notin node.session.received
       /\ \/ /\ Saved(n, new)
             /\ confirmed' = IF m \in DOMAIN node.pending
                             THEN confirmed \cup {m} ELSE confirmed
             /\ UNCHANGED <<submitted, emitted, carried>>
          \/ WrittenThenRefused(n, new) /\ UNCHANGED observed

ReceiveFrame(n, p) ==
    /\ p.counter > 0 /\ p.tag = mem[n].session.tag
    /\ ReceiveData(n, p) \/ ReceiveAck(n, p)

\* Kind::Credit: coverage only grows.
ReceiveCredit(n, p) ==
    LET node == mem[n]
        s == [node.session EXCEPT !.credited = @ \cup p.cover, !.state = "established"]
    IN /\ p.counter = 0 /\ p.tag = node.session.tag
       /\ \E now \in 0..MaxNow :
            LET new == [StageCredit(node, s, now) EXCEPT !.session = s]
            IN Saved(n, new) \/ WrittenThenRefused(n, new)
       /\ UNCHANGED observed

Deliver(p) ==
    /\ p \in net
    /\ ~mem[p.to].failed
    /\ \/ AcceptFirstMove(p.to, p)
       \/ ReceiveFrame(p.to, p)
       \/ ReceiveCredit(p.to, p)

-----------------------------------------------------------------------------
(* The application's cursor, and restarts                                  *)

\* consume: the entry leaves the inbox in a checkpoint of its own.
Consume(n, m) ==
    /\ ~mem[n].failed
    /\ mem[n].inbox[m] > 0
    /\ LET new == [mem[n] EXCEPT !.inbox[m] = @ - 1, !.taken[m] = @ + 1]
       IN Saved(n, new) \/ WrittenThenRefused(n, new)
    /\ UNCHANGED observed

\* (Fault: the application inbox is not part of the archive.)
Bug_Restored(node) == [node EXCEPT !.inbox = [m \in Messages |-> 0]]

\* restore: volatile records and their retained ciphertext were never written.
Restored(node) ==
    LET s == node.session
        ram == {c \in Uncredited(s) : s.sent[c][1] = "data"
                                      /\ Kind[s.sent[c][2]] = "volatile"}
        kept == {m \in DOMAIN node.pending : Kind[m] # "volatile"}
    IN [node EXCEPT !.session.missing = ram, !.pending = [m \in kept |-> node.pending[m]]]

\* The node is reopened from its archive and sends what the archive holds.
Restart(n) ==
    LET node == Restored(disk[n])
    IN /\ Spend("crashes") \/ (mem[n].failed /\ UNCHANGED left)
       /\ Live(n, node)
       /\ disk' = [disk EXCEPT ![n] = node]
       /\ UNCHANGED observed

-----------------------------------------------------------------------------

FreshNode ==
    [session |-> NoSession, pending |-> <<>>, receipts |-> <<>>, owed |-> {},
     floor |-> 0, inbox |-> [m \in Messages |-> 0], taken |-> [m \in Messages |-> 0],
     firsts |-> {}, failed |-> FALSE]

Init ==
    /\ mem = [n \in Nodes |-> FreshNode]
    /\ disk = mem
    /\ net = {}
    /\ submitted = <<>>
    /\ emitted = [m \in Messages |-> 0]
    /\ confirmed = {}
    /\ carried = {}
    /\ left \in Cases

Next ==
    \/ \E n \in Nodes, m \in Messages : Submit(n, m) \/ Consume(n, m)
    \/ \E n \in Nodes : MaterializeDeferred(n) \/ MaterializeAck(n) \/ DropExpired(n)
    \/ \E n \in Nodes : Recover(n) \/ Restart(n)
    \/ \E p \in net : Deliver(p)

Spec == Init /\ [][Next]_vars

-----------------------------------------------------------------------------
(* Safety                                                                  *)

\* m had one effect: one event, or one entry that is in the inbox or was taken.
OneEffect(m) ==
    /\ emitted[m] <= 1
    /\ \A n \in Nodes : \A node \in {mem[n], disk[n]} : node.inbox[m] + node.taken[m] <= 1

\* Across lost acknowledgments, session replacement, restarts, uncertain
\* writes and a clock that is set back, a record has one effect, unless its
\* acknowledgment was deferred and prepared only in a later session: such an
\* acknowledgment may be credited, and the receipt it stands for dropped
\* (stage_credit), before the re-encrypted record arrives in that session.
ReappliedOnlyIfCarried ==
    \A m \in Messages \ carried : OneEffect(m)

\* A sender is told of a durable record's delivery only when the receiver's
\* archive holds it, or held it until the application took it.
ConfirmedIsHeld ==
    \A m \in confirmed : Kind[m] = "durable" =>
        LET r == disk[Peer(From[m])] IN r.inbox[m] + r.taken[m] >= 1

\* The ledger Ledger::decode accepts: a receipt has its acknowledgment or the
\* obligation to prepare one; and an acknowledgment it names in the current
\* session is that record's, still to be credited.
ObligationKept ==
    \A n \in Nodes : \A node \in {mem[n], disk[n]} : \A m \in DOMAIN node.receipts :
        /\ node.receipts[m] = {} => m \in node.owed
        /\ \A b \in node.receipts[m] : b[1] = node.session.tag =>
              /\ b[2] \in Uncredited(node.session)
              /\ node.session.sent[b[2]] = Ack(m)

\* Two peers that both consider a generation established use one session: the
\* collision rules never leave each with its own.
OneSessionPerGeneration ==
    \A n, p \in Nodes :
        (/\ mem[n].session.state = "established" /\ mem[p].session.state = "established"
         /\ mem[n].session.gen = mem[p].session.gen)
          => mem[n].session.tag = mem[p].session.tag

\* The counters of a session carry durable records in the order they were
\* submitted, deferred or not.
DurableInOrder ==
    \A n \in Nodes : \A c, d \in DOMAIN mem[n].session.sent :
        LET s == mem[n].session.sent
        IN (/\ c < d /\ s[c][1] = "data" /\ s[d][1] = "data"
            /\ Kind[s[c][2]] = "durable" /\ Kind[s[d][2]] = "durable")
             => Precedes(s[c][2], s[d][2])

-----------------------------------------------------------------------------
(* Liveness: the maintenance tick and the application's cursor keep        *)
(* running, a paused node is reopened, and a packet that the tick sends    *)
(* again and again arrives.                                                *)

\* tick: the repair queue of a session that needs no recovery, and the cells
\* of a pending record.
Repeated(n, c) ==
    LET s == mem[n].session
    IN /\ ~mem[n].failed
       /\ c \in Uncredited(s) \ s.missing
       /\ \/ ~RecoveryRequired(s, FALSE)
          \/ \E m \in DOMAIN mem[n].pending : mem[n].pending[m] = c

FrameArrives(n) ==
    \E p \in net : /\ p.to = n /\ p.tag = mem[Peer(n)].session.tag
                   /\ Repeated(Peer(n), p.counter)
                   /\ Deliver(p)

\* A repeated counter is answered with the current coverage.
CreditArrives(n) ==
    LET s == mem[Peer(n)].session
    IN /\ \E c \in s.received : mem[n].session.tag = s.tag /\ Repeated(n, c)
       /\ \E p \in net : p = Credit(Peer(n), s) /\ Deliver(p)

TimedOut(n) ==
    /\ Recover(n)
    /\ mem[n].session.state = "initiated" \/ RecoveryRequired(mem[n].session, FALSE)

Progress(n) ==
    \/ MaterializeDeferred(n) \/ MaterializeAck(n) \/ TimedOut(n)
    \/ FrameArrives(n) \/ CreditArrives(n)
    \/ mem[n].failed /\ Restart(n)
    \/ \E m \in Messages : Consume(n, m)

FairSpec == Spec /\ \A n \in Nodes : WF_vars(Progress(n))

\* A durable record that does not expire leaves its sender's retry journal: it
\* is acknowledged through timed-out setups, recoveries, full windows, a full
\* inbox and restarts.
PendingSettles ==
    \A m \in Messages :
        Kind[m] = "durable" /\ Horizon[m] > MaxNow =>
            (m \in DOMAIN mem[From[m]].pending ~> m \notin DOMAIN mem[From[m]].pending)

=============================================================================
