--------------------------- MODULE ChannelDelivery ---------------------------
(* Texts and membership commits of one channel, from the sender's outbox to    *)
(* the recipients' durable inboxes and back as acknowledgements:               *)
(*   node/src/node/channels.rs            receive handler, send, removal       *)
(*   node/src/channel.rs, catchup.rs      outboxes, journals, parked messages  *)
(*   node/src/node/channel_maintenance.rs the retry loop                       *)
(*   node/src/node/persist.rs             what a reopened channel remembers    *)
(*                                                                             *)
(* node[n] is the channel state in memory, disk[n] the last checkpoint. A      *)
(* save writes the whole durable part at once; one that reports failure may    *)
(* have reached the disk all the same. A wire is identified by what it says,   *)
(* who wrote it and in which epoch; a packet stays in the network until lost,  *)
(* so it may arrive late, again, and in any order. MLS is external: a wire can *)
(* be read once, not by its author, in its own epoch or (texts and             *)
(* acknowledgements) in a later one.                                           *)
EXTENDS Naturals, FiniteSets, SequencesExt, TLC

CONSTANTS
    Owner,          \* the channel's owner
    Members,        \* the others that may be its members
    Texts,          \* identities of application messages
    Author,         \* Author[t] is the member that sends text t
    AckLimit,       \* CHANNEL_ACK_LIMIT
    OutboxLimit,    \* unacknowledged texts of one sender
    InboxLimit,     \* channel_inbox::LIMIT
    ParkLimit,      \* FUTURE_MESSAGE_COUNT_LIMIT
    EpochDistance,  \* FUTURE_EPOCH_DISTANCE_LIMIT
    Cases           \* the channels and bounds a behaviour may start with: [members,
                    \* removable, unknown, recovered, overlay, catchup, save, ack, crash]

VARIABLES node, disk, net, used, confirmed, offered, given

vars == <<node, disk, net, used, confirmed, offered, given>>

(* given is one of Cases; of its bounds, save, ack and crash count down:       *)
(*   members, removable    the other members, and those the owner may remove   *)
(*   unknown               <<n, m>>: n starts without m's authenticated route  *)
(*   recovered             nodes whose own route was recovered and is announced*)
(*   overlay               <<n, m>>: m is a gossip neighbour of n              *)
(*   catchup               whether every member opted into commit history      *)
(*   save, ack, crash      failed saves (ack: while an acknowledgement is      *)
(*                         consumed) and restarts still allowed                *)
Nodes == {Owner} \cup given.members

Wire(kind, id, from, epoch) == [kind |-> kind, id |-> id, from |-> from, epoch |-> epoch]

Results == {"saved", "lost", "written"}

(* The part of a channel that a checkpoint holds.                              *)
Volatile == {"sighted", "parked", "pending", "announced"}
Durable(r) == [f \in DOMAIN r \ Volatile |-> r[f]]

(* What a reopened channel knows: the checkpoint, and as sighted the wires of  *)
(* its outboxes and the originals of its retained acknowledgements.            *)
Reopened(d) ==
    d @@ [sighted |-> {d.outbox[t].wire : t \in DOMAIN d.outbox}
                       \cup (IF d.journal = <<>> THEN {} ELSE {d.journal[1].wire})
                       \cup {a.of : a \in Range(d.cache)}
                       \cup {a.of : a \in Range(d.unrouted)},
          parked |-> <<>>, pending |-> {}, announced |-> {}]

(* Parameters of a save: the accumulated state a, the state to be saved, the   *)
(* state to fall back to, and the result.                                      *)
Transact(a, new, old, result) ==
    [a EXCEPT !.r = IF result = "saved" THEN new ELSE old,
              !.d = IF result = "lost" THEN @ ELSE Durable(new)]

Init ==
    /\ given \in Cases
    /\ node = [n \in {Owner} \cup Members |->
          [live |-> TRUE, epoch |-> 0, roster |-> Nodes, read |-> {},
           dir |-> {m \in Nodes \ {n} : <<n, m>> \notin given.unknown},
           outbox |-> <<>>, journal |-> <<>>, control |-> <<>>, cache |-> <<>>,
           unrouted |-> <<>>, inbox |-> <<>>, next |-> 1,
           routes |-> 0, sighted |-> {}, parked |-> <<>>, pending |-> {},
           announced |-> {}]]
    /\ disk = [n \in DOMAIN node |-> Durable(node[n])]
    /\ net = {}
    /\ used = {}
    /\ confirmed = {}
    /\ offered = [n \in DOMAIN node |-> {}]

-----------------------------------------------------------------------------
(* Acknowledgements at the recipient.                                          *)

IsAck(w) == w.kind \in {"textack", "commitack"}
AckOf(w, me, epoch) ==
    Wire(IF w.kind = "text" THEN "textack" ELSE "commitack", w.id, me, epoch)

Cached(r, w) == \E a \in Range(r.cache) : a.of = w
CachedFor(r, w) == CHOOSE a \in Range(r.cache) : a.of = w

(* The oldest reply leaves a full cache; a reply for the same wire is replaced. *)
CacheAck(r, w, to, ack) ==
    LET entry == [of |-> w, to |-> to, ack |-> ack]
        grown == IF Cached(r, w) THEN [i \in DOMAIN r.cache |->
                                         IF r.cache[i].of = w THEN entry ELSE r.cache[i]]
                 ELSE Append(r.cache, entry)
    IN [r EXCEPT !.cache = IF Len(grown) > AckLimit THEN Tail(grown) ELSE grown]

Queued(r, to, w) == [r EXCEPT !.control = Append(@, [to |-> to, wire |-> w])]

AckRoom(r, w) ==
    \/ Cached(r, w)
    \/ w.from \in r.dir /\ Len(r.control) < AckLimit
    \/ w.from \notin r.dir /\ Len(r.unrouted) < AckLimit

StageAck(r, w, me) ==
    LET ack == AckOf(w, me, r.epoch)
    IN CASE Cached(r, w) -> r
         [] ~Cached(r, w) /\ w.from \in r.dir -> CacheAck(Queued(r, w.from, ack), w, w.from, ack)
         [] OTHER -> [r EXCEPT !.unrouted = Append(@, [of |-> w, to |-> w.from, ack |-> ack])]

\* Mutant: a promoted acknowledgement is queued but not cached.
Bug_PromoteUnrouted(r, m) ==
    FoldLeft(LAMBDA s, a : IF a.to = m /\ Len(s.control) < AckLimit
                           THEN [Queued(s, m, a.ack) EXCEPT !.unrouted = Tail(@)] ELSE s,
             r, r.unrouted)

(* Journalled acknowledgements move to the queue as far as it has room.        *)
PromoteUnrouted(r, m) ==
    FoldLeft(LAMBDA s, a :
                IF a.to = m /\ Len(s.control) < AckLimit
                THEN [CacheAck(Queued(s, m, a.ack), a.of, m, a.ack)
                         EXCEPT !.unrouted = SelectSeq(@, LAMBDA b : b # a)]
                ELSE s,
             r, r.unrouted)

-----------------------------------------------------------------------------
(* deliver_mls: one wire, read under the node's lock. The accumulator a holds  *)
(* the channel r, its checkpoint d and the sends confirmed; every case ends in *)
(* one save with the given result.                                             *)

Readable(r, w, me) ==
    /\ w.from # me
    /\ w \notin r.read
    /\ w.epoch <= r.epoch
    /\ w.kind = "commit" => w.epoch = r.epoch

Read(r, w) == [r EXCEPT !.read = @ \cup {w}]
Forget(r, w) == [r EXCEPT !.sighted = @ \ {w}]

InboxRoom(r) == Len(r.inbox) < InboxLimit
StageInbox(r, t) ==
    [r EXCEPT !.inbox = Append(@, [seq |-> r.next, text |-> t]), !.next = @ + 1]

\* Mutant: the acknowledgement survives the roll-back of a failed save.
Bug_EarlyAckText(a, w, me, result) ==
    LET new == StageAck(StageInbox(Read(a.r, w), w.id), w, me)
    IN Transact(a, new, [Forget(a.r, w) EXCEPT !.control = new.control], result)

\* Mutant: the roll-back keeps the staged delivery.
Bug_KeptStaging(a, w, me, result) ==
    LET new == StageAck(StageInbox(Read(a.r, w), w.id), w, me)
    IN IF InboxRoom(a.r) /\ AckRoom(a.r, w)
       THEN Transact(a, new, [Forget(a.r, w) EXCEPT !.inbox = new.inbox, !.next = new.next], result)
       ELSE [a EXCEPT !.r = Forget(@, w)]

\* Mutant: the roll-back keeps the sighting.
Bug_KeptSighting(a, w, me, result) ==
    LET new == StageAck(StageInbox(Read(a.r, w), w.id), w, me)
    IN IF InboxRoom(a.r) /\ AckRoom(a.r, w) THEN Transact(a, new, a.r, result) ELSE a

CommitText(a, w, me, result) ==
    IF InboxRoom(a.r) /\ AckRoom(a.r, w)
    THEN LET new == StageAck(StageInbox(Read(a.r, w), w.id), w, me)
         IN Transact(a, [new EXCEPT !.pending = @ \cup {w}], Forget(a.r, w), result)
    ELSE [a EXCEPT !.r = Forget(@, w)]

(* A removed member drops the channel; the node's inbox outlives it.           *)
CommitRemoval(a, w, result) ==
    Transact(a, [a.r EXCEPT !.live = FALSE], Forget(a.r, w), result)

\* Mutant: the acknowledgement survives the roll-back of a failed save.
Bug_CommitEpoch(a, w, me, result) ==
    LET merged == [Read(a.r, w) EXCEPT !.epoch = @ + 1, !.roster = @ \ {w.id}]
        new    == StageAck(merged, w, me)
    IN Transact(a, new, [Forget(a.r, w) EXCEPT !.control = new.control], result)

CommitEpoch(a, w, me, result) ==
    LET merged == [Read(a.r, w) EXCEPT !.epoch = @ + 1, !.roster = @ \ {w.id},
                                       !.dir = @ \ {w.id}]
    IN IF AckRoom(merged, w)
       THEN Transact(a, StageAck(merged, w, me), Forget(a.r, w), result)
       ELSE [a EXCEPT !.r = Forget(@, w)]

(* The wire that announces the own route is written once per epoch and kept in *)
(* memory. It is queued unless it waits for the same member already.           *)
OwnRoute(r, me) ==
    LET kept == {w \in r.announced : w.epoch = r.epoch}
    IN IF kept = {} THEN Wire("dir", r.routes + 1, me, r.epoch) ELSE CHOOSE w \in kept : TRUE

RouteWaits(r, m, me) == [to |-> m, wire |-> OwnRoute(r, me)] \in Range(r.control)

StageRoute(r, m, me) ==
    LET w == OwnRoute(r, me)
        written == [r EXCEPT !.announced = {w},
                             !.routes = IF w \in r.announced THEN @ ELSE @ + 1]
    IN IF RouteWaits(r, m, me) THEN written ELSE Queued(written, m, w)

(* A route learned from its owner is answered with the own route, if the queue *)
(* has room, and opens the way for acknowledgements waiting for it.            *)
CommitDir(a, w, me, result) ==
    LET own     == OwnRoute(a.r, me)
        replies == /\ w.from \notin a.r.dir
                   /\ RouteWaits(a.r, w.from, me) \/ Len(a.r.control) < AckLimit
        known   == [Read(a.r, w) EXCEPT !.dir = @ \cup {w.from}]
        new     == IF replies THEN CacheAck(StageRoute(known, w.from, me), w, w.from, own)
                   ELSE known
        after   == Transact(a, new, Forget(a.r, w), result)
    IN IF w.from \notin a.r.roster THEN a
       ELSE IF result # "saved" THEN after
       ELSE [after EXCEPT !.r = [PromoteUnrouted(@, w.from) EXCEPT
                !.sighted = IF replies THEN @ \cup {own} ELSE @,
                !.pending = @ \cup {w}]]

ConsumeTextAck(a, w, result) ==
    LET waits   == w.id \in DOMAIN a.r.outbox /\ w.from \in a.r.outbox[w.id].expected
        counted == [a.r.outbox[w.id] EXCEPT !.acked = @ \cup {w.from}]
        done    == waits /\ counted.expected \subseteq counted.acked
        outbox  == IF done THEN [t \in DOMAIN a.r.outbox \ {w.id} |-> a.r.outbox[t]]
                   ELSE IF waits THEN [a.r.outbox EXCEPT ![w.id] = counted]
                   ELSE a.r.outbox
        new     == [Read(a.r, w) EXCEPT !.outbox = outbox]
        after   == Transact(a, new, a.r, result)
    IN IF done /\ result = "saved"
       THEN [after EXCEPT !.told = @ \cup {[text |-> w.id, by |-> counted.expected]},
                          !.r.pending = @ \ {counted.wire}]
       ELSE after

Incomplete(journal) == SelectSeq(journal, LAMBDA c : c.acked # c.expected)

ConsumeCommitAck(a, w, result) ==
    LET counted == [i \in DOMAIN a.r.journal |->
                      LET c == a.r.journal[i]
                      IN IF c.wire.id = w.id /\ w.from \in c.expected
                         THEN [c EXCEPT !.acked = @ \cup {w.from}] ELSE c]
    IN Transact(a, [Read(a.r, w) EXCEPT !.journal = Incomplete(counted)], a.r, result)

Deliver(a, w, me, result) ==
    CASE ~Readable(a.r, w, me) -> a
      [] Readable(a.r, w, me) /\ w.kind = "text" -> CommitText(a, w, me, result)
      [] Readable(a.r, w, me) /\ w.kind = "commit" /\ w.id = me -> CommitRemoval(a, w, result)
      [] Readable(a.r, w, me) /\ w.kind = "commit" /\ w.id # me -> CommitEpoch(a, w, me, result)
      [] Readable(a.r, w, me) /\ w.kind = "dir" -> CommitDir(a, w, me, result)
      [] Readable(a.r, w, me) /\ w.kind = "textack" -> ConsumeTextAck(a, w, result)
      [] Readable(a.r, w, me) /\ w.kind = "commitack" -> ConsumeCommitAck(a, w, result)

(* After every delivery the wires parked for epochs now reached are delivered, *)
(* lowest epoch first. At most one save of an action fails, that of wire f.    *)
ByEpoch(parked) ==
    FoldLeft(LAMBDA s, e : s \o SelectSeq(parked, LAMBDA w : w.epoch = e),
             <<>>, [e \in 1..Cardinality(given.removable) |-> e])

Drained(a, me, f, result) ==
    FoldLeft(LAMBDA b, w :
                IF b.r.live /\ w.epoch <= b.r.epoch
                THEN Deliver([b EXCEPT !.r.parked = SelectSeq(@, LAMBDA v : v # w)], w, me,
                             IF w = f THEN result ELSE "saved")
                ELSE b,
             a, ByEpoch(a.r.parked))

-----------------------------------------------------------------------------
(* A failed save, of the given kind, uses up one fault.                        *)
Charge(kind, result) ==
    IF result = "saved" THEN UNCHANGED given
    ELSE /\ given[kind] > 0
         /\ given' = [given EXCEPT ![kind] = @ - 1]

Settle(n, a) ==
    /\ node' = [node EXCEPT ![n] = a.r]
    /\ disk' = [disk EXCEPT ![n] = a.d]
    /\ offered' = [offered EXCEPT ![n] = @ \cup Range(a.r.inbox)]

At(n) == [r |-> node[n], d |-> disk[n], told |-> {}]

(* A repeated wire is answered from the cache, unless the answer is queued.    *)
ReceiveAgain(n, w) ==
    LET r == node[n]
        a == CachedFor(r, w)
    IN /\ w \in r.sighted
       /\ Cached(r, w)
       /\ Len(r.control) < AckLimit
       /\ [to |-> a.to, wire |-> a.ack] \notin Range(r.control)
       /\ node' = [node EXCEPT ![n] = Queued(r, a.to, a.ack)]
       /\ UNCHANGED <<disk, confirmed, offered, given>>

(* A wire of a later epoch waits; one that finds no room is dropped.           *)
Park(n, w) ==
    LET r == node[n]
        seen == [r EXCEPT !.sighted = @ \cup {w}]
    IN /\ w \notin r.sighted
       /\ w.epoch > r.epoch
       /\ w.epoch - r.epoch <= EpochDistance
       /\ node' = [node EXCEPT ![n] = IF Len(r.parked) < ParkLimit
                                      THEN [seen EXCEPT !.parked = Append(@, w)] ELSE seen]
       /\ UNCHANGED <<disk, confirmed, offered, given>>

ReceiveNew(n, w, f, result) ==
    LET r == node[n]
        a == Deliver([At(n) EXCEPT !.r.sighted = @ \cup {w}], w, n,
                     IF w = f THEN result ELSE "saved")
        b == Drained(a, n, f, result)
    IN /\ w \notin r.sighted
       /\ w.epoch <= r.epoch
       /\ f \in {w} \cup Range(r.parked)
       /\ result = "saved" => f = w
       /\ Charge(IF IsAck(f) THEN "ack" ELSE "save", result)
       /\ Settle(n, b)
       /\ confirmed' = confirmed \cup b.told

Receive(n, w) ==
    /\ [to |-> n, wire |-> w] \in net
    /\ node[n].live
    /\ \/ ReceiveAgain(n, w)
       \/ Park(n, w)
       \/ \E f \in {w} \cup Range(node[n].parked), result \in Results :
             ReceiveNew(n, w, f, result)
    /\ UNCHANGED <<net, used>>

-----------------------------------------------------------------------------
(* Sends, removals and route announcements: staged and saved before any wire   *)
(* leaves; a failed save restores the channel.                                 *)

Barrier(r) == r.journal # <<>> /\ ~given.catchup

Send(n, t, tracked, result) ==
    LET r        == node[n]
        others   == r.roster \ {n}
        expected == others \cap r.dir
        w        == Wire("text", t, n, r.epoch)
        staged   == IF expected = {} THEN r
                    ELSE [r EXCEPT !.outbox =
                            (t :> [wire |-> w, expected |-> expected, acked |-> {}]) @@ @]
        sent     == [staged EXCEPT !.sighted = @ \cup {w}, !.pending = @ \cup {w}]
    IN /\ r.live
       /\ t \notin used /\ Author[t] = n
       /\ ~Barrier(r)
       /\ Cardinality(DOMAIN r.outbox) < OutboxLimit
       /\ tracked => others # {} /\ expected = others
       /\ used' = used \cup {t}
       /\ Charge("save", result)
       /\ Settle(n, Transact(At(n), sent, r, result))
       /\ UNCHANGED <<net, confirmed>>

RemoveMember(m, result) ==
    LET r        == node[Owner]
        expected == r.dir \ {m}
        w        == Wire("commit", m, Owner, r.epoch)
        record   == [wire |-> w, expected |-> expected, acked |-> {}]
        journal  == IF expected = {} THEN r.journal ELSE Append(r.journal, record)
        pruned   == [i \in DOMAIN journal |->
                       [journal[i] EXCEPT !.expected = @ \ {m}, !.acked = @ \ {m}]]
        noticed  == IF m \in r.dir THEN Queued(r, m, w) ELSE r
        new      == [noticed EXCEPT !.epoch = @ + 1, !.roster = @ \ {m}, !.dir = @ \ {m},
                                    !.journal = Incomplete(pruned)]
    IN /\ m \in r.roster
       /\ ~Barrier(r)
       /\ m \in r.dir => Len(r.control) < AckLimit
       /\ Charge("save", result)
       /\ Settle(Owner, Transact(At(Owner), [new EXCEPT !.pending = @ \cup {w}], r, result))
       /\ UNCHANGED <<net, used, confirmed>>

Announce(n, m, result) ==
    LET r   == node[n]
        new == [StageRoute(r, m, n) EXCEPT !.sighted = @ \cup {OwnRoute(r, n)}]
    IN /\ r.live /\ n \in given.recovered
       /\ m \in r.roster \cap r.dir
       /\ ~RouteWaits(r, m, n)
       /\ Len(r.control) < AckLimit
       /\ Charge("save", result)
       /\ Settle(n, Transact(At(n), new, r, result))
       /\ UNCHANGED <<net, used, confirmed>>

-----------------------------------------------------------------------------
(* The retry loop. A hop that is not accepted leaves the record where it was.  *)

Transmit(to, w) == net' = net \cup {[to |-> to, wire |-> w]}

SendControl(n, c, accepted) ==
    /\ node[n].live
    /\ c \in Range(node[n].control)
    /\ Transmit(c.to, c.wire)
    /\ node' = IF accepted THEN [node EXCEPT ![n].control = SelectSeq(@, LAMBDA b : b # c)]
               ELSE node
    /\ UNCHANGED <<disk, used, confirmed, offered, given>>

(* The control tick moves acknowledgements whose route is known.               *)
Promote(n) ==
    /\ node[n].live
    /\ \E a \in Range(node[n].unrouted) : a.to \in node[n].dir
    /\ node' = [node EXCEPT ![n] = FoldLeft(PromoteUnrouted, @, SetToSeq(@.dir))]
    /\ UNCHANGED <<disk, net, used, confirmed, offered, given>>

SendText(n, t, m) ==
    /\ node[n].live
    /\ t \in DOMAIN node[n].outbox
    /\ m \in node[n].outbox[t].expected \ node[n].outbox[t].acked
    /\ n = Owner => m \in node[n].roster
    /\ Transmit(m, node[n].outbox[t].wire)
    /\ UNCHANGED <<node, disk, used, confirmed, offered, given>>

(* A member's next commit waits for its acknowledgement of the previous one.   *)
TargetReady(r, i, m) ==
    ~\E j \in 1..(i - 1) : m \in r.journal[j].expected \ r.journal[j].acked

SendCommit(i, m) ==
    /\ i \in DOMAIN node[Owner].journal
    /\ m \in node[Owner].journal[i].expected \ node[Owner].journal[i].acked
    /\ TargetReady(node[Owner], i, m)
    /\ Transmit(m, node[Owner].journal[i].wire)
    /\ UNCHANGED <<node, disk, used, confirmed, offered, given>>

(* Gossip: to overlay neighbours, until accepted; or given up, or displaced.   *)
(* (The queue of a node without neighbours is never read; it is left alone.)   *)
Forward(n, w, m, settled) ==
    /\ node[n].live
    /\ w \in node[n].pending
    /\ <<n, m>> \in given.overlay /\ m \in node[n].dir
    /\ Transmit(m, w)
    /\ node' = IF settled THEN [node EXCEPT ![n].pending = @ \ {w}] ELSE node
    /\ UNCHANGED <<disk, used, confirmed, offered, given>>

DropForward(n, w) ==
    /\ w \in node[n].pending
    /\ \E m \in Nodes : <<n, m>> \in given.overlay
    /\ node' = [node EXCEPT ![n].pending = @ \ {w}]
    /\ UNCHANGED <<disk, net, used, confirmed, offered, given>>

(* The archive owner confirms a delivery it has stored.                        *)
Consume(n, i, result) ==
    /\ i \in DOMAIN node[n].inbox
    /\ Charge("save", result)
    /\ Settle(n, Transact(At(n), [node[n] EXCEPT !.inbox = RemoveAt(@, i)], node[n], result))
    /\ UNCHANGED <<net, used, confirmed>>

Flush(n) ==
    /\ disk[n] # Durable(node[n])
    /\ disk' = [disk EXCEPT ![n] = Durable(node[n])]
    /\ UNCHANGED <<node, net, used, confirmed, offered, given>>

Restart(n) ==
    /\ given.crash > 0
    /\ given' = [given EXCEPT !.crash = @ - 1]
    /\ node' = [node EXCEPT ![n] = Reopened(disk[n])]
    /\ offered' = [offered EXCEPT ![n] = @ \cup Range(disk[n].inbox)]
    /\ UNCHANGED <<disk, net, used, confirmed>>

(* The relays may lose what they accepted.                                     *)
Lose(p) ==
    /\ net' = net \ {p}
    /\ UNCHANGED <<node, disk, used, confirmed, offered, given>>

Next ==
    \/ \E n \in Nodes, t \in Texts, tracked \in BOOLEAN, s \in Results : Send(n, t, tracked, s)
    \/ \E m \in given.removable, s \in Results : RemoveMember(m, s)
    \/ \E n, m \in Nodes, s \in Results : Announce(n, m, s)
    \/ \E p \in net : Receive(p.to, p.wire)
    \/ \E n \in Nodes : \E c \in Range(node[n].control), b \in BOOLEAN : SendControl(n, c, b)
    \/ \E n \in Nodes : Promote(n)
    \/ \E n, m \in Nodes, t \in Texts : SendText(n, t, m)
    \/ \E m \in Members : \E i \in DOMAIN node[Owner].journal : SendCommit(i, m)
    \/ \E n, m \in Nodes : \E w \in node[n].pending, b \in BOOLEAN : Forward(n, w, m, b)
    \/ \E n \in Nodes : \E w \in node[n].pending : DropForward(n, w)
    \/ \E n \in Nodes, s \in Results : \E i \in DOMAIN node[n].inbox : Consume(n, i, s)
    \/ \E n \in Nodes : Flush(n)
    \/ \E n \in Nodes : Restart(n)

Spec == Init /\ [][Next]_vars

(* The maintenance loop keeps offering what is outstanding, the relays lose    *)
(* only finitely many of the repeated offers, and only finitely many saves     *)
(* fail and nodes restart.                                                     *)
LossyNext == Next \/ \E p \in net : Lose(p)

ReceiveKind(kind) == \E p \in {q \in net : q.wire.kind = kind} : Receive(p.to, p.wire)

TextSpec ==
    /\ Init /\ [][LossyNext]_vars
    /\ WF_vars(\E n \in Nodes : \E c \in Range(node[n].control) : SendControl(n, c, TRUE))
    /\ WF_vars(\E n, m \in Nodes, t \in Texts : SendText(n, t, m))
    /\ SF_vars(ReceiveKind("text")) /\ SF_vars(ReceiveKind("textack"))

-----------------------------------------------------------------------------
(* A ChannelDelivery event is only emitted for a text that every recipient it  *)
(* was sent to has staged in its archive inbox, whatever acknowledgements were *)
(* lost, repeated, cached, or re-sent after a restart.                         *)
ConfirmedIsHeld ==
    \A c \in confirmed : \A m \in c.by : \E e \in offered[m] : e.text = c.text

(* A member's archive is offered every text under one sequence number, and     *)
(* every number for one text, across retries, failed saves, restarts and       *)
(* commits: the archive owner can tell a repeat from a new message by number.  *)
OneNumberPerText ==
    \A n \in Nodes : \A a, b \in offered[n] : a.text = b.text <=> a.seq = b.seq

(* A member whose checkpoint is behind the owner's epoch is still owed every   *)
(* commit it lacks: the owner retires a membership record only for commits     *)
(* that survive a restart of the members that acknowledged them. (For members  *)
(* whose route the owner had when it committed.)                               *)
BehindIsOwed ==
    \A m \in node[Owner].dir : \A e \in disk[m].epoch..(node[Owner].epoch - 1) :
        \E i \in DOMAIN node[Owner].journal :
            LET c == node[Owner].journal[i]
            IN c.wire.epoch = e /\ m \in c.expected \ c.acked

(* Every text and commit a member has read can be answered again, in memory    *)
(* and after a restart, as long as no reply was displaced from a full cache:   *)
(* the sender's retries of a lost acknowledgement meet a reply, not silence.   *)
AnswerRetained ==
    \A n \in Nodes : \A r \in {node[n], Reopened(disk[n])} :
        r.live /\ Len(r.cache) < AckLimit =>
            \A w \in {v \in r.read : v.kind \in {"text", "commit"}} :
                \E a \in Range(r.cache \o r.unrouted) : a.of = w

(* A sent text is eventually confirmed by everyone it was sent to.             *)
TextsConfirmed ==
    \A t \in Texts :
        (t \in DOMAIN node[Author[t]].outbox) ~> (t \notin DOMAIN node[Author[t]].outbox)
=============================================================================
