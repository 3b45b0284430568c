------------------------------ MODULE CreditFlow ------------------------------
(***************************************************************************)
(* Two peers of one GC/2 session exchange ratcheted frames and the credits   *)
(* that answer them: crates/protocol/src/flow/session.rs over FlowWindow,    *)
(* with the skipped-key store of crates/crypto/src/session.rs.               *)
(*                                                                           *)
(* Each operation is prepare, persist, commit under the node's state mutex,  *)
(* so it is one action here; the bytes it may emit appear by a separate      *)
(* Transmit, so a crash between persisting and emitting is a Transmit that   *)
(* has not happened.  The network reorders, duplicates and, when Lossy,      *)
(* forgets.  Both peers read one clock.  The ratchet's receive counter is    *)
(* Highest(received), which from_authenticated checks on every restore.      *)
(***************************************************************************)
EXTENDS FlowWindow

CONSTANTS
  Peers,      \* the two ends of the session
  Kinds,      \* records the application sends: [purpose, volatile]
  Lossy,      \* whether the network forgets packets
  MaxSent,    \* bound: counters each peer uses, a function on Peers
  MaxTime     \* bound: last tick of the clock

ASSUME LinkAssumption ==
  /\ \E a, b \in Peers : a # b /\ Peers = {a, b}
  /\ Kinds \subseteq [purpose : Purpose, volatile : BOOLEAN]
  /\ Lossy \in BOOLEAN
  /\ MaxSent \in [Peers -> Nat]
  /\ MaxTime \in Nat

VARIABLES
  win,      \* Window of each peer
  skipped,  \* skipped message keys of each peer: counter -> when stored
  frames,   \* frames in the network: [from, ctr]
  credits,  \* credits in the network: [to, ref, cov]
  now       \* the clock

vars == <<win, skipped, frames, credits, now>>

Other(p) == CHOOSE q \in Peers : q # p

Init ==
  /\ win = [p \in Peers |-> NewWindow]
  /\ skipped = [p \in Peers |-> [c \in {} |-> 0]]
  /\ frames = {}
  /\ credits = {}
  /\ now = 1

-----------------------------------------------------------------------------
\* prepare_send_inner and commit_send; prepare_volatile_send_at refuses Control.
Send(p, kind) ==
  /\ win[p].sent < MaxSent[p]
  /\ ~RecoveryRequired(win[p], now)
  /\ HasRoom(win[p], kind.purpose)
  /\ kind.volatile => kind.purpose # "Control"
  /\ win' = [win EXCEPT ![p] = RecordSent(@, kind.purpose, kind.volatile, now)]
  /\ UNCHANGED <<skipped, frames, credits, now>>

\* The first emission and every repair put the retained packet on the wire.
Transmit(p, c) ==
  /\ c \in Retries(win[p])
  /\ ~RecoveryRequired(win[p], now)
  /\ frames' = frames \cup {[from |-> p, ctr |-> c]}
  /\ UNCHANGED <<win, skipped, credits, now>>

-----------------------------------------------------------------------------
(* The ratchet's side of a receive (Session::receive_at) *)

LiveSkipped(q) == {k \in DOMAIN skipped[q] : now - skipped[q][k] < SKIP_KEY_TTL}

\* A frame at or below the receive counter needs its skipped key; one above it
\* must not leave more than MAX_SKIP keys behind.
RatchetOpens(q, c) ==
  LET top == Highest(win[q].received)
  IN  IF c <= top
        THEN c \in LiveSkipped(q)
        ELSE Cardinality(LiveSkipped(q)) + (c - 1 - top) <= MAX_SKIP

SkippedAfter(q, c) ==
  LET top == Highest(win[q].received)
      keys == (LiveSkipped(q) \cup ((top + 1)..(c - 1))) \ {c}
  IN  [k \in keys |-> IF k \in LiveSkipped(q) THEN skipped[q][k] ELSE now]

CreditOf(q, w) == [to |-> Other(q), ref |-> LastAuthority(w), cov |-> CreditSnapshot(w)]

\* prepare_receive_at and commit_receive of a frame not seen before.
Receive(q, c) ==
  /\ [from |-> Other(q), ctr |-> c] \in frames
  /\ ~Contains(win[q].received, c)
  /\ RatchetOpens(q, c)
  /\ Acceptable(win[q].received, c)
  /\ \E staged \in {RecordAuthenticated(win[q], c)} :
        /\ CanCredit(staged, c)
        /\ win' = [win EXCEPT ![q] = CacheCredit(staged)]
        /\ credits' = credits \cup {CreditOf(q, staged)}
  /\ skipped' = [skipped EXCEPT ![q] = SkippedAfter(q, c)]
  /\ UNCHANGED <<frames, now>>

\* prepare_receive_at on a duplicate (or prepare_first_move_retry): only a credit.
ReceiveDuplicate(q, c) ==
  /\ [from |-> Other(q), ctr |-> c] \in frames
  /\ Contains(win[q].received, c)
  /\ CanCredit(win[q], c)
  /\ win' = [win EXCEPT ![q] = CacheCredit(@)]
  /\ credits' = credits \cup {CreditOf(q, win[q])}
  /\ UNCHANGED <<skipped, frames, now>>

\* prepare_credit and commit_credit; an unchanged window is not committed.
ReceiveCredit(p, credit) ==
  /\ credit.to = p
  /\ CreditUsable(win[p], credit.ref, credit.cov)
  /\ MergedCredit(win[p], credit.cov) # win[p].credited
  /\ win' = [win EXCEPT ![p] = AcceptCredit(@, credit.cov)]
  /\ UNCHANGED <<skipped, frames, credits, now>>

-----------------------------------------------------------------------------
\* The process stops and comes back from its archive (restore_at); an archive
\* that fails its checks is not restored.
Restart(p) ==
  /\ DecodeAccepts(EncodePrivate(win[p]))
  /\ win' = [win EXCEPT ![p] = EncodePrivate(@)]
  /\ UNCHANGED <<skipped, frames, credits, now>>

Tick ==
  /\ now < MaxTime
  /\ now' = now + 1
  /\ UNCHANGED <<win, skipped, frames, credits>>

LoseFrame(f) ==
  /\ Lossy
  /\ frames' = frames \ {f}
  /\ UNCHANGED <<win, skipped, credits, now>>

LoseCredit(credit) ==
  /\ Lossy
  /\ credits' = credits \ {credit}
  /\ UNCHANGED <<win, skipped, frames, now>>

Next ==
  \/ \E p \in Peers :
        \/ \E kind \in Kinds : Send(p, kind)
        \/ \E c \in DOMAIN win[p].tx : Transmit(p, c)
        \/ \E f \in frames : Receive(p, f.ctr) \/ ReceiveDuplicate(p, f.ctr)
        \/ \E credit \in credits : ReceiveCredit(p, credit)
        \/ Restart(p)
  \/ Tick
  \/ \E f \in frames : LoseFrame(f)
  \/ \E credit \in credits : LoseCredit(credit)

Spec == Init /\ [][Next]_vars

\* Maintenance repeats every due repair, and a packet repeated for ever gets
\* through a network that forgets some of them.
Fairness ==
  \A p \in Peers :
    /\ \A c \in 1..MaxSent[p] :
          /\ WF_vars(Transmit(p, c))
          /\ SF_vars(Receive(Other(p), c) \/ ReceiveDuplicate(Other(p), c))
    /\ SF_vars(\E credit \in credits : ReceiveCredit(p, credit))

FairSpec == Spec /\ Fairness

-----------------------------------------------------------------------------
(* Properties *)

\* Type invariant: each peer's window, key store and the packets in flight are
\* of the shape the Window, Session, Frame and credit structures declare.
TypeOK ==
  /\ win = [p \in Peers |-> win[p]]
  /\ skipped = [p \in Peers |-> skipped[p]]
  /\ \A p \in Peers :
        /\ IsWindow(win[p])
        /\ DOMAIN skipped[p] \subseteq Nat /\ skipped[p] \in [DOMAIN skipped[p] -> Nat]
  /\ frames \subseteq [from : Peers, ctr : Nat]
  /\ credits \subseteq [to : Peers, ref : Nat, cov : Coverage]
  /\ now \in Nat

\* Credit says only what is true: every counter a sender holds as credited was
\* authenticated and recorded by its peer, whatever order, duplication or
\* restart the frames and credits went through (accept_credit, flow.rs:508).
CreditSound ==
  \A p \in Peers :
    /\ Covered(win[p].credited) \subseteq Covered(win[Other(p)].received)
    /\ Covered(win[Other(p)].received) \subseteq 1..win[p].sent

\* The credit a receiver would send now is one the sender can still open and
\* use, and it brings the sender level: its authority is retained until the
\* floor passes it (comment at flow.rs:470), and merging it leaves exactly the
\* receiver's coverage.
FreshCreditCompletes ==
  \A p \in Peers :
    LET w == win[Other(p)] IN
      \/ Highest(w.received) <= win[p].credited.floor
      \/ /\ CreditUsable(win[p], LastAuthority(w), CreditSnapshot(w))
         /\ Covered(MergedCredit(win[p], CreditSnapshot(w))) = Covered(w.received)

\* A repaired frame the peer has already recorded can always be answered: its
\* receipt authority is still retained (rx.retain at flow.rs:447), so a lost
\* credit never strands a counter.
RepairAnswered ==
  \A p \in Peers : \A c \in Retries(win[p]) :
    Contains(win[Other(p)].received, c) => CanCredit(win[Other(p)], c)

\* A repaired frame the peer has not recorded can always be opened while the
\* sender still repairs it: the gap stays within MAX_SKIP and the window, and
\* the skipped key outlives the sender's patience (repair_expired, flow.rs:350).
RepairOpens ==
  \A p \in Peers : \A c \in Retries(win[p]) :
    ~RecoveryRequired(win[p], now) /\ ~Contains(win[Other(p)].received, c)
      => RatchetOpens(Other(p), c) /\ Acceptable(win[Other(p)].received, c)

\* One key and nonce never seal two different snapshots (flow.rs:470-476): two
\* credits under the same authority with the same count are the same credit.
NonceUnique ==
  \A a, b \in credits :
    a.to = b.to /\ a.ref = b.ref /\ Count(a.cov) = Count(b.cov) => a = b

\* Every state a session reaches can be archived and restored: encode_private
\* never writes what decode_private refuses (flow/storage.rs:68).
RestoreAccepted == \A p \in Peers : DecodeAccepts(EncodePrivate(win[p]))

\* No counter is abandoned in silence: each one sent is credited, or its exact
\* packet is retained for repair, or the session reports that it must be
\* replaced (recovery_required, flow.rs:359).
NoCounterAbandoned ==
  \A p \in Peers : \A c \in 1..win[p].sent :
    \/ IsCredited(win[p], c)
    \/ c \in Retries(win[p])
    \/ RecoveryRequired(win[p], now)

\* A step never takes credit back, and drops a sent entry only when its counter
\* is credited (accept_credit: "can never move the floor backwards").
CreditNeverRetreats ==
  [][\A p \in Peers :
       /\ Covered(win[p].credited) \subseteq Covered(win'[p].credited)
       /\ \A c \in DOMAIN win[p].tx \ DOMAIN win'[p].tx : IsCredited(win'[p], c)]_vars

\* Under fair repair every counter sent is eventually credited, or the session
\* reports that it must be replaced.
CountersSettle ==
  \A p \in Peers : \A c \in 1..MaxSent[p] :
    win[p].sent >= c ~> IsCredited(win[p], c) \/ RecoveryRequired(win[p], now)

Delivery ==
  INSTANCE CounterDelivery WITH
    Span   <- COUNTER_WINDOW,
    sent   <- [p \in Peers |-> win[p].sent],
    taken  <- [p \in Peers |-> Covered(win[Other(p)].received)],
    known  <- [p \in Peers |-> Covered(win[p].credited)]

\* The window implements exactly-once delivery of counters with flow control:
\* each step of the floors and masks is one step of CounterDelivery or none.
ImplementsDelivery == Delivery!Spec

=============================================================================
