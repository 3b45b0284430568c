---------------------------- MODULE MCRelayStore ----------------------------
(* Instances of RelayStore for TLC. *)
EXTENDS RelayStore

CONSTANTS qa, qb

Deposit(q, epoch, caps, nonce, expiry, len, class) ==
  [queue |-> q, epoch |-> epoch, caps |-> caps, nonce |-> nonce,
   expiry |-> expiry, len |-> len, class |-> class]
Subscription(q, epoch, caps, nonce, expiry, class) ==
  [queue |-> q, epoch |-> epoch, caps |-> caps, nonce |-> nonce, expiry |-> expiry, class |-> class]

\* Two deposits of one nonce and different classes, a cover that expires first,
\* and one to the other queue.
AdmissionPushes ==
  { Deposit(qa, 1, 1, 1, 3, 2, "Bulk"), Deposit(qa, 1, 1, 1, 3, 1, "Gc1"),
    Deposit(qa, 1, 1, 3, 2, 0, "Gc1"), Deposit(qb, 1, 1, 4, 3, 2, "Interactive") }

\* Two deposits for two overlapping GC/2 subscribers, and a polling subscriber.
TwoBulk ==
  { Deposit(qa, 1, 1, 1, 2, 1, "Bulk"), Deposit(qa, 1, 1, 2, 2, 1, "Bulk") }
ServedSubs ==
  { Subscription(qa, 1, 1, 1, 2, "Bulk"), Subscription(qa, 1, 1, 3, 2, "Bulk"),
    Subscription(qa, 1, 1, 2, 2, "Gc1") }
=============================================================================
