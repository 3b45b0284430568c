------------------------------ MODULE FairQueue ------------------------------
(***************************************************************************)
(* FairQueue of crates/node/src/scheduler.rs: the deficit round robin queue  *)
(* of a lane, as operators on its value.  A job is a name; its class,        *)
(* producer, traffic and size in quanta of 4096 bytes are constants.         *)
(***************************************************************************)
EXTENDS Integers, Sequences, Functions

CONSTANTS
  Job,              \* job -> [class, producer, traffic, cost, ...]
  CLASS_COUNT,      \* classes are 0 .. CLASS_COUNT - 1
  DEFICIT_LIMIT,    \* 32768 bytes, in quanta
  ROUNDS,           \* passes of pop_eligible: quanta of the largest cell
  CONTROL_HEADROOM, \* positions kept for control producers
  Control           \* ChannelControl and Administration

ASSUME FairQueueAssumption ==
  /\ {CLASS_COUNT, ROUNDS} \subseteq Nat \ {0} /\ CONTROL_HEADROOM \in Nat
  /\ DEFICIT_LIMIT \in Nat /\ DEFICIT_LIMIT >= ROUNDS
  /\ \A j \in DOMAIN Job : /\ Job[j].class \in 0 .. CLASS_COUNT - 1
                           /\ Job[j].cost \in 1 .. ROUNDS
  /\ "none" \notin DOMAIN Job

NoJob == "none"
Classes == 0 .. CLASS_COUNT - 1

NewQueue(cap) ==
  [classes |-> [k \in Classes |-> <<>>], len |-> 0, next |-> 0, capacity |-> cap]

HasPlace(q, j) ==
  q.len < IF Job[j].class \in Control THEN q.capacity + CONTROL_HEADROOM
                                      ELSE q.capacity

\* The producer queue of j, the same producer and the same traffic class.
Owns(pq, j) == pq.producer = Job[j].producer /\ pq.traffic = Job[j].traffic

Enqueued(pq, j) == [pq EXCEPT !.jobs = Append(@, j)]

\* The first producer queue of j, if there is one, or a new one at the end.
Joined(queues, j) ==
  LET owners == {i \in DOMAIN queues : Owns(queues[i], j)}
      first == CHOOSE i \in owners : \A k \in owners : i <= k
      new == [producer |-> Job[j].producer, traffic |-> Job[j].traffic,
              jobs |-> <<j>>, deficit |-> 0, credit_due |-> TRUE]
  IN  IF owners = {} THEN Append(queues, new)
                     ELSE [queues EXCEPT ![first] = Enqueued(queues[first], j)]

PushJob(q, j) ==
  [q EXCEPT !.len = @ + 1, !.classes[Job[j].class] = Joined(@, j)]

-----------------------------------------------------------------------------
(* pop_eligible *)

\* One quantum for a producer that is owed one.
Credited(pq) ==
  IF pq.credit_due
  THEN [pq EXCEPT !.deficit = IF @ < DEFICIT_LIMIT THEN @ + 1 ELSE @,
                  !.credit_due = FALSE]
  ELSE pq

\* Where a served producer goes: away when it has no job left, to the front while
\* its remaining credit pays for the next one, otherwise to the back.
Requeued(rest, pq) ==
  IF pq.jobs = <<>> THEN rest
  ELSE IF Job[Head(pq.jobs)].cost <= pq.deficit THEN <<pq>> \o rest
  ELSE Append(rest, [pq EXCEPT !.credit_due = TRUE])

\* One visit of the producer at the front of class k.
Visit(scan, k, bulkAllowed) ==
  LET front == Head(scan.classes[k])
      rest == Tail(scan.classes[k])
      pq == Credited(front)
      j == Head(front.jobs)
      owed == [pq EXCEPT !.credit_due = TRUE]
      served == [pq EXCEPT !.jobs = Tail(@), !.deficit = @ - Job[j].cost]
  IN  IF scan.job # NoJob THEN scan
      ELSE IF front.traffic = "Bulk" /\ ~bulkAllowed
      THEN [scan EXCEPT !.classes[k] = Append(rest, front)]
      ELSE IF Job[j].cost > pq.deficit
      THEN [scan EXCEPT !.classes[k] = Append(rest, owed)]
      ELSE [scan EXCEPT !.job = j, !.next = (k + 1) % CLASS_COUNT,
                        !.classes[k] = Requeued(rest, served)]

\* Every producer of class k is visited at most once in a pass.
VisitClass(scan, k, bulkAllowed) ==
  LET all == Len(scan.classes[k])
      visits[n \in 0 .. all] ==
        IF n = 0 THEN scan ELSE Visit(visits[n - 1], k, bulkAllowed)
  IN  visits[all]

\* The job served, NoJob when none is eligible, and the queue left behind.  Classes
\* that are empty when the scan starts are passed over.
PopEligible(q, bulkAllowed) ==
  LET start == [classes |-> q.classes, next |-> q.next, job |-> NoJob]
      at(n) == (q.next + n - 1) % CLASS_COUNT
      scans[n \in 0 .. ROUNDS * CLASS_COUNT] ==
        IF n = 0 THEN start
        ELSE IF q.classes[at(n)] = <<>> THEN scans[n - 1]
        ELSE VisitClass(scans[n - 1], at(n), bulkAllowed)
      scan == scans[ROUNDS * CLASS_COUNT]
  IN  [job |-> scan.job,
       queue |-> [q EXCEPT !.classes = scan.classes, !.next = scan.next,
                           !.len = IF scan.job = NoJob THEN @ ELSE @ - 1]]

\* The jobs that wait in a queue.
JobsIn(queues) == UNION {Range(queues[i].jobs) : i \in DOMAIN queues}
Waiting(q) == UNION {JobsIn(q.classes[k]) : k \in Classes}
=============================================================================
