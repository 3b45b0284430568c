---------------------------- MODULE RelayScheduler ----------------------------
(***************************************************************************)
(* The relay scheduler of a node, crates/node/src/scheduler.rs with its       *)
(* budget, retained account, authority memo and GC/2 encoding: producers      *)
(* enqueue jobs on lanes, one worker task per lane dispatches them, and each  *)
(* producer holds a receipt for the outcome.                                  *)
(*                                                                            *)
(* Each critical section is a step: a producer routes its job to a lane       *)
(* (lanes lock), is admitted (queue lock) and touches the lane; a worker looks *)
(* at its lane and then waits in a biased select; a sending task resolves     *)
(* authority, sends with retries, records the outcome and answers.  An        *)
(* Arc<Lane> that left the map keeps its worker until that has drained it, so *)
(* lanes are objects with a key.  A wire is the number of the envelope that   *)
(* was prepared for a job.  Time is what a clock may find: a lane is idle, a  *)
(* proof has expired, a backoff is over.                                      *)
(***************************************************************************)
EXTENDS FairQueue, AdmissionBudget, FiniteSetsExt

CONSTANTS
  MaxLanes,      \* lane_limit of each scheduler
  Capacity,      \* LANE_CAPACITY
  AdminCapacity, \* 128 positions of an administrative lane
  MAX_IN_FLIGHT, \* pipelined dispatch of GC/2 (4)
  BULK_LIMIT,    \* bulk jobs in flight on a lane (3)
  CONNECT_RETRY_ATTEMPTS,
  COVER_LIMIT,   \* cover allowance of a GC/1 scheduler
  Cases,         \* bounds of a behaviour: the jobs it offers, the lanes it ever creates
                 \* and the retained payloads of the outbox: [jobs, lanes, usages]
  Profiles       \* subset of BOOLEAN: GC/2 (natural) or not

ASSUME SchedulerAssumption ==
  /\ {MaxLanes, MAX_IN_FLIGHT, BULK_LIMIT, MAX_JOBS, MAX_BYTES} \subseteq Nat \ {0}
  /\ COVER_LIMIT \in Nat /\ COVER_BYTES \in Nat /\ Profiles \subseteq BOOLEAN
  /\ LET covers == Total([s \in Scopes |-> COVER_LIMIT])
     IN  MAX_JOBS >= covers /\ MAX_BYTES >= covers * COVER_BYTES
  /\ IsFiniteSet(DOMAIN Job) /\ IsFiniteSet(Scopes)
  /\ \A j \in DOMAIN Job : Job[j].scope \in Scopes /\ Job[j].bytes \in Nat
  /\ \A case \in Cases : /\ case.jobs \subseteq DOMAIN Job
                         /\ \A u \in case.usages : u.items \in Nat /\ u.bytes \in Nat

Jobs == DOMAIN Job
NoLane == 0

VARIABLES
  natural,   \* Inner::natural, fixed when the schedulers are built
  bound,     \* the case of this behaviour
  down,      \* scope -> shutdown was signalled
  lanes,     \* Inner::lanes: key -> lane object
  lane,      \* lane object -> Lane and the local state of its worker
  task,      \* job -> the producer's call and the sending task
  budget,    \* the shared State of the budget
  account,   \* RetainedAccount and its staged update
  memo       \* authority::Memo objects; the classes of one hop share one

setup == <<natural, bound>>
vars == <<setup, down, lanes, lane, task, budget, account, memo>>

\* LaneKey.  GC/2 has a lane for each traffic class.
Key(j) == [scope |-> Job[j].scope, binding |-> Job[j].binding, admin |-> Job[j].admin,
           class |-> IF natural THEN Job[j].traffic ELSE "any"]
Hop(k) == <<k.scope, k.binding, k.admin>>

InFlight == IF natural THEN MAX_IN_FLIGHT ELSE 1
CoverLimits == [s \in Scopes |-> IF natural THEN 0 ELSE COVER_LIMIT]

\* Mutant: the class is not part of the identity of an attempt's scope.
Bug_Attempt(j) == {}
\* Identity of the ciphertext in flight; only a pipelined scheduler keeps it.
Attempt(j) == IF natural THEN {<<Job[j].scope, Job[j].traffic, Job[j].text>>} ELSE {}

NewTask == [caller |-> "new", lane |-> NoLane, phase |-> "none",
            wire |-> 0, sent |-> {}, tries |-> 0, outcome |-> "none", receipt |-> "none"]
Gone(t, r) == [NewTask EXCEPT !.caller = t.caller, !.phase = "gone", !.receipt = r,
                              !.lane = IF t.caller = "admitted" THEN t.lane ELSE NoLane]
FreshMemo == [failing |-> FALSE, backing |-> FALSE, proof |-> FALSE, lock |-> NoJob]

Init ==
  /\ natural \in Profiles
  /\ bound \in Cases
  /\ down = [s \in Scopes |-> FALSE]
  /\ lanes = [k \in {} |-> NoLane]
  /\ lane = <<>>
  /\ task = [j \in Jobs |->
       [NewTask EXCEPT !.caller = IF j \in bound.jobs THEN "new" ELSE "done"]]
  /\ budget = NewBudget
  /\ account = [usage |-> NoUsage, next |-> NoUsage, growth |-> NoUsage, staged |-> FALSE]
  /\ memo = <<>>

-----------------------------------------------------------------------------
(* Lanes *)

NewLane(k, auth, m) ==
  [key |-> k, memo |-> m, queue |-> NewQueue(IF k.admin THEN AdminCapacity ELSE Capacity),
   auth |-> auth, pinned |-> FALSE, closing |-> FALSE,
   permit |-> FALSE, worker |-> "warming", running |-> {}, cover |-> "none"]

\* Only a push or a forwarded push of the node's own carries cover authority.
LaneAuth(j) == Job[j].kind \in {"Push", "Frwd"}

InScope(s) == {k \in DOMAIN lanes : k.scope = s}

\* lane_for: the lane of a key, made with its worker when there is none.
LaneFor(k, auth, pin, id) ==
  /\ ~down[k.scope]
  /\ \/ /\ k \in DOMAIN lanes /\ id = lanes[k]
        /\ lane' = [lane EXCEPT ![id].auth = @ \/ auth, ![id].pinned = @ \/ pin]
        /\ UNCHANGED <<lanes, memo>>
     \/ /\ k \notin DOMAIN lanes /\ Cardinality(InScope(k.scope)) < MaxLanes
        /\ id = Len(lane) + 1 /\ id <= bound.lanes
        /\ lanes' = [o \in DOMAIN lanes \cup {k} |-> IF o = k THEN id ELSE lanes[o]]
        /\ LET twins == {lanes[o] : o \in {o \in DOMAIN lanes : Hop(o) = Hop(k)}}
               m == IF twins = {} THEN Len(memo) + 1 ELSE lane[Min(twins)].memo
           IN  /\ lane' = Append(lane, [NewLane(k, auth, m) EXCEPT !.pinned = pin])
               /\ memo' = IF twins = {} THEN Append(memo, FreshMemo) ELSE memo

Closed(l) == [l EXCEPT !.closing = TRUE, !.permit = TRUE, !.pinned = FALSE]

CloseKeys(ks) ==
  LET ids == {lanes[k] : k \in ks}
  IN  /\ lanes' = [k \in DOMAIN lanes \ ks |-> lanes[k]]
      /\ lane' = [i \in DOMAIN lane |-> IF i \in ids THEN Closed(lane[i]) ELSE lane[i]]

\* open_lane, one class at a time: lanes exist before any job.
OpenLane(j) ==
  /\ LaneAuth(j)
  /\ \E id \in 1 .. bound.lanes, pin \in BOOLEAN : LaneFor(Key(j), TRUE, pin, id)
  /\ UNCHANGED <<setup, down, task, budget, account>>

\* close_lane, one class at a time.
CloseLane(j) ==
  /\ LaneAuth(j) /\ Key(j) \in DOMAIN lanes
  /\ CloseKeys({Key(j)})
  /\ UNCHANGED <<setup, down, task, budget, account, memo>>

\* sweep_idle_lanes: LANE_IDLE_TTL may have passed on any lane that is not pinned.
Sweep(s) ==
  /\ \E ks \in SUBSET {k \in InScope(s) : ~lane[lanes[k]].pinned} :
       ks # {} /\ CloseKeys(ks)
  /\ UNCHANGED <<setup, down, task, budget, account, memo>>

Shutdown(s) ==
  /\ ~down[s]
  /\ down' = [down EXCEPT ![s] = TRUE]
  /\ UNCHANGED <<setup, lanes, lane, task, budget, account, memo>>

-----------------------------------------------------------------------------
(* Producers: enqueue_with_class *)

Refuse(j, why) ==
  /\ task' = [task EXCEPT ![j].caller = "done", ![j].lane = NoLane, ![j].receipt = why]
  /\ UNCHANGED <<lane, budget>>

\* Authenticated GC/2 work is refused by a GC/1 scheduler.
Foreign(j) == ~natural /\ Job[j].kind = "ForwardNatural"

\* lane_for, before the lock of the queue is taken.
Route(j) ==
  /\ task[j].caller = "new" /\ ~Foreign(j)
  /\ \E id \in 1 .. bound.lanes :
       /\ LaneFor(Key(j), LaneAuth(j), FALSE, id)
       /\ task' = [task EXCEPT ![j].caller = "routed", ![j].lane = id]
  /\ UNCHANGED <<setup, down, budget, account>>

NoRoute(j) ==
  /\ task[j].caller = "new"
  /\ \/ down[Job[j].scope] /\ Refuse(j, "Shutdown")
     \/ Foreign(j) /\ Refuse(j, "Shutdown")
     \/ /\ ~down[Job[j].scope] /\ Key(j) \notin DOMAIN lanes
        /\ Cardinality(InScope(Job[j].scope)) >= MaxLanes
        /\ Refuse(j, "Full")
  /\ UNCHANGED <<setup, down, lanes, account, memo>>

\* Mutant: the final check is left out, so a job joins a queue already drained.
Bug_Stopped(i) == FALSE
\* The final check, under the lock of the queue.
Stopped(i) == down[lane[i].key.scope] \/ lane[i].closing

Admit(j) ==
  LET i == task[j].lane
  IN  /\ task[j].caller = "routed"
      /\ ~Stopped(i)
      /\ budget.attempts \cap Attempt(j) = {}
      /\ CanReserve(budget, Job[j].scope, Job[j].bytes, FALSE, CoverLimits)
      /\ HasPlace(lane[i].queue, j)
      /\ budget' = Reserved(budget, Job[j].scope, Job[j].bytes, FALSE, Attempt(j))
      /\ lane' = [lane EXCEPT ![i].queue = PushJob(lane[i].queue, j)]
      /\ task' = [task EXCEPT ![j].caller = "admitted", ![j].phase = "queued",
                              ![j].receipt = "Queued"]
      /\ UNCHANGED <<setup, down, lanes, account, memo>>

\* The same call when it is refused.  forward_gc2_wait tries again while full.
NotAdmitted(j) ==
  LET i == task[j].lane
      pending == budget.attempts \cap Attempt(j) # {}
      full == \/ ~CanReserve(budget, Job[j].scope, Job[j].bytes, FALSE, CoverLimits)
              \/ ~HasPlace(lane[i].queue, j)
  IN  /\ task[j].caller = "routed"
      /\ \/ Stopped(i) /\ Refuse(j, "Shutdown")
         \/ ~Stopped(i) /\ pending /\ Refuse(j, "Pending")
         \/ ~Stopped(i) /\ ~pending /\ full /\ Refuse(j, "Full")
         \/ /\ ~Stopped(i) /\ ~pending /\ full /\ Job[j].kind = "ForwardNatural"
            /\ task' = [task EXCEPT ![j].caller = "new", ![j].lane = NoLane]
            /\ UNCHANGED <<lane, budget>>
      /\ UNCHANGED <<setup, down, lanes, account, memo>>

Touched(l) == [l EXCEPT !.permit = l.worker \notin {"aborting", "exited"}]

\* After the lock is released the worker is notified.
Touch(j) ==
  /\ task[j].caller = "admitted"
  /\ task' = [task EXCEPT ![j].caller = "done",
                          ![j].lane = IF task[j].phase = "gone" THEN NoLane ELSE @]
  /\ lane' = [lane EXCEPT ![task[j].lane] = Touched(@)]
  /\ UNCHANGED <<setup, down, lanes, budget, account, memo>>

-----------------------------------------------------------------------------
(* Lane workers: spawn_lane *)

BulkRunning(i) == {j \in lane[i].running : Job[j].traffic = "Bulk"}
InJoinSet(l) == Cardinality(l.running) + IF l.cover = "none" THEN 0 ELSE 1
Finished(i) == {j \in lane[i].running : task[j].phase = "gone"}

\* The top of the loop: stop, or evaluate the guard of the dispatch branch.
Round(l) ==
  LET bulk == {j \in l.running : Job[j].traffic = "Bulk"}
      ready == /\ natural /\ InJoinSet(l) < InFlight /\ l.queue.len # 0
               /\ l.key.class = "Bulk" => Cardinality(bulk) < BULK_LIMIT
  IN  [l EXCEPT !.worker = IF down[l.key.scope] \/ l.closing THEN "draining"
                           ELSE IF ready THEN "ready" ELSE "waiting"]

\* The connection is warmed, warming times out, or the lane is stopped meanwhile;
\* a notification received while warming is consumed.
Warm(i) ==
  /\ lane[i].worker = "warming"
  /\ \/ lane' = [lane EXCEPT ![i] = Round(lane[i])]
     \/ lane[i].permit /\ lane' = [lane EXCEPT ![i].permit = FALSE]
  /\ UNCHANGED <<setup, down, lanes, task, budget, account, memo>>

Waits(i) == lane[i].worker \in {"waiting", "ready"}

\* shutdown.changed(), join_next() and notified(), in the order of the biased select.
Wake(i) ==
  LET l == lane[i]
      stopped == down[l.key.scope]
  IN  /\ Waits(i)
      /\ \/ stopped /\ lane' = [lane EXCEPT ![i] = Round(l)]
         \/ /\ ~stopped
            /\ \E j \in Finished(i) :
                 lane' = [lane EXCEPT ![i] = Round([l EXCEPT !.running = @ \ {j}])]
         \/ /\ ~stopped /\ l.cover = "finished"
            /\ lane' = [lane EXCEPT ![i] = Round([l EXCEPT !.cover = "none"])]
         \/ /\ ~stopped /\ Finished(i) = {} /\ l.cover # "finished" /\ l.permit
            /\ lane' = [lane EXCEPT ![i] = Round([l EXCEPT !.permit = FALSE])]
      /\ UNCHANGED <<setup, down, lanes, task, budget, account, memo>>

Undisturbed(i) ==
  /\ Waits(i) /\ ~down[lane[i].key.scope] /\ ~lane[i].permit
  /\ Finished(i) = {} /\ lane[i].cover # "finished"

\* GC/1 forwarded data cannot enter GC/2: the request is never prepared.
Misfit(j) == natural /\ Job[j].kind = "Forward"

\* An opportunity: the next eligible job, otherwise a cover request.
Serve(i) ==
  LET s == lane[i].key.scope
  IN  \E popped \in {PopEligible(lane[i].queue, Cardinality(BulkRunning(i)) < BULK_LIMIT)} :
        LET j == popped.job
        IN  \/ /\ j # NoJob
               /\ lane' = [lane EXCEPT ![i] = Round([lane[i] EXCEPT
                              !.queue = popped.queue, !.running = @ \cup {j}])]
               /\ task' = [task EXCEPT
                             ![j].phase = IF Misfit(j) THEN "answer" ELSE "resolve",
                             ![j].outcome = IF Misfit(j) THEN "Failed" ELSE @]
               /\ UNCHANGED budget
            \/ /\ j = NoJob /\ ~natural /\ ~lane[i].key.admin
               /\ lane[i].cover = "none" /\ lane[i].auth
               /\ CanReserve(budget, s, COVER_BYTES, TRUE, CoverLimits)
               /\ budget' = Reserved(budget, s, COVER_BYTES, TRUE, {})
               /\ lane' = [lane EXCEPT ![i] = Round([lane[i] EXCEPT
                              !.queue = popped.queue, !.cover = "running"])]
               /\ UNCHANGED task

\* The dispatch branch of GC/2 and the slot clock of GC/1.
Dispatch(i) ==
  /\ Undisturbed(i)
  /\ IF natural THEN lane[i].worker = "ready" ELSE InJoinSet(lane[i]) < InFlight
  /\ Serve(i)
  /\ UNCHANGED <<setup, down, lanes, account, memo>>

CoverEnds(i) ==
  /\ lane[i].cover = "running"
  /\ budget' = Released(budget, lane[i].key.scope, COVER_BYTES, TRUE, {})
  /\ lane' = [lane EXCEPT ![i].cover = IF lane[i].worker = "aborting" THEN "none" ELSE "finished"]
  /\ UNCHANGED <<setup, down, lanes, task, account, memo>>

\* The reservation of job j is dropped, and those of the jobs js.
Completed(b, j) == Released(b, Job[j].scope, Job[j].bytes, FALSE, Attempt(j))
Bytes(js) == SumFunctionOnSet([j \in js |-> Job[j].bytes], js)
Attempts(js) == UNION {Attempt(j) : j \in js}
Release(b, js) ==
  [b EXCEPT !.jobs = @ - Cardinality(js), !.bytes = @ - Bytes(js), !.attempts = @ \ Attempts(js)]

\* FairQueue::shutdown: every queued receipt is answered.
Drain(i) ==
  LET js == Waiting(lane[i].queue)
  IN  /\ lane[i].worker = "draining"
      /\ lane' = [lane EXCEPT ![i].worker = "aborting", ![i].permit = FALSE,
                              ![i].queue = NewQueue(lane[i].queue.capacity)]
      /\ task' = [j \in Jobs |-> IF j \in js THEN Gone(task[j], "Shutdown") ELSE task[j]]
      /\ budget' = Release(budget, js)
      /\ UNCHANGED <<setup, down, lanes, account, memo>>

\* abort_all: a dropped task drops its sender, its reservation and any lock it
\* holds; the receipt of a dropped sender reads Shutdown.
Abort(i) ==
  /\ lane[i].worker = "aborting"
  /\ \/ \E j \in lane[i].running :
           /\ lane' = [lane EXCEPT ![i].running = @ \ {j}]
           /\ IF task[j].phase = "gone" THEN UNCHANGED <<task, budget, memo>>
              ELSE /\ task' = [task EXCEPT ![j] = Gone(@,
                                  IF @.receipt = "Queued" THEN "Shutdown" ELSE @.receipt)]
                   /\ budget' = Completed(budget, j)
                   /\ memo' = [m \in DOMAIN memo |-> IF memo[m].lock = j
                                 THEN [memo[m] EXCEPT !.lock = NoJob] ELSE memo[m]]
     \/ /\ lane[i].running = {} /\ lane[i].cover \in {"none", "finished"}
        /\ lane' = [lane EXCEPT ![i].worker = "exited", ![i].cover = "none",
                                ![i].auth = FALSE]
        /\ UNCHANGED <<task, budget, memo>>
  /\ UNCHANGED <<setup, down, lanes, account>>

-----------------------------------------------------------------------------
(* Sending tasks: send_request, authority::Memo, gc2::send *)

MemoOf(j) == lane[task[j].lane].memo
HasContact(j) == Job[j].kind \in {"Push", "Frwd"}
Unlocked(m) == memo[m].lock = NoJob
\* The clock may find a backoff over or a proof expired whenever it is read.
Read(m, aged) == [memo[m] EXCEPT !.backing = @ /\ "backoff" \notin aged,
                                 !.proof = @ /\ "proof" \notin aged]

Proceed(j) == task' = [task EXCEPT ![j].phase = "send"] /\ UNCHANGED memo
FailNow(j) == /\ task' = [task EXCEPT ![j].phase = "answer", ![j].outcome = "Failed"]
              /\ UNCHANGED memo

\* Memo::resolve up to its first await: an expired contact needs a proof, and
\* concurrent stale sends wait for one probe.
Resolve(j) ==
  LET m == MemoOf(j)
  IN  /\ task[j].phase = "resolve"
      /\ \E aged \in SUBSET {"backoff", "proof"} :
           LET e == Read(m, aged)
               failFast == natural /\ HasContact(j) /\ Unlocked(m) /\ e.failing /\ e.backing
           IN  \/ failFast /\ FailNow(j)
               \/ ~failFast /\ (HasContact(j) => ~Job[j].expired) /\ Proceed(j)
               \/ /\ ~failFast /\ HasContact(j) /\ Job[j].expired /\ Unlocked(m)
                  /\ \/ e.backing /\ (e.failing \/ ~e.proof) /\ FailNow(j)
                     \/ e.proof /\ ~(e.failing /\ e.backing) /\ Proceed(j)
                     \/ /\ ~e.backing /\ ~e.proof
                        /\ memo' = [memo EXCEPT ![m].lock = j]
                        /\ task' = [task EXCEPT ![j].phase = "probe"]
      /\ UNCHANGED <<setup, down, lanes, lane, budget, account>>

\* The probe is accepted, refused or times out; the result is cached either way.
Probe(j) ==
  LET m == MemoOf(j)
  IN  /\ task[j].phase = "probe"
      /\ \E ok \in BOOLEAN :
           /\ memo' = [memo EXCEPT ![m] = [failing |-> ~ok, backing |-> TRUE,
                                           proof |-> ok, lock |-> NoJob]]
           /\ task' = [task EXCEPT ![j].phase = IF ok THEN "send" ELSE "answer",
                                   ![j].outcome = IF ok THEN @ ELSE "Failed"]
      /\ UNCHANGED <<setup, down, lanes, lane, budget, account>>

\* Mutant: every attempt prepares its own envelope.
Bug_Prepared(j) == task[j].tries + 1
\* The envelope is prepared once, when the transport admits the request.
Prepared(j) == IF task[j].wire = 0 THEN 1 ELSE task[j].wire

\* The request reaches the relay; its answer may still be lost.
Deliver(j) ==
  /\ task[j].phase = "send"
  /\ task' = [task EXCEPT ![j].wire = Prepared(j), ![j].sent = @ \cup {Prepared(j)}]
  /\ UNCHANGED <<setup, down, lanes, lane, budget, account, memo>>

\* A connect error proves that this attempt was not sent.
Reconnect(j) ==
  /\ task[j].phase = "send" /\ task[j].tries < CONNECT_RETRY_ATTEMPTS
  /\ task' = [task EXCEPT ![j].tries = @ + 1]
  /\ UNCHANGED <<setup, down, lanes, lane, budget, account, memo>>

\* The answer, an ambiguous failure, or a preparation that failed.
SendEnds(j) ==
  /\ task[j].phase = "send"
  /\ \E o \in {"HopAccepted", "Overloaded", "Failed"} :
       /\ o \in {"HopAccepted", "Overloaded"} => task[j].sent # {}
       /\ task' = [task EXCEPT ![j].phase = IF natural THEN "observe" ELSE "answer",
                               ![j].outcome = o, ![j].tries = 0, ![j].wire = 0,
                               ![j].sent = {}]
  /\ UNCHANGED <<setup, down, lanes, lane, budget, account, memo>>

\* Memo::observe under the lock of the memo, then done.send: the producer learns
\* the outcome before the reservation is dropped.
Answer(j) ==
  LET m == MemoOf(j)
      o == task[j].outcome
      observed == task[j].phase = "observe" /\ HasContact(j)
  IN  /\ task[j].phase \in {"observe", "answer"}
      /\ observed => Unlocked(m)
      /\ memo' = IF ~observed \/ o = "Failed" THEN memo
                 ELSE [memo EXCEPT ![m].failing = o = "Overloaded",
                                   ![m].backing = o = "Overloaded"]
      /\ task' = [task EXCEPT ![j].phase = "answered", ![j].receipt =
                    IF o = "HopAccepted" THEN o ELSE "Failed"]
      /\ UNCHANGED <<setup, down, lanes, lane, budget, account>>

TaskEnds(j) ==
  /\ task[j].phase = "answered"
  /\ task' = [task EXCEPT ![j] = Gone(@, @.receipt)]
  /\ budget' = Completed(budget, j)
  /\ UNCHANGED <<setup, down, lanes, lane, account, memo>>

-----------------------------------------------------------------------------
(* The durable outbox stages its growth before a checkpoint *)

Stage(u, priority) ==
  LET growth == Growth(u, account.usage)
  IN  /\ natural /\ ~account.staged /\ u # account.usage
      /\ CanStage(budget, growth, priority, CoverLimits)
      /\ budget' = Staged(budget, growth)
      /\ account' = [account EXCEPT !.next = u, !.growth = growth, !.staged = TRUE]
      /\ UNCHANGED <<setup, down, lanes, lane, task, memo>>

\* What commit, or the drop of an update that did not commit, gives back.
StageEnds(committed) ==
  IF committed THEN Growth(account.usage, account.next) ELSE account.growth

EndStage(committed) ==
  /\ account.staged
  /\ budget' = Unretained(budget, StageEnds(committed))
  /\ account' = [account EXCEPT !.usage = IF committed THEN account.next ELSE @,
                   !.next = NoUsage, !.growth = NoUsage, !.staged = FALSE]
  /\ UNCHANGED <<setup, down, lanes, lane, task, memo>>

-----------------------------------------------------------------------------
Producer(j) == Route(j) \/ NoRoute(j) \/ Admit(j) \/ NotAdmitted(j) \/ Touch(j)
Worker(i) == Warm(i) \/ Wake(i) \/ Dispatch(i) \/ CoverEnds(i)
             \/ Drain(i) \/ Abort(i)
Sending(j) == Resolve(j) \/ Probe(j) \/ SendEnds(j) \/ Answer(j) \/ TaskEnds(j)

Next ==
  \/ \E j \in bound.jobs : Producer(j) \/ OpenLane(j) \/ CloseLane(j)
                     \/ Sending(j) \/ Deliver(j) \/ Reconnect(j)
  \/ \E i \in DOMAIN lane : Worker(i)
  \/ \E s \in Scopes : Sweep(s) \/ Shutdown(s)
  \/ \E u \in bound.usages, p \in {"Application", "Control"} : Stage(u, p)
  \/ \E committed \in BOOLEAN : EndStage(committed)

Spec == Init /\ [][Next]_vars

MaxObjects == Max({case.lanes : case \in Cases})

\* The runtime polls every lane worker and every sending task, a call returns once
\* it was admitted, and probes, sends and the slot clock end by their timeouts.
FairSpec ==
  /\ Spec
  /\ \A i \in 1 .. MaxObjects : WF_vars(i \in DOMAIN lane /\ Worker(i))
  /\ WF_vars(\E j \in bound.jobs : Touch(j) \/ Sending(j))

-----------------------------------------------------------------------------
(* Properties *)

Live == {j \in Jobs : task[j].phase \notin {"none", "gone"}}
Covers(s) == {i \in DOMAIN lane : lane[i].key.scope = s /\ lane[i].cover = "running"}

\* The shared counters of the budget are what its holders own: every queued or
\* running job, every cover request in flight, the committed outbox and the growth
\* of an update that is being staged.  Drain, abort, completion and a checkpoint
\* that failed each give back exactly their own share.
BudgetConserved ==
  LET covers == [s \in Scopes |-> Cardinality(Covers(s))]
      kept == [items |-> account.usage.items + account.growth.items,
               bytes |-> account.usage.bytes + account.growth.bytes]
  IN  /\ budget.jobs = Cardinality(Live) + Total(covers) + kept.items
      /\ budget.bytes = Bytes(Live) + COVER_BYTES * Total(covers)
                        + kept.bytes
      /\ budget.covers = covers /\ budget.retained = kept
      /\ budget.attempts = Attempts(Live)
      /\ budget.jobs <= MAX_JOBS /\ budget.bytes <= MAX_BYTES

\* A pipelined scheduler never has two live attempts for one ciphertext of a
\* traffic class, whatever lane objects they were queued on: a repetition is
\* answered Pending until the first attempt has dropped its reservation.
OneLiveAttempt ==
  natural => \A j, k \in Live :
    <<Job[j].scope, Job[j].traffic, Job[j].text>> = <<Job[k].scope, Job[k].traffic, Job[k].text>>
      => j = k

\* Saturated data never consumes cover credit: a GC/1 scheduler below its cover
\* allowance can reserve a cover request at its next slot.
CoverCreditKept ==
  ~natural => \A s \in Scopes : budget.covers[s] < COVER_LIMIT =>
                CanReserve(budget, s, COVER_BYTES, TRUE, CoverLimits)

\* However often send_request reconnects, the relay sees one envelope of a job: an
\* ambiguous attempt is repeated with the bytes that may already have arrived.
OneEnvelope == \A j \in Jobs : Cardinality(task[j].sent) <= 1

\* Every admitted job is answered: no enqueue that raced a sweep, a close or a
\* shutdown leaves a receipt on a lane nobody serves, no wakeup is lost, and no
\* large cell waits behind small ones for ever.  (A behaviour offers finitely many.)
ReceiptsSettle ==
  <>[](\A j \in Jobs : task[j].receipt # "Queued")
=============================================================================
