---------------------------- MODULE RpcOperations ----------------------------
(***************************************************************************)
(* Durable operations of the typed RPC layer (crates/rpc/src): a client that *)
(* retains its handle before it sends (client.rs), the durable message       *)
(* transport that redelivers until it commits (gc.rs), the router and its    *)
(* workers (router.rs) and the journal kept in a file (file_store.rs).       *)
(*                                                                           *)
(* Either process may stop at any step.  A save of the journal may fail      *)
(* before or after the file was replaced.  Queries, which keep no state, are *)
(* not modelled; serialization limits appear as failures of a save.          *)
(***************************************************************************)
EXTENDS Integers, FiniteSets, Functions

CONSTANTS
  Ops,          \* operation keys (caller, instance, service, method, id)
  Digests,      \* digests of the arguments
  Outcomes,     \* typed outcomes of a handler
  Deadline,     \* Ops -> deadline carried by the handle
  WORKERS,      \* Semaphore of the router
  RECORDS,      \* StoreLimits::records
  RETENTION,    \* StoreLimits::retention_secs
  WINDOW,       \* the ten minutes of an admission
  Cases,        \* bounds of a behaviour: the requests sent for each operation, and the
                \* crashes and failed saves: [requests : Ops -> Nat, faults]
  MaxTime       \* bound: last tick of the clock

ASSUME RpcAssumption ==
  /\ {WORKERS, RECORDS, WINDOW} \subseteq Nat \ {0}
  /\ RETENTION \in Nat /\ RETENTION >= WINDOW       \* FileStore::open refuses less
  /\ Cases \subseteq [requests : [Ops -> Nat], faults : Nat] /\ Digests \subseteq Nat
  /\ Deadline \in [Ops -> Nat] /\ MaxTime \in Nat
  /\ Outcomes \cap {"none", "failed", "running", "unknown", "unavailable", "error"} = {}

VARIABLES
  disk, mem,    \* Journal: Ops -> [digest, retain_until, result], on file and in memory
  active,       \* Router::active
  tasks,        \* Ops -> worker state
  permits,      \* free permits of Router::workers
  stopped,      \* the router was shut down
  inbox,        \* requests delivered and not committed
  replied,      \* requests processed whose receipt is being committed
  replies,      \* reply messages sent
  handles,      \* handles the client retained, durably
  prepared,     \* operations whose arguments the client still holds in memory
  pending,      \* Ops -> number of the request awaited, 0 for none
  sent,         \* Ops -> requests sent so far
  quota,        \* Ops -> requests the behaviour's bound allows
  now,
  faults,       \* crashes and failed saves the behaviour's bound still allows
  executed,     \* history: Ops -> handler invocations
  outcome,      \* history: Ops -> outcome of the handler
  answers       \* history: terminal bodies a client was given, per operation

journal == <<disk, mem>>
router == <<active, tasks, permits, stopped>>
network == <<inbox, replied, replies>>
client == <<handles, prepared, pending, sent, quota>>
history == <<executed, outcome, answers>>
vars == <<journal, router, network, client, now, faults, history>>

NoResult == "none"
Failed == "failed"       \* PayloadTooLarge, recorded as terminal
Empty == [o \in {} |-> 0]
IdleTask == [pc |-> "none", result |-> NoResult]

Init ==
  /\ disk = Empty /\ mem = Empty
  /\ active = {} /\ tasks = [o \in Ops |-> IdleTask]
  /\ permits = WORKERS /\ stopped = FALSE
  /\ inbox = {} /\ replied = {} /\ replies = {}
  /\ handles = {} /\ prepared = Ops
  /\ pending = [o \in Ops |-> 0] /\ sent = [o \in Ops |-> 0]
  /\ \E case \in Cases : quota = case.requests /\ faults = case.faults
  /\ now = 1
  /\ executed = [o \in Ops |-> 0]
  /\ outcome = [o \in Ops |-> NoResult]
  /\ answers = [o \in Ops |-> {}]

-----------------------------------------------------------------------------
(* Journal *)

Live(j, o) == o \in DOMAIN j /\ j[o].retain_until > now

\* Mutant: the deadline is not checked on admission.
Bug_Timely(o) == TRUE

Timely(o) == Deadline[o] > now /\ Deadline[o] <= now + WINDOW

\* Mutant: a full journal drops its records to make room.
Bug_RetainedRoom(j) ==
  LET live == {o \in DOMAIN j : j[o].retain_until > now}
  IN  Restrict(j, IF Cardinality(live) < RECORDS THEN live ELSE {})

Retained(j) == Restrict(j, {o \in DOMAIN j : j[o].retain_until > now})

HasRoom(j) == Cardinality(DOMAIN Retained(j)) < RECORDS

Admitted(j, o, d) ==
  [k \in DOMAIN Retained(j) \cup {o} |->
     IF k = o THEN [digest |-> d, retain_until |-> now + RETENTION, result |-> NoResult] ELSE j[k]]

\* complete: a first terminal result, kept whatever its age.
CanComplete(j, o) == o \in DOMAIN j /\ j[o].result = NoResult
Completed(j, o, r) == [j EXCEPT ![o].result = r]

Fault == faults > 0 /\ faults' = faults - 1

\* State::save, on success: the file is replaced and then the memory.
Save(j) == disk' = j /\ mem' = j /\ UNCHANGED faults

\* State::save, on failure: the memory keeps the old journal; the rename may
\* already have happened (only the directory sync failed).
SaveFails(j) ==
  /\ Fault
  /\ mem' = mem
  /\ disk' = disk \/ disk' = j

-----------------------------------------------------------------------------
(* Router *)

\* state(): what the record says, seen with the active set.
State(o) ==
  IF ~Live(mem, o) THEN "unavailable"
  ELSE IF mem[o].result # NoResult THEN mem[o].result
  ELSE IF o \in active THEN "running" ELSE "unknown"

\* A record recovers a duplicate before a permit is asked for.
Known(o) == Live(mem, o)

\* A reply that no call awaits is dropped by process(), so it is not kept.
Answer(m, body) ==
  /\ replies' = IF pending[m.op] = m.id
                  THEN replies \cup {[op |-> m.op, id |-> m.id, body |-> body]} ELSE replies
  /\ replied' = replied \cup {m}
  /\ UNCHANGED inbox

\* A call that would start an operation is refused.
Refused(o) == permits = 0 \/ ~Timely(o) \/ ~HasRoom(mem)

Unprocessed(m) == m \in inbox /\ m \notin replied

\* Invocation::Status, and the refusals and duplicates of Invocation::Call.
Recover(m) ==
  /\ Unprocessed(m)
  /\ \/ /\ stopped
        /\ Answer(m, "error")
     \/ /\ stopped                     \* the endpoint gave its router up: no reply
        /\ replied' = replied \cup {m}
        /\ UNCHANGED <<inbox, replies>>
     \/ /\ ~stopped /\ m.kind = "status"
        /\ Answer(m, State(m.op))
     \/ /\ ~stopped /\ m.kind = "call" /\ Known(m.op)
        /\ Answer(m, IF mem[m.op].digest = m.digest THEN State(m.op) ELSE "error")
     \/ /\ ~stopped /\ m.kind = "call" /\ ~Known(m.op)
        /\ Refused(m.op)
        /\ Answer(m, "error")
  /\ UNCHANGED <<journal, router, client, now, faults, history>>

Admissible(m) ==
  /\ Unprocessed(m) /\ m.kind = "call" /\ ~stopped
  /\ ~Known(m.op) /\ permits > 0 /\ Timely(m.op) /\ HasRoom(mem)

\* Admission is durable, then the worker is spawned with the permit.
Admit(m) ==
  /\ Admissible(m)
  /\ Save(Admitted(mem, m.op, m.digest))
  /\ active' = active \cup {m.op}
  /\ permits' = permits - 1
  /\ tasks' = [tasks EXCEPT ![m.op] = [pc |-> "invoke", result |-> NoResult]]
  /\ executed' = [executed EXCEPT ![m.op] = @ + 1]
  /\ Answer(m, "running")
  /\ UNCHANGED <<stopped, client, now, outcome, answers>>

AdmitFails(m) ==
  /\ Admissible(m)
  /\ SaveFails(Admitted(mem, m.op, m.digest))
  /\ Answer(m, "error")
  /\ UNCHANGED <<router, client, now, history>>

\* The request is cancelled while the blocking admission runs to its end: the
\* admission stands, no worker exists, and the delivery is not committed.
AdmitCancelled(m) ==
  /\ Admissible(m)
  /\ Fault
  /\ disk' = Admitted(mem, m.op, m.digest) /\ mem' = disk'
  /\ UNCHANGED <<router, network, client, now, history>>

\* The handler returns a typed outcome, which may be too large for a frame.
Invoke(o) ==
  /\ tasks[o].pc = "invoke"
  /\ \E r \in Outcomes :
       /\ outcome' = [outcome EXCEPT ![o] = r]
       /\ \E body \in {r, Failed} : tasks' = [tasks EXCEPT ![o] = [pc |-> "complete", result |-> body]]
  /\ UNCHANGED <<journal, active, permits, stopped, network, client, now, faults, executed, answers>>

\* A panic or an infrastructure error proves nothing about the effects.
InvokeFails(o) ==
  /\ tasks[o].pc = "invoke"
  /\ tasks' = [tasks EXCEPT ![o] = [pc |-> "remove", result |-> NoResult]]
  /\ UNCHANGED <<journal, active, permits, stopped, network, client, now, faults, history>>

Complete(o) ==
  /\ tasks[o].pc = "complete"
  /\ \/ CanComplete(mem, o) /\ Save(Completed(mem, o, tasks[o].result))
     \/ CanComplete(mem, o) /\ SaveFails(Completed(mem, o, tasks[o].result))
     \/ ~CanComplete(mem, o) /\ UNCHANGED <<journal, faults>>
  /\ tasks' = [tasks EXCEPT ![o].pc = "remove"]
  /\ UNCHANGED <<active, permits, stopped, network, client, now, history>>

\* Mutant: the worker that failed keeps its permit.
Bug_Freed(o) == IF tasks[o].result = NoResult THEN 0 ELSE 1

Freed(o) == 1

\* Mutant: the worker that failed stays in the active set.
Bug_ActiveAfter(o) == IF tasks[o].result = NoResult THEN active ELSE active \ {o}

ActiveAfter(o) == active \ {o}

Remove(o) ==
  /\ tasks[o].pc = "remove"
  /\ active' = ActiveAfter(o)
  /\ permits' = permits + Freed(o)
  /\ tasks' = [tasks EXCEPT ![o] = IdleTask]
  /\ UNCHANGED <<journal, stopped, network, client, now, faults, history>>

\* shutdown: workers are aborted and joined, then the active set is cleared.
Shutdown ==
  /\ ~stopped
  /\ stopped' = TRUE
  /\ tasks' = [o \in Ops |-> IdleTask]
  /\ active' = {}
  /\ permits' = WORKERS
  /\ UNCHANGED <<journal, network, client, now, faults, history>>

\* The service process starts again (after a shutdown or a crash): FileStore::open.
Restart ==
  /\ Fault
  /\ mem' = disk
  /\ active' = {} /\ tasks' = [o \in Ops |-> IdleTask]
  /\ permits' = WORKERS /\ stopped' = FALSE
  /\ replied' = {}
  /\ UNCHANGED <<disk, inbox, replies, client, now, history>>

\* The receipt of the delivery is committed after the reply was admitted, or
\* the commit fails and the delivery is processed again.
Commit(m) ==
  /\ m \in replied
  /\ replied' = replied \ {m}
  /\ \/ inbox' = inbox \ {m} /\ UNCHANGED faults
     \/ inbox' = inbox /\ Fault
  /\ UNCHANGED <<journal, router, replies, client, now, history>>

-----------------------------------------------------------------------------
(* Client *)

Request(o, kind, d) ==
  /\ pending[o] = 0 /\ sent[o] < quota[o]
  /\ sent' = [sent EXCEPT ![o] = @ + 1]
  /\ pending' = [pending EXCEPT ![o] = sent[o] + 1]
  /\ UNCHANGED quota
  /\ inbox' = inbox \cup {[op |-> o, id |-> sent[o] + 1, kind |-> kind, digest |-> d]}

\* retain comes before the send.
HandlesAfterStart(o) == handles \cup {o}

\* start, also repeated for the same prepared call after an error or a timeout.
\* The arguments of a prepared call are fixed; other digests stand for requests
\* that reuse the identifier with other contents, numbered as they appear.
Start(o) ==
  /\ o \in prepared
  /\ \E d \in Digests \cap 1..(sent[o] + 1) : Request(o, "call", d)
  /\ handles' = HandlesAfterStart(o)
  /\ UNCHANGED <<journal, router, replied, replies, prepared, now, faults, history>>

\* status, wait and resume only read.
Status(o) ==
  /\ o \in handles
  /\ Request(o, "status", 1)
  /\ UNCHANGED <<journal, router, replied, replies, handles, prepared, now, faults, history>>

Unawaited(o) == {r \in replies : r.op # o}

\* A reply is accepted by the call that awaits its identifier.
Receive(r) ==
  /\ pending[r.op] = r.id
  /\ pending' = [pending EXCEPT ![r.op] = 0]
  /\ replies' = Unawaited(r.op)
  /\ answers' = [answers EXCEPT ![r.op] = @ \cup ({r.body} \cap (Outcomes \cup {Failed}))]
  /\ UNCHANGED <<journal, router, inbox, replied, handles, prepared, sent, quota, now, faults, executed, outcome>>

Timeout(o) ==
  /\ pending[o] # 0
  /\ pending' = [pending EXCEPT ![o] = 0]
  /\ replies' = Unawaited(o)
  /\ UNCHANGED <<journal, router, inbox, replied, handles, prepared, sent, quota, now, faults, history>>

\* Assumed of the caller: a handle is forgotten once its outcome is known.
Forget(o) ==
  /\ o \in handles /\ answers[o] # {} /\ pending[o] = 0
  /\ handles' = handles \ {o} /\ prepared' = prepared \ {o}
  /\ UNCHANGED <<journal, router, network, pending, sent, quota, now, faults, history>>

\* Handles are on file; the arguments of a prepared call are not.
ClientRestart ==
  /\ Fault
  /\ prepared' = {}
  /\ pending' = [o \in Ops |-> 0]
  /\ replies' = {}
  /\ UNCHANGED <<journal, router, inbox, replied, handles, sent, quota, now, history>>

Tick ==
  /\ now < MaxTime
  /\ now' = now + 1
  /\ UNCHANGED <<journal, router, network, client, faults, history>>

-----------------------------------------------------------------------------

Work(o) == Invoke(o) \/ InvokeFails(o) \/ Complete(o) \/ Remove(o)
Serve(m) == Recover(m) \/ Admit(m) \/ AdmitFails(m) \/ Commit(m)

Next ==
  \/ \E m \in inbox : Serve(m) \/ AdmitCancelled(m)
  \/ \E o \in Ops : Work(o) \/ Start(o) \/ Status(o) \/ Timeout(o) \/ Forget(o)
  \/ \E r \in replies : Receive(r)
  \/ Shutdown \/ Restart \/ ClientRestart \/ Tick

Spec == Init /\ [][Next]_vars

\* Handlers return and workers run to their end.
FairSpec == Spec /\ \A o \in Ops : WF_vars(Work(o))

-----------------------------------------------------------------------------
(* Properties *)

Busy == {o \in Ops : tasks[o].pc # "none"}

\* A handler is invoked at most once for an operation: not again for a repeated
\* delivery, a retried start, a restart of either process, a lost result, a
\* failed save, or after the record's retention ended.
AtMostOnce == \A o \in Ops : executed[o] <= 1

\* Every terminal answer to an operation is the same one, and it is the outcome
\* of the handler or the refusal to carry it.
AnswersAgree ==
  \A o \in Ops : Cardinality(answers[o]) <= 1 /\ answers[o] \subseteq {outcome[o], Failed}

\* Until the deadline of its handle, an operation that was started is in the
\* journal, in memory and on file: status never answers Unavailable.
StartedIsKnown ==
  \A o \in Ops : executed[o] > 0 /\ now < Deadline[o] => Live(mem, o) /\ Live(disk, o)

\* Worker permits are neither lost nor duplicated on any path of a worker.
PermitsConserved == permits + Cardinality(Busy) = WORKERS

\* An admitted operation does not stay Running.
OperationsSettle == \A o \in Ops : o \in active ~> o \notin active

=============================================================================
