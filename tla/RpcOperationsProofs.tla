-------------------------- MODULE RpcOperationsProofs --------------------------
(***************************************************************************)
(* At most one run of a handler, consistent answers and conserved worker   *)
(* permits, for every number of operations, workers and records, every     *)
(* retention no shorter than the admission window, and any number of       *)
(* requests, failed saves and restarts.                                    *)
(***************************************************************************)
EXTENDS RpcOperations, FiniteSetTheorems, TLAPS

Results == Outcomes \cup {Failed, NoResult}

Terminal == Outcomes \cup {Failed}

Records == [digest : Nat, retain_until : Nat, result : Results]

IsJournal(j) == DOMAIN j \subseteq Ops /\ j \in [DOMAIN j -> Records]

\* The shape of what the argument looks at.
Shape ==
  /\ IsJournal(mem) /\ IsJournal(disk)
  /\ now \in Nat
  /\ tasks \in [Ops -> [pc : {"none", "invoke", "complete", "remove"}, result : Results]]
  /\ inbox \subseteq [op : Ops, id : Nat, kind : {"call", "status"}, digest : Nat]
  /\ replied \subseteq inbox
  /\ \A r \in replies : r.op \in Ops
  /\ pending \in [Ops -> Nat] /\ sent \in [Ops -> Nat]
  /\ executed \in [Ops -> Nat]
  /\ outcome \in [Ops -> Outcomes \cup {NoResult}]
  /\ answers \in [Ops -> SUBSET Terminal]

\* A record that outlives every submission of its handle.
Covers(j, o) == o \in DOMAIN j /\ j[o].retain_until >= Deadline[o]

\* AtMostOnce is not inductive: what stops a second admission is the record of
\* the first, which is retained past the deadline in memory and on file, or the
\* deadline itself.
RunOnce ==
  \A o \in Ops :
    /\ executed[o] <= 1
    /\ executed[o] > 0 => now >= Deadline[o] \/ (Covers(mem, o) /\ Covers(disk, o))

-----------------------------------------------------------------------------
(* The journal's operators *)

\* What the admission of an operation makes of a journal: a record of its own
\* without a result, and the records that have not expired as they were.
Admits(a, j, o) ==
  /\ IsJournal(a)
  /\ o \in DOMAIN a
  /\ a[o].retain_until >= now + WINDOW
  /\ a[o].result = NoResult
  /\ \A k \in DOMAIN a \ {o} : k \in DOMAIN j /\ a[k] = j[k]
  /\ \A k \in DOMAIN j : j[k].retain_until > now => k \in DOMAIN a

\* What Journal::admit leaves: the new record, and every other one it had.
LEMMA AdmittedProps ==
  ASSUME NEW j, IsJournal(j), NEW o \in Ops, NEW d \in Nat, now \in Nat
  PROVE  Admits(Admitted(j, o, d), j, o)
<1> DEFINE a == Admitted(j, o, d)
           rec == [digest |-> d, retain_until |-> now + RETENTION, result |-> NoResult]
<1>1. DOMAIN Retained(j) = {k \in DOMAIN j : j[k].retain_until > now}
  BY Zenon DEF Retained, Restrict
<1>2. rec \in Records
  BY RpcAssumption DEF Records, Results
<1>3. DOMAIN a = DOMAIN Retained(j) \cup {o}
  BY Zenon DEF Admitted
<1>4. \A k \in DOMAIN a : a[k] = IF k = o THEN rec ELSE j[k]
  BY Zenon DEF Admitted
<1>5. \A k \in DOMAIN a : a[k] \in Records
  BY <1>1, <1>2, <1>3, <1>4, Zenon DEF IsJournal
<1>6. a = [k \in DOMAIN a |-> a[k]]
  BY Zenon DEF Admitted
<1>7. IsJournal(a)
  BY <1>1, <1>3, <1>5, <1>6, Zenon DEF IsJournal
<1>8. a[o].retain_until >= now + WINDOW /\ a[o].result = NoResult
  BY <1>3, <1>4, RpcAssumption
<1> HIDE DEF a
<1>9. Admits(a, j, o)
  BY <1>1, <1>3, <1>4, <1>7, <1>8, Zenon DEF Admits
<1> QED BY <1>9, Zenon DEF a

\* Journal::complete changes the result of one record and nothing else.
LEMMA CompletedProps ==
  ASSUME NEW j, IsJournal(j), NEW o \in DOMAIN j, NEW r \in Results
  PROVE  /\ IsJournal(Completed(j, o, r))
         /\ DOMAIN Completed(j, o, r) = DOMAIN j
         /\ Completed(j, o, r)[o].result = r
         /\ Completed(j, o, r)[o].retain_until = j[o].retain_until
         /\ \A k \in DOMAIN j \ {o} : Completed(j, o, r)[k] = j[k]
BY Zenon DEF Completed, IsJournal, Records

-----------------------------------------------------------------------------
(* Shape *)

\* A new router and its journal have their shape.
LEMMA InitShape == Init => Shape
<1> SUFFICES ASSUME Init PROVE Shape
  BY Zenon
<1>1. IsJournal(Empty)
  BY Zenon DEF IsJournal, Empty
<1>2. IdleTask \in [pc : {"none", "invoke", "complete", "remove"}, result : Results]
  BY Zenon DEF IdleTask, Results
<1> QED BY <1>1, <1>2, Zenon DEF Init, Shape

\* The answer to a request keeps the shape of the network.
LEMMA AnswerShape ==
  ASSUME Shape, NEW m \in inbox, NEW body, Answer(m, body)
  PROVE  /\ inbox' = inbox
         /\ replied' \subseteq inbox
         /\ \A r \in replies' : r.op \in Ops
         /\ \A r \in replies' : r \in replies \/ (r.op = m.op /\ r.body = body)
BY DEF Shape, Answer

\* Every step keeps the shape of journal, workers, messages and handles.
LEMMA ShapeStep == Shape /\ [Next]_vars => Shape'
<1> SUFFICES ASSUME Shape, [Next]_vars PROVE Shape'
  BY Zenon
<1> USE DEF journal, router, network, client, history
<1>0. CASE UNCHANGED vars
  BY <1>0, Zenon DEF vars, Shape
<1>1. ASSUME NEW m \in inbox, Recover(m) PROVE Shape'
  <2>1. /\ inbox' = inbox /\ replied' \subseteq inbox
        /\ \A r \in replies' : r.op \in Ops
    BY <1>1, AnswerShape, Zenon DEF Recover, Shape
  <2> QED BY <1>1, <2>1, Zenon DEF Recover, Shape
<1>2. ASSUME NEW m \in inbox, Admit(m) PROVE Shape'
  <2>1. m.op \in Ops /\ m.digest \in Nat /\ now \in Nat /\ IsJournal(mem)
    BY Zenon DEF Shape
  <2>a. IsJournal(Admitted(mem, m.op, m.digest))
    BY <2>1, AdmittedProps, Zenon DEF Admits
  <2>2. IsJournal(mem') /\ IsJournal(disk')
    BY <1>2, <2>a, Zenon DEF Admit, Save
  <2>3. /\ inbox' = inbox /\ replied' \subseteq inbox
        /\ \A r \in replies' : r.op \in Ops
    BY <1>2, AnswerShape, Zenon DEF Admit
  <2>4. /\ tasks' \in [Ops -> [pc : {"none", "invoke", "complete", "remove"}, result : Results]]
        /\ executed' \in [Ops -> Nat]
    BY <1>2, <2>1 DEF Admit, Shape, Results
  <2> QED BY <1>2, <2>2, <2>3, <2>4, Zenon DEF Admit, Shape
<1>3. ASSUME NEW m \in inbox, AdmitFails(m) PROVE Shape'
  <2>1. m.op \in Ops /\ m.digest \in Nat /\ now \in Nat /\ IsJournal(mem) /\ IsJournal(disk)
    BY Zenon DEF Shape
  <2>a. IsJournal(Admitted(mem, m.op, m.digest))
    BY <2>1, AdmittedProps, Zenon DEF Admits
  <2>2. IsJournal(mem') /\ IsJournal(disk')
    BY <1>3, <2>1, <2>a, Zenon DEF AdmitFails, SaveFails
  <2>3. /\ inbox' = inbox /\ replied' \subseteq inbox
        /\ \A r \in replies' : r.op \in Ops
    BY <1>3, AnswerShape, Zenon DEF AdmitFails
  <2> QED BY <1>3, <2>2, <2>3, Zenon DEF AdmitFails, Shape
<1>4. ASSUME NEW m \in inbox, AdmitCancelled(m) PROVE Shape'
  <2>1. m.op \in Ops /\ m.digest \in Nat /\ now \in Nat /\ IsJournal(mem)
    BY Zenon DEF Shape
  <2>a. IsJournal(Admitted(mem, m.op, m.digest))
    BY <2>1, AdmittedProps, Zenon DEF Admits
  <2>2. IsJournal(mem') /\ IsJournal(disk')
    BY <1>4, <2>a, Zenon DEF AdmitCancelled
  <2> QED BY <1>4, <2>2, Zenon DEF AdmitCancelled, Shape
<1>5. ASSUME NEW m \in inbox, Commit(m) PROVE Shape'
  BY <1>5, Zenon DEF Commit, Shape
<1>6. ASSUME NEW o \in Ops, Invoke(o) PROVE Shape'
  <2>1. PICK r \in Outcomes, body \in Outcomes \cup {Failed} :
          /\ outcome' = [outcome EXCEPT ![o] = r]
          /\ tasks' = [tasks EXCEPT ![o] = [pc |-> "complete", result |-> body]]
    BY <1>6, ZenonT(30) DEF Invoke
  <2>2. [pc |-> "complete", result |-> body]
          \in [pc : {"none", "invoke", "complete", "remove"}, result : Results]
    BY Zenon DEF Results
  <2> QED BY <1>6, <2>1, <2>2, Zenon DEF Invoke, Shape
<1>7. ASSUME NEW o \in Ops, InvokeFails(o) PROVE Shape'
  BY <1>7, Zenon DEF InvokeFails, Shape, Results
<1>8. ASSUME NEW o \in Ops, Complete(o) PROVE Shape'
  <2>1. tasks[o].result \in Results
    BY Zenon DEF Shape
  <2>2. IsJournal(mem') /\ IsJournal(disk')
    BY <1>8, <2>1, CompletedProps DEF Complete, CanComplete, Save, SaveFails, Shape
  <2>3. tasks' \in [Ops -> [pc : {"none", "invoke", "complete", "remove"}, result : Results]]
    BY <1>8, Zenon DEF Complete, Shape
  <2> QED BY <1>8, <2>2, <2>3, Zenon DEF Complete, Shape
<1>9. ASSUME NEW o \in Ops, Remove(o) PROVE Shape'
  BY <1>9, Zenon DEF Remove, Shape, IdleTask, Results
<1>10. CASE Shutdown
  BY <1>10, Zenon DEF Shutdown, Shape, IdleTask, Results
<1>11. CASE Restart
  BY <1>11, Zenon DEF Restart, Shape, IdleTask, Results
<1>12. ASSUME NEW o \in Ops, Start(o) \/ Status(o) PROVE Shape'
  <2>1. PICK kind \in {"call", "status"}, d \in Nat : Request(o, kind, d)
    BY <1>12, RpcAssumption, Zenon DEF Start, Status
  <2>2. /\ sent' \in [Ops -> Nat] /\ pending' \in [Ops -> Nat]
    BY <2>1 DEF Request, Shape
  <2>3. [op |-> o, id |-> sent[o] + 1, kind |-> kind, digest |-> d]
          \in [op : Ops, id : Nat, kind : {"call", "status"}, digest : Nat]
    BY DEF Shape
  <2>4. /\ inbox' \subseteq [op : Ops, id : Nat, kind : {"call", "status"}, digest : Nat]
        /\ inbox \subseteq inbox'
    BY <2>1, <2>3, Zenon DEF Request, Shape
  <2> QED BY <1>12, <2>2, <2>4, Zenon DEF Start, Status, Shape
<1>13. ASSUME NEW r \in replies, Receive(r) PROVE Shape'
  <2>1. r.op \in Ops
    BY Zenon DEF Shape
  <2>2. pending' \in [Ops -> Nat] /\ answers' \in [Ops -> SUBSET Terminal]
    BY <1>13, <2>1, Zenon DEF Receive, Shape, Terminal
  <2> QED BY <1>13, <2>2, Zenon DEF Receive, Unawaited, Shape
<1>14. ASSUME NEW o \in Ops, Timeout(o) PROVE Shape'
  BY <1>14, Zenon DEF Timeout, Unawaited, Shape
<1>15. ASSUME NEW o \in Ops, Forget(o) PROVE Shape'
  BY <1>15, Zenon DEF Forget, Shape
<1>16. CASE ClientRestart
  BY <1>16, Zenon DEF ClientRestart, Shape
<1>17. CASE Tick
  BY <1>17 DEF Tick, Shape
<1> QED
  BY <1>0, <1>1, <1>2, <1>3, <1>4, <1>5, <1>6, <1>7, <1>8, <1>9, <1>10, <1>11, <1>12, <1>13,
     <1>14, <1>15, <1>16, <1>17, Zenon DEF Next, Serve, Work

-----------------------------------------------------------------------------
(* At most one run *)

\* Nothing has run at the start.
LEMMA InitRunOnce == Init => RunOnce
BY DEF Init, RunOnce

\* A call is admitted only for an operation that never ran.
LEMMA FirstAdmission ==
  ASSUME Shape, RunOnce, NEW m \in inbox, Admissible(m)
  PROVE  m.op \in Ops /\ m.digest \in Nat /\ executed[m.op] = 0
<1>1. m.op \in Ops /\ m.digest \in Nat /\ executed[m.op] \in Nat /\ now \in Nat
  BY Zenon DEF Shape
<1>2. Deadline[m.op] \in Nat /\ Deadline[m.op] > now
  BY <1>1, RpcAssumption, Zenon DEF Admissible, Timely
<1>3. ~(m.op \in DOMAIN mem /\ mem[m.op].retain_until > now)
  BY Zenon DEF Admissible, Known, Live
<1>4. m.op \in DOMAIN mem => mem[m.op].retain_until \in Nat
  BY Zenon DEF Shape, IsJournal, Records
<1> QED BY <1>1, <1>2, <1>3, <1>4 DEF RunOnce, Covers

\* Admission keeps every record that covers a deadline to come, and its own does.
LEMMA AdmissionCovers ==
  ASSUME Shape, RunOnce, NEW m \in inbox, Admissible(m),
         NEW o \in Ops, o = m.op \/ executed[o] > 0, now < Deadline[o]
  PROVE  Covers(Admitted(mem, m.op, m.digest), o)
<1> DEFINE a == Admitted(mem, m.op, m.digest)
<1>1. m.op \in Ops /\ m.digest \in Nat /\ now \in Nat /\ Deadline[o] \in Nat /\ IsJournal(mem)
  BY FirstAdmission, RpcAssumption, Zenon DEF Shape
<1>2. Admits(a, mem, m.op)
  BY <1>1, AdmittedProps, Zenon
<1> HIDE DEF a
<1>3. CASE o = m.op
  <2>1. Deadline[o] <= now + WINDOW /\ WINDOW \in Nat
    BY <1>3, RpcAssumption, Zenon DEF Admissible, Timely
  <2>2. o \in DOMAIN a /\ a[o].retain_until >= now + WINDOW /\ a[o].retain_until \in Nat
    BY <1>2, <1>3, Zenon DEF Admits, IsJournal, Records
  <2>3. a[o].retain_until >= Deadline[o]
    BY <1>1, <2>1, <2>2
  <2> QED BY <2>2, <2>3, Zenon DEF Covers, a
<1>4. CASE o # m.op
  <2>1. o \in DOMAIN mem /\ mem[o].retain_until >= Deadline[o]
    BY <1>1, <1>4 DEF RunOnce, Covers
  <2>2. mem[o].retain_until \in Nat
    BY <2>1, Zenon DEF Shape, IsJournal, Records
  <2>3. o \in DOMAIN a /\ a[o] = mem[o]
    BY <1>1, <1>2, <1>4, <2>1, <2>2 DEF Admits
  <2> QED BY <2>1, <2>3, Zenon DEF Covers, a
<1> QED BY <1>3, <1>4, Zenon

\* No step runs a handler that has run: an admission that passes the checks finds no record and none was dropped.
LEMMA RunOnceStep == Shape /\ RunOnce /\ [Next]_vars => RunOnce'
<1> SUFFICES ASSUME Shape, RunOnce, [Next]_vars PROVE RunOnce'
  BY Zenon
<1> USE DEF journal, router, network, client, history
<1>1. /\ now \in Nat /\ \A o \in Ops : executed[o] \in Nat /\ Deadline[o] \in Nat
      /\ executed = [o \in Ops |-> executed[o]]
  BY RpcAssumption, Zenon DEF Shape
<1>2. CASE UNCHANGED <<mem, disk, now, executed>>
  BY <1>2, Zenon DEF RunOnce, Covers
<1>3. ASSUME NEW m \in inbox, Admit(m) PROVE RunOnce'
  <2>1. Admissible(m) /\ mem' = Admitted(mem, m.op, m.digest) /\ disk' = mem' /\ now' = now
    BY <1>3, Zenon DEF Admit, Save
  <2>2. executed[m.op] = 0 /\ executed' = [executed EXCEPT ![m.op] = @ + 1]
    BY <1>3, <2>1, FirstAdmission, Zenon DEF Admit
  <2>3. ASSUME NEW o \in Ops, executed'[o] > 0, now < Deadline[o]
        PROVE  Covers(mem', o)
    BY <1>1, <2>1, <2>2, <2>3, AdmissionCovers, Zenon
  <2>4. \A o \in Ops : executed'[o] <= 1 /\ executed'[o] \in Nat
    BY <1>1, <2>2 DEF RunOnce
  <2> QED BY <1>1, <2>1, <2>3, <2>4 DEF RunOnce, Covers
<1>4. ASSUME NEW m \in inbox, AdmitFails(m) \/ AdmitCancelled(m) PROVE RunOnce'
  <2>1. /\ Admissible(m) /\ now' = now /\ executed' = executed
        /\ mem' \in {mem, Admitted(mem, m.op, m.digest)}
        /\ disk' \in {disk, Admitted(mem, m.op, m.digest)}
    BY <1>4, Zenon DEF AdmitFails, AdmitCancelled, SaveFails
  <2>2. ASSUME NEW o \in Ops, executed[o] > 0, now < Deadline[o]
        PROVE  Covers(mem, o) /\ Covers(disk, o) /\ Covers(Admitted(mem, m.op, m.digest), o)
    BY <1>1, <2>1, <2>2, AdmissionCovers DEF RunOnce
  <2>3. ASSUME NEW o \in Ops, executed[o] > 0, now < Deadline[o]
        PROVE  Covers(mem', o) /\ Covers(disk', o)
    BY <2>1, <2>2, <2>3, Zenon
  <2> QED BY <1>1, <2>1, <2>3 DEF RunOnce, Covers
<1>5. ASSUME NEW o \in Ops, Complete(o) PROVE RunOnce'
  <2>1. tasks[o].result \in Results /\ IsJournal(mem)
    BY Zenon DEF Shape
  <2>2. CASE ~CanComplete(mem, o)
    BY <1>5, <2>2, <1>2, Zenon DEF Complete
  <2>3. CASE CanComplete(mem, o)
    <3> DEFINE c == Completed(mem, o, tasks[o].result)
    <3>a. /\ o \in DOMAIN mem /\ DOMAIN c = DOMAIN mem
          /\ \A k \in DOMAIN mem : c[k].retain_until = mem[k].retain_until
      BY <2>1, <2>3, CompletedProps DEF CanComplete
    <3>1. \A k \in Ops : Covers(mem, k) => Covers(c, k)
      BY <3>a, Zenon DEF Covers
    <3>2. /\ mem' \in {mem, c} /\ disk' \in {disk, c} /\ now' = now /\ executed' = executed
      BY <1>5, <2>3, Zenon DEF Complete, Save, SaveFails
    <3> HIDE DEF c
    <3>3. \A k \in Ops : Covers(mem, k) /\ Covers(disk, k) => Covers(mem', k) /\ Covers(disk', k)
      BY <3>1, <3>2, Zenon
    <3> QED BY <1>1, <3>2, <3>3, Zenon DEF RunOnce, Covers
  <2> QED BY <2>2, <2>3, Zenon
<1>6. CASE Restart
  BY <1>6, Zenon DEF Restart, RunOnce, Covers
<1>7. CASE Tick
  BY <1>1, <1>7 DEF Tick, RunOnce, Covers
<1>8. ASSUME NEW m \in inbox, Recover(m) \/ Commit(m) PROVE UNCHANGED <<mem, disk, now, executed>>
  BY <1>8, Zenon DEF Recover, Commit
<1>9. ASSUME NEW o \in Ops, \/ Invoke(o) \/ InvokeFails(o) \/ Remove(o)
                            \/ Start(o) \/ Status(o) \/ Timeout(o) \/ Forget(o)
      PROVE  UNCHANGED <<mem, disk, now, executed>>
  BY <1>9, SMTT(30) DEF Invoke, InvokeFails, Remove, Start, Status, Timeout, Forget
<1>10. ASSUME NEW r \in replies, Receive(r) PROVE UNCHANGED <<mem, disk, now, executed>>
  BY <1>10, Zenon DEF Receive
<1>11. Shutdown \/ ClientRestart \/ UNCHANGED vars => UNCHANGED <<mem, disk, now, executed>>
  BY Zenon DEF Shutdown, ClientRestart, vars
<1> QED
  BY <1>2, <1>3, <1>4, <1>5, <1>6, <1>7, <1>8, <1>9, <1>10, <1>11, Zenon DEF Next, Serve, Work

-----------------------------------------------------------------------------
(* Consistent answers *)

\* AnswersAgree is about what the client was given.  What makes it so is that no
\* two terminal results of an operation exist anywhere: with the client, under
\* way, in the journal, or in the worker.
KeptIn(j, o, v) == o \in DOMAIN j /\ j[o].result = v

UnderWay(o, v) == \E r \in replies : r.op = o /\ r.body = v

Said(o, v) ==
  \/ v \in answers[o] \/ UnderWay(o, v)
  \/ KeptIn(mem, o, v) \/ KeptIn(disk, o, v)
  \/ tasks[o].result = v

Agree ==
  \A o \in Ops :
    /\ executed[o] = 0 => tasks[o].pc = "none"
    /\ executed[o] = 0 \/ tasks[o].pc = "invoke" => \A v \in Terminal : ~Said(o, v)
    /\ \A v, w \in Terminal : Said(o, v) /\ Said(o, w) => v = w
    /\ \A v \in Terminal : Said(o, v) => v \in {outcome[o], Failed}

\* No answer was given at the start.
LEMMA InitAgree == Init => Agree
<1> SUFFICES ASSUME Init, NEW o \in Ops
             PROVE  /\ tasks[o].pc = "none"
                    /\ \A v \in Terminal : ~Said(o, v)
  BY Zenon DEF Agree
<1>1. tasks[o] = IdleTask /\ answers[o] = {} /\ replies = {} /\ DOMAIN mem = {} /\ DOMAIN disk = {}
  BY Zenon DEF Init, Empty
<1>2. NoResult \notin Terminal
  BY RpcAssumption, Zenon DEF Terminal, NoResult, Failed
<1> QED BY <1>1, <1>2, SMTT(30) DEF Said, UnderWay, KeptIn, IdleTask

\* A step that says nothing new.
Quiet ==
  /\ executed' = executed /\ outcome' = outcome
  /\ \A o \in Ops :
       /\ tasks'[o].pc # "none" => tasks[o].pc # "none"
       /\ tasks'[o].pc = "invoke" => tasks[o].pc = "invoke"
       /\ \A v \in Terminal : Said(o, v)' => Said(o, v)

\* A step that leaves journal, workers, replies and answers alone keeps them in agreement.
LEMMA QuietAgrees == Agree /\ Quiet => Agree'
BY Zenon DEF Agree, Quiet

\* What a reply carries was in the journal.
LEMMA AnswerSays ==
  ASSUME Shape, NEW m \in inbox, NEW body, Answer(m, body),
         body \in Terminal => KeptIn(mem, m.op, body)
  PROVE  \A o \in Ops, v \in Terminal : UnderWay(o, v)' => UnderWay(o, v) \/ KeptIn(mem, o, v)
BY DEF Answer, UnderWay

\* What status answers from a record is what the record says.
LEMMA StateSays ==
  ASSUME NEW o \in Ops, State(o) \in Terminal PROVE KeptIn(mem, o, State(o))
<1>1. {"unavailable", "running", "unknown"} \cap Terminal = {}
  BY RpcAssumption, Zenon DEF Terminal, Failed
<1> QED BY <1>1, Zenon DEF State, Live, KeptIn

\* Every step keeps the answers given, the replies under way and the journal in agreement.
LEMMA AgreeStep == Shape /\ RunOnce /\ Agree /\ [Next]_vars => Agree'
<1> SUFFICES ASSUME Shape, RunOnce, Agree, [Next]_vars PROVE Agree'
  BY Zenon
<1> USE DEF journal, router, network, client, history
<1>a. {"error", "running", NoResult} \cap Terminal = {}
  BY RpcAssumption, Zenon DEF Terminal, Failed, NoResult
<1>b. \A o \in Ops : executed[o] \in Nat /\ tasks[o].result \in Results
  BY Zenon DEF Shape
<1>1. ASSUME NEW m \in inbox, Recover(m) PROVE Quiet
  <2>1. /\ UNCHANGED <<mem, disk, tasks, answers, executed, outcome>>
        /\ m.op \in Ops
    BY <1>1, Zenon DEF Recover, Shape
  <2>2. UNCHANGED replies \/ Answer(m, "error") \/ Answer(m, State(m.op))
    BY <1>1, Zenon DEF Recover
  <2>3. \A o \in Ops, v \in Terminal : UnderWay(o, v)' => UnderWay(o, v) \/ KeptIn(mem, o, v)
    <3>1. CASE UNCHANGED replies
      BY <3>1, Zenon DEF UnderWay
    <3>2. CASE Answer(m, "error")
      BY <3>2, <1>a, AnswerSays, Zenon
    <3>3. CASE Answer(m, State(m.op))
      BY <3>3, <2>1, StateSays, AnswerSays, Zenon
    <3> QED BY <2>2, <3>1, <3>2, <3>3, Zenon
  <2> QED BY <2>1, <2>3, Zenon DEF Quiet, Said, KeptIn
<1>2. ASSUME NEW m \in inbox, Admit(m) PROVE Agree'
  <2> DEFINE a == Admitted(mem, m.op, m.digest)
  <2>1. /\ m.op \in Ops /\ m.digest \in Nat /\ executed[m.op] = 0
        /\ now \in Nat /\ IsJournal(mem)
    BY <1>2, FirstAdmission, Zenon DEF Admit, Shape
  <2>2. /\ mem' = a /\ disk' = a /\ UNCHANGED <<answers, outcome>>
        /\ tasks' = [tasks EXCEPT ![m.op] = [pc |-> "invoke", result |-> NoResult]]
        /\ executed' = [executed EXCEPT ![m.op] = @ + 1]
        /\ Answer(m, "running")
    BY <1>2, Zenon DEF Admit, Save
  <2>3. /\ a[m.op].result = NoResult
        /\ \A k \in DOMAIN a : k # m.op => k \in DOMAIN mem /\ a[k] = mem[k]
    <3>1. Admits(a, mem, m.op)
      BY <2>1, AdmittedProps, Zenon
    <3> HIDE DEF a
    <3> QED BY <3>1, Zenon DEF Admits
  <2> HIDE DEF a
  <2>4. \A o \in Ops, v \in Terminal : UnderWay(o, v)' => UnderWay(o, v) \/ KeptIn(mem, o, v)
    BY <2>2, <1>a, AnswerSays, Zenon
  <2>5. \A o \in Ops, v \in Terminal : KeptIn(mem', o, v) \/ KeptIn(disk', o, v) => KeptIn(mem, o, v)
    BY <2>2, <2>3, <1>a, Zenon DEF KeptIn
  <2>6. \A o \in Ops : /\ tasks'[o].result = tasks[o].result \/ tasks'[o].result = NoResult
                       /\ o # m.op => tasks'[o] = tasks[o] /\ executed'[o] = executed[o]
                       /\ o = m.op => executed'[o] = 1
    BY <2>1, <2>2, SMTT(20) DEF Shape
  <2>7. \A o \in Ops, v \in Terminal : Said(o, v)' => Said(o, v)
    BY <2>2, <2>4, <2>5, <2>6, <1>a, SMTT(30) DEF Said
  <2>8. \A v \in Terminal : ~Said(m.op, v)
    BY <2>1, Zenon DEF Agree
  <2> QED BY <2>1, <2>2, <2>6, <2>7, <2>8, SMTT(20) DEF Agree
<1>3. ASSUME NEW m \in inbox, AdmitFails(m) \/ AdmitCancelled(m) PROVE Quiet
  <2> DEFINE a == Admitted(mem, m.op, m.digest)
  <2>1. m.op \in Ops /\ m.digest \in Nat /\ now \in Nat /\ IsJournal(mem)
    BY <1>3, FirstAdmission, Zenon DEF AdmitFails, AdmitCancelled, Shape
  <2>2. /\ mem' \in {mem, a} /\ disk' \in {disk, a}
        /\ UNCHANGED <<tasks, answers, executed, outcome>>
        /\ UNCHANGED replies \/ Answer(m, "error")
    BY <1>3, Zenon DEF AdmitFails, AdmitCancelled, SaveFails
  <2>3. /\ a[m.op].result = NoResult
        /\ \A k \in DOMAIN a : k # m.op => k \in DOMAIN mem /\ a[k] = mem[k]
    <3>1. Admits(a, mem, m.op)
      BY <2>1, AdmittedProps, Zenon
    <3> HIDE DEF a
    <3> QED BY <3>1, Zenon DEF Admits
  <2> HIDE DEF a
  <2>4. \A o \in Ops, v \in Terminal : UnderWay(o, v)' => UnderWay(o, v) \/ KeptIn(mem, o, v)
    <3>1. CASE UNCHANGED replies
      BY <3>1, Zenon DEF UnderWay
    <3>2. CASE Answer(m, "error")
      BY <3>2, <1>a, AnswerSays, Zenon
    <3> QED BY <2>2, <3>1, <3>2, Zenon
  <2>5. \A o \in Ops, v \in Terminal : KeptIn(a, o, v) => KeptIn(mem, o, v)
    BY <2>3, <1>a, Zenon DEF KeptIn
  <2>6. \A o \in Ops, v \in Terminal : KeptIn(mem', o, v) \/ KeptIn(disk', o, v)
                                          => KeptIn(mem, o, v) \/ KeptIn(disk, o, v)
    BY <2>2, <2>5, Zenon
  <2> QED BY <2>2, <2>4, <2>6, ZenonT(30) DEF Quiet, Said
<1>4. ASSUME NEW p \in Ops, Invoke(p) PROVE Agree'
  <2>1. PICK r \in Outcomes, body \in Outcomes \cup {Failed} :
          /\ tasks[p].pc = "invoke" /\ body \in {r, Failed}
          /\ outcome' = [outcome EXCEPT ![p] = r]
          /\ tasks' = [tasks EXCEPT ![p] = [pc |-> "complete", result |-> body]]
          /\ UNCHANGED <<mem, disk, replies, answers, executed>>
    BY <1>4, ZenonT(30) DEF Invoke
  <2>2. executed[p] # 0 /\ \A v \in Terminal : ~Said(p, v)
    BY <2>1, Zenon DEF Agree
  <2>3. /\ tasks'[p] = [pc |-> "complete", result |-> body] /\ outcome'[p] = r
        /\ \A o \in Ops \ {p} : tasks'[o] = tasks[o] /\ outcome'[o] = outcome[o]
    BY <2>1, Zenon DEF Shape
  <2>4. \A v \in Terminal : Said(p, v)' => v = body
    BY <2>1, <2>2, <2>3 DEF Said, UnderWay, KeptIn
  <2>5. \A o \in Ops \ {p}, v \in Terminal : Said(o, v)' <=> Said(o, v)
    BY <2>1, <2>3, Zenon DEF Said, UnderWay, KeptIn
  <2>6. tasks'[p].pc = "complete" /\ executed' = executed
    BY <2>1, <2>3
  <2>7. ASSUME NEW o \in Ops
        PROVE  /\ executed'[o] = 0 => tasks'[o].pc = "none"
               /\ executed'[o] = 0 \/ tasks'[o].pc = "invoke" => \A v \in Terminal : ~Said(o, v)'
               /\ \A v, w \in Terminal : Said(o, v)' /\ Said(o, w)' => v = w
               /\ \A v \in Terminal : Said(o, v)' => v \in {outcome'[o], Failed}
    <3>1. CASE o = p
      BY <3>1, <2>1, <2>2, <2>3, <2>4, <2>6, Zenon
    <3>2. CASE o # p
      BY <3>2, <2>3, <2>5, <2>6, Zenon DEF Agree
    <3> QED BY <3>1, <3>2, Zenon
  <2> QED BY <2>7, Zenon DEF Agree
<1>5. ASSUME NEW p \in Ops, InvokeFails(p) \/ Remove(p) PROVE Quiet
  <2>1. /\ tasks[p].pc # "none" /\ UNCHANGED <<mem, disk, replies, answers, executed, outcome>>
        /\ \E pc \in {"remove", "none"} : tasks' = [tasks EXCEPT ![p] = [pc |-> pc, result |-> NoResult]]
    BY <1>5, Zenon DEF InvokeFails, Remove, IdleTask
  <2>2. \A o \in Ops : \/ tasks'[o] = tasks[o]
                       \/ /\ tasks'[o].result = NoResult /\ tasks[o].pc # "none"
                          /\ tasks'[o].pc \in {"remove", "none"}
    BY <2>1 DEF Shape
  <2> QED BY <2>1, <2>2, <1>a, Zenon DEF Quiet, Said, UnderWay, KeptIn
<1>6. ASSUME NEW p \in Ops, Complete(p) PROVE Quiet
  <2> DEFINE c == Completed(mem, p, tasks[p].result)
  <2>1. /\ tasks[p].pc = "complete" /\ UNCHANGED <<replies, answers, executed, outcome>>
        /\ tasks' = [tasks EXCEPT ![p].pc = "remove"]
        /\ \/ UNCHANGED <<mem, disk>>
           \/ CanComplete(mem, p) /\ mem' \in {mem, c} /\ disk' \in {disk, c}
    BY <1>6, Zenon DEF Complete, Save, SaveFails
  <2>2. \A o \in Ops : /\ tasks'[o].result = tasks[o].result
                       /\ tasks'[o].pc = tasks[o].pc \/ (tasks'[o].pc = "remove" /\ tasks[o].pc # "none")
    BY <2>1, Zenon DEF Shape
  <2>3. ASSUME NEW o \in Ops, NEW v \in Terminal, KeptIn(mem', o, v) \/ KeptIn(disk', o, v)
        PROVE  KeptIn(mem, o, v) \/ KeptIn(disk, o, v) \/ tasks[o].result = v
    <3>1. CASE UNCHANGED <<mem, disk>>
      BY <2>3, <3>1, Zenon
    <3>2. CASE CanComplete(mem, p) /\ mem' \in {mem, c} /\ disk' \in {disk, c}
      <4>1. /\ DOMAIN c = DOMAIN mem /\ c[p].result = tasks[p].result
            /\ \A k \in DOMAIN mem \ {p} : c[k] = mem[k]
        BY <3>2, <1>b, CompletedProps DEF CanComplete, Shape
      <4> HIDE DEF c
      <4>2. KeptIn(c, o, v) => KeptIn(mem, o, v) \/ tasks[o].result = v
        BY <4>1, Zenon DEF KeptIn
      <4> QED BY <2>3, <3>2, <4>2, Zenon
    <3> QED BY <2>1, <3>1, <3>2, Zenon
  <2>4. \A o \in Ops, v \in Terminal : Said(o, v)' => Said(o, v)
    BY <2>1, <2>2, <2>3, Zenon DEF Said, UnderWay
  <2> QED BY <2>1, <2>2, <2>4, Zenon DEF Quiet
<1>7. CASE Shutdown \/ Restart
  <2>1. /\ tasks' = [o \in Ops |-> IdleTask] /\ mem' \in {mem, disk}
        /\ UNCHANGED <<disk, replies, answers, executed, outcome>>
    BY <1>7, Zenon DEF Shutdown, Restart
  <2>2. \A o \in Ops : tasks'[o].pc = "none" /\ tasks'[o].result = NoResult
    BY <2>1, Zenon DEF IdleTask
  <2>3. Quiet
    BY <2>1, <2>2, <1>a, Zenon DEF Quiet, Said, UnderWay, KeptIn
  <2> QED BY <2>3, QuietAgrees, Zenon
<1>8. ASSUME NEW r \in replies, Receive(r) PROVE Quiet
  <2>1. /\ UNCHANGED <<mem, disk, tasks, executed, outcome>> /\ replies' \subseteq replies
        /\ r.op \in Ops
        /\ answers' = [answers EXCEPT ![r.op] = @ \cup ({r.body} \cap (Outcomes \cup {Failed}))]
    BY <1>8, Zenon DEF Receive, Unawaited, Shape
  <2>2. \A o \in Ops, v \in Terminal : v \in answers'[o] => v \in answers[o] \/ UnderWay(o, v)
    BY <2>1, SMTT(20) DEF Shape, UnderWay
  <2> QED BY <2>1, <2>2 DEF Quiet, Said, UnderWay, KeptIn
<1>9. CASE /\ UNCHANGED <<mem, disk, tasks, executed, outcome, answers>>
           /\ replies' \subseteq replies
  BY <1>9, QuietAgrees, SMTT(30) DEF Quiet, Said, UnderWay, KeptIn
<1>10. ASSUME NEW m \in inbox, Commit(m) PROVE Agree'
  BY <1>9, <1>10, Zenon DEF Commit
<1>11. ASSUME NEW o \in Ops, Start(o) \/ Status(o) \/ Timeout(o) \/ Forget(o) PROVE Agree'
  BY <1>9, <1>11, Zenon DEF Start, Status, Timeout, Forget, Unawaited
<1>12. ClientRestart \/ Tick \/ UNCHANGED vars => Agree'
  BY <1>9, Zenon DEF ClientRestart, Tick, vars
<1> QED
  BY <1>1, <1>2, <1>3, <1>4, <1>5, <1>6, <1>7, <1>8, <1>10, <1>11, <1>12, QuietAgrees, Zenon
  DEF Next, Serve, Work

-----------------------------------------------------------------------------
(* Worker permits *)

Permits == IsFiniteSet(Busy) /\ permits \in Nat /\ PermitsConserved

\* All permits are free at the start.
LEMMA InitPermits == Init => Permits
<1> SUFFICES ASSUME Init PROVE Permits
  BY Zenon
<1>1. Busy = {} /\ permits = WORKERS
  BY Zenon DEF Init, Busy, IdleTask
<1> QED BY <1>1, FS_EmptySet, RpcAssumption DEF Permits, PermitsConserved

\* A worker takes one permit when it is admitted and gives it back once.
LEMMA PermitsStep == Shape /\ RunOnce /\ Agree /\ Permits /\ [Next]_vars => Permits'
<1> SUFFICES ASSUME Shape, RunOnce, Agree, Permits, [Next]_vars PROVE Permits'
  BY Zenon
<1> USE DEF journal, router, network, client, history
<1>a. /\ IsFiniteSet(Busy) /\ permits \in Nat /\ WORKERS \in Nat
      /\ Cardinality(Busy) \in Nat /\ permits + Cardinality(Busy) = WORKERS
  BY RpcAssumption, FS_CardinalityType, Zenon DEF Permits, PermitsConserved
<1>1. CASE Busy' = Busy /\ permits' = permits
  BY <1>1, Zenon DEF Permits, PermitsConserved
<1>2. ASSUME NEW m \in inbox, Admit(m) PROVE Permits'
  <2>1. m.op \in Ops /\ tasks[m.op].pc = "none"
    BY <1>2, FirstAdmission, SMTT(30) DEF Admit, Agree
  <2>2. /\ tasks' = [tasks EXCEPT ![m.op] = [pc |-> "invoke", result |-> NoResult]]
        /\ permits > 0 /\ permits' = permits - 1
    BY <1>2, Zenon DEF Admit, Admissible
  <2>3. Busy' = Busy \cup {m.op} /\ m.op \notin Busy
    BY <2>1, <2>2 DEF Busy, Shape
  <2>4. IsFiniteSet(Busy') /\ Cardinality(Busy') = Cardinality(Busy) + 1
    BY <1>a, <2>3, FS_AddElement, Zenon
  <2> QED BY <1>a, <2>2, <2>4, SMTT(20) DEF Permits, PermitsConserved
<1>3. ASSUME NEW o \in Ops, Remove(o) PROVE Permits'
  <2>1. /\ tasks[o].pc = "remove" /\ tasks' = [tasks EXCEPT ![o] = IdleTask]
        /\ permits' = permits + 1
    BY <1>3, Zenon DEF Remove, Freed
  <2>a. tasks'[o].pc = "none" /\ \A k \in Ops \ {o} : tasks'[k] = tasks[k]
    BY <2>1, Zenon DEF Shape, IdleTask
  <2>2. Busy' = Busy \ {o} /\ o \in Busy
    BY <2>1, <2>a, Zenon DEF Busy
  <2>3. IsFiniteSet(Busy') /\ Cardinality(Busy') = Cardinality(Busy) - 1
    BY <1>a, <2>2, FS_RemoveElement, Zenon
  <2> QED BY <1>a, <2>1, <2>3 DEF Permits, PermitsConserved
<1>4. CASE Shutdown \/ Restart
  <2>1. Busy' = {} /\ permits' = WORKERS
    BY <1>4 DEF Shutdown, Restart, Busy, IdleTask
  <2> QED BY <1>a, <2>1, FS_EmptySet DEF Permits, PermitsConserved
<1>5. ASSUME NEW o \in Ops, Invoke(o) \/ InvokeFails(o) \/ Complete(o) PROVE Permits'
  <2>1. tasks[o].pc # "none" /\ permits' = permits
    BY <1>5, Zenon DEF Invoke, InvokeFails, Complete
  <2>2. tasks'[o].pc # "none" /\ \A k \in Ops \ {o} : tasks'[k] = tasks[k]
    BY <1>5 DEF Invoke, InvokeFails, Complete, Shape
  <2>3. Busy' = Busy
    BY <2>1, <2>2, Zenon DEF Busy
  <2> QED BY <1>1, <2>1, <2>3, Zenon
<1>6. CASE UNCHANGED <<tasks, permits>>
  BY <1>1, <1>6, Zenon DEF Busy
<1>7. ASSUME NEW m \in inbox, Recover(m) \/ AdmitFails(m) \/ AdmitCancelled(m) \/ Commit(m)
      PROVE  UNCHANGED <<tasks, permits>>
  BY <1>7, ZenonT(30) DEF Recover, AdmitFails, AdmitCancelled, Commit
<1>8. ASSUME NEW o \in Ops, Start(o) \/ Status(o) \/ Timeout(o) \/ Forget(o)
      PROVE  UNCHANGED <<tasks, permits>>
  BY <1>8, SMTT(30) DEF Start, Status, Timeout, Forget
<1>9. ASSUME NEW r \in replies, Receive(r) PROVE UNCHANGED <<tasks, permits>>
  BY <1>9, Zenon DEF Receive
<1>10. ClientRestart \/ Tick \/ UNCHANGED vars => UNCHANGED <<tasks, permits>>
  BY Zenon DEF ClientRestart, Tick, vars
<1> QED
  BY <1>2, <1>3, <1>4, <1>5, <1>6, <1>7, <1>8, <1>9, <1>10, Zenon DEF Next, Serve, Work

-----------------------------------------------------------------------------
(* Theorems *)

IInv == Shape /\ RunOnce /\ Agree /\ Permits

\* Over repeated deliveries, retries, failed saves and restarts of both processes,
\* the journal has its shape, covers every operation that ran, agrees with every
\* answer given, and each worker has one permit (Router, FileStore).
THEOREM Inductive == Spec => []IInv
<1>1. Init => IInv
  BY InitShape, InitRunOnce, InitAgree, InitPermits, Zenon DEF IInv
<1>2. IInv /\ [Next]_vars => IInv'
  BY ShapeStep, RunOnceStep, AgreeStep, PermitsStep, Zenon DEF IInv
<1> QED BY <1>1, <1>2, PTL DEF Spec

\* A handler is invoked at most once for an operation, whatever is delivered
\* again, retried, lost, or restarted (Router::call, FileStore::admit).
THEOREM RunsAtMostOnce == Spec => []AtMostOnce
<1>1. IInv => AtMostOnce
  BY Zenon DEF IInv, RunOnce, AtMostOnce
<1> QED BY <1>1, Inductive, PTL

\* Until its deadline, an operation that was started has a live record in memory
\* and on file, so that status never answers Unavailable (FileStore::admit).
THEOREM StartedStaysKnown == Spec => []StartedIsKnown
<1>1. IInv => StartedIsKnown
  <2> SUFFICES ASSUME IInv, NEW o \in Ops, executed[o] > 0, now < Deadline[o]
               PROVE  Live(mem, o) /\ Live(disk, o)
    BY Zenon DEF StartedIsKnown
  <2>1. now \in Nat /\ Deadline[o] \in Nat /\ Covers(mem, o) /\ Covers(disk, o)
    BY RpcAssumption, SMTT(30) DEF IInv, Shape, RunOnce
  <2>2. mem[o].retain_until \in Nat /\ disk[o].retain_until \in Nat
    BY <2>1, Zenon DEF IInv, Shape, IsJournal, Records, Covers
  <2> QED BY <2>1, <2>2 DEF Live, Covers
<1> QED BY <1>1, Inductive, PTL

\* Every terminal answer to an operation is the same one, the handler's outcome
\* or the refusal to carry it (Router::state, Journal::complete).
THEOREM AnswersAreConsistent == Spec => []AnswersAgree
<1>1. IInv => AnswersAgree
  <2> SUFFICES ASSUME IInv, NEW o \in Ops
               PROVE  Cardinality(answers[o]) <= 1 /\ answers[o] \subseteq {outcome[o], Failed}
    BY Zenon DEF AnswersAgree
  <2>1. answers[o] \subseteq Terminal
    BY Zenon DEF IInv, Shape
  <2>2. \A v \in answers[o] : v \in {outcome[o], Failed}
    BY <2>1, SMTT(30) DEF IInv, Agree, Said
  <2>3. \A v, w \in answers[o] : v = w
    BY <2>1, SMTT(30) DEF IInv, Agree, Said
  <2>4. Cardinality(answers[o]) <= 1
    <3>1. CASE answers[o] = {}
      BY <3>1, FS_EmptySet
    <3>2. CASE answers[o] # {}
      <4>1. PICK v : v \in answers[o]
        BY <3>2, Zenon
      <4>2. answers[o] = {v}
        BY <2>3, <4>1, Zenon
      <4>3. Cardinality({v}) = 1
        BY FS_Singleton, Zenon
      <4> QED BY <4>2, <4>3
    <3> QED BY <3>1, <3>2, Zenon
  <2> QED BY <2>2, <2>4, Zenon
<1> QED BY <1>1, Inductive, PTL

\* Worker permits are neither lost nor duplicated on any path of a worker:
\* a result, a failure, an aborted or a restarted router (Router::call).
THEOREM PermitsAreConserved == Spec => []PermitsConserved
<1>1. IInv => PermitsConserved
  BY Zenon DEF IInv, Permits
<1> QED BY <1>1, Inductive, PTL

=============================================================================
