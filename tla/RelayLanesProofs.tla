--------------------------- MODULE RelayLanesProofs ---------------------------
(* The lanes of the relay scheduler.  What a FairQueue holds: a push adds its    *)
(* job, a pop takes the job it serves and no other, and neither ever finds an    *)
(* empty producer.  Then the inductive invariant of the scheduler, and the steps *)
(* of producers, workers and sending tasks that place, serve and drop no job.    *)
EXTENDS RelayScheduler, FiniteSums

USE Zenon

-----------------------------------------------------------------------------
(* The fair queue *)

Producers ==
  [producer : {Job[j].producer : j \in DOMAIN Job}, traffic : {Job[j].traffic : j \in DOMAIN Job},
   jobs : Seq(DOMAIN Job), deficit : Nat, credit_due : BOOLEAN]

\* A producer queue of class k: it has jobs, all its own and no job twice.
ProducerOK(p, k) ==
  /\ p \in Producers /\ p.jobs # <<>> /\ IsInjective(p.jobs)
  /\ \A j \in Range(p.jobs) : Job[j].class = k /\ Owns(p, j)

Same(p, r) == p.producer = r.producer /\ p.traffic = r.traffic

\* A class: one queue for each producer and traffic class.
ClassOK(c, k) ==
  /\ c \in Seq(Producers)
  /\ \A i \in DOMAIN c : ProducerOK(c[i], k)
  /\ \A i, m \in DOMAIN c : Same(c[i], c[m]) => i = m

ClassesOK(cs) == DOMAIN cs = Classes /\ \A k \in Classes : ClassOK(cs[k], k)

\* The jobs of all classes.
AllJobs(cs) == UNION {JobsIn(cs[k]) : k \in Classes}

-----------------------------------------------------------------------------
(* A class *)

\* The jobs of a class are those of its producers.
LEMMA InClass ==
  ASSUME NEW c, NEW j
  PROVE  j \in JobsIn(c) <=> \E i \in DOMAIN c : j \in Range(c[i].jobs)
  BY DEF JobsIn

\* Two producers of a class that are not the same have no job in common.
LEMMA NotShared ==
  ASSUME NEW p, NEW r, NEW k, ProducerOK(p, k), ProducerOK(r, k), ~Same(p, r), NEW j
  PROVE  ~(j \in Range(p.jobs) /\ j \in Range(r.jobs))
  BY DEF ProducerOK, Owns, Same

\* The first producer, and the others.
LEMMA ClassSplits ==
  ASSUME NEW c, NEW k, ClassOK(c, k), c # <<>>
  PROVE  /\ ProducerOK(Head(c), k) /\ ClassOK(Tail(c), k) /\ Len(c) = Len(Tail(c)) + 1
         /\ \A i \in DOMAIN Tail(c) : ~Same(Tail(c)[i], Head(c))
         /\ JobsIn(c) = JobsIn(Tail(c)) \cup Range(Head(c).jobs)
         /\ \A j \in Range(Head(c).jobs) : j \notin JobsIn(Tail(c))
<1> DEFINE t == Tail(c)
<1>1. /\ t \in Seq(Producers) /\ Head(c) = c[1] /\ 1 \in DOMAIN c /\ Len(c) = Len(t) + 1
      /\ \A i \in DOMAIN t : t[i] = c[i + 1] /\ i + 1 \in DOMAIN c /\ i + 1 # 1
      /\ \A i, m \in DOMAIN t : i + 1 = m + 1 => i = m
      /\ \A i \in DOMAIN c : i # 1 => i - 1 \in DOMAIN t /\ t[i - 1] = c[i]
  BY SMT DEF ClassOK
<1> HIDE DEF t
<1>2. ProducerOK(Head(c), k)
  BY <1>1 DEF ClassOK
<1>3. ClassOK(t, k)
  BY <1>1, SMT DEF ClassOK
<1>4. \A i \in DOMAIN t : ~Same(t[i], Head(c))
  <2>1. \A i, m \in DOMAIN c : Same(c[i], c[m]) => i = m
    BY DEF ClassOK
  <2> QED BY <1>1, <2>1, SMT
<1>5. JobsIn(c) = JobsIn(t) \cup Range(Head(c).jobs)
  <2>1. ASSUME NEW j \in JobsIn(c) PROVE j \in JobsIn(t) \/ j \in Range(Head(c).jobs)
    BY <2>1, <1>1, InClass, SMT
  <2>2. ASSUME NEW j, j \in JobsIn(t) \/ j \in Range(Head(c).jobs) PROVE j \in JobsIn(c)
    BY <2>2, <1>1, InClass, SMT
  <2> QED BY <2>1, <2>2
<1>6. ASSUME NEW j \in Range(Head(c).jobs), j \in JobsIn(t) PROVE FALSE
  <2>1. PICK i \in DOMAIN t : j \in Range(t[i].jobs)
    BY <1>6, InClass
  <2>2. ProducerOK(t[i], k) /\ ~Same(t[i], Head(c))
    BY <1>3, <1>4 DEF ClassOK
  <2> QED BY <2>1, <2>2, <1>2, <1>6, NotShared
<1> QED BY <1>1, <1>2, <1>3, <1>4, <1>5, <1>6 DEF t

\* A producer joins at the back.
LEMMA ClassAppends ==
  ASSUME NEW c, NEW k, ClassOK(c, k), NEW p, ProducerOK(p, k), \A i \in DOMAIN c : ~Same(c[i], p)
  PROVE  /\ ClassOK(Append(c, p), k) /\ Len(Append(c, p)) = Len(c) + 1
         /\ JobsIn(Append(c, p)) = JobsIn(c) \cup Range(p.jobs)
<1> DEFINE d == Append(c, p)
           n == Len(c) + 1
<1>1. p \in Producers
  BY DEF ProducerOK
<1>2. /\ d \in Seq(Producers) /\ Len(d) = n /\ n \in DOMAIN d /\ d[n] = p
      /\ \A i \in DOMAIN d : i # n => i \in DOMAIN c
      /\ \A i \in DOMAIN c : i \in DOMAIN d /\ i # n /\ d[i] = c[i]
  BY <1>1, SMT DEF ClassOK
<1> HIDE DEF d, n
<1>3. \A i \in DOMAIN d : ProducerOK(d[i], k)
  BY <1>2 DEF ClassOK
<1>4. \A i, m \in DOMAIN d : Same(d[i], d[m]) => i = m
  <2>1. \A i, m \in DOMAIN d : i # n /\ m # n /\ Same(d[i], d[m]) => i = m
    BY <1>2 DEF ClassOK
  <2>2. \A i \in DOMAIN d : i # n => ~Same(d[i], d[n]) /\ ~Same(d[n], d[i])
    BY <1>2 DEF Same
  <2> QED BY <2>1, <2>2
<1>5. JobsIn(d) = JobsIn(c) \cup Range(p.jobs)
  <2>1. ASSUME NEW j \in JobsIn(d) PROVE j \in JobsIn(c) \/ j \in Range(p.jobs)
    BY <2>1, <1>2, InClass
  <2>2. ASSUME NEW j, j \in JobsIn(c) \/ j \in Range(p.jobs) PROVE j \in JobsIn(d)
    BY <2>2, <1>2, InClass
  <2> QED BY <2>1, <2>2
<1> QED BY <1>2, <1>3, <1>4, <1>5 DEF ClassOK, d, n

\* A producer returns to the front.
LEMMA ClassFronts ==
  ASSUME NEW c, NEW k, ClassOK(c, k), NEW p, ProducerOK(p, k), \A i \in DOMAIN c : ~Same(c[i], p)
  PROVE  /\ ClassOK(<<p>> \o c, k)
         /\ JobsIn(<<p>> \o c) = JobsIn(c) \cup Range(p.jobs)
<1> DEFINE d == <<p>> \o c
<1>1. p \in Producers
  BY DEF ProducerOK
<1>2. /\ d \in Seq(Producers) /\ 1 \in DOMAIN d /\ d[1] = p
      /\ \A i \in DOMAIN d : i # 1 => i - 1 \in DOMAIN c /\ d[i] = c[i - 1]
      /\ \A i, m \in DOMAIN d : i - 1 = m - 1 => i = m
      /\ \A i \in DOMAIN c : i + 1 \in DOMAIN d /\ i + 1 # 1 /\ d[i + 1] = c[i]
  BY <1>1, SMT DEF ClassOK
<1> HIDE DEF d
<1>3. \A i \in DOMAIN d : ProducerOK(d[i], k)
  BY <1>2 DEF ClassOK
<1>4. \A i, m \in DOMAIN d : Same(d[i], d[m]) => i = m
  <2>1. \A i, m \in DOMAIN d : i # 1 /\ m # 1 /\ Same(d[i], d[m]) => i = m
    BY <1>2 DEF ClassOK
  <2>2. \A i \in DOMAIN d : i # 1 => ~Same(d[i], d[1]) /\ ~Same(d[1], d[i])
    BY <1>2, SMT DEF Same
  <2> QED BY <2>1, <2>2
<1>5. JobsIn(d) = JobsIn(c) \cup Range(p.jobs)
  <2>1. ASSUME NEW j \in JobsIn(d) PROVE j \in JobsIn(c) \/ j \in Range(p.jobs)
    BY <2>1, <1>2, InClass, SMT
  <2>2. ASSUME NEW j, j \in JobsIn(c) \/ j \in Range(p.jobs) PROVE j \in JobsIn(d)
    BY <2>2, <1>2, InClass, SMT
  <2> QED BY <2>1, <2>2
<1> QED BY <1>2, <1>3, <1>4, <1>5 DEF ClassOK, d

-----------------------------------------------------------------------------
(* A producer *)

\* The jobs of a queue, its first and the others.
LEMMA JobsSplit ==
  ASSUME NEW J, NEW q \in Seq(J), q # <<>>, IsInjective(q)
  PROVE  /\ Head(q) \in Range(q) /\ Head(q) \in J /\ Tail(q) \in Seq(J) /\ IsInjective(Tail(q))
         /\ Range(Tail(q)) = Range(q) \ {Head(q)}
<1> DEFINE t == Tail(q)
<1>1. /\ t \in Seq(J) /\ Head(q) = q[1] /\ 1 \in DOMAIN q /\ q[1] \in J
      /\ \A i \in DOMAIN t : t[i] = q[i + 1] /\ i + 1 \in DOMAIN q /\ i + 1 # 1
      /\ \A i, m \in DOMAIN t : i + 1 = m + 1 => i = m
      /\ \A i \in DOMAIN q : i # 1 => i - 1 \in DOMAIN t /\ t[i - 1] = q[i]
  BY SMT
<1> HIDE DEF t
<1>2. \A i, m \in DOMAIN q : q[i] = q[m] => i = m
  BY DEF IsInjective
<1>3. IsInjective(t)
  <2>1. \A i, m \in DOMAIN t : t[i] = t[m] => i = m
    BY <1>1, <1>2, SMT
  <2> QED BY <2>1 DEF IsInjective
<1>4. ASSUME NEW x \in Range(t) PROVE x \in Range(q) /\ x # q[1]
  <2>1. PICK i \in DOMAIN t : x = t[i]
    BY <1>4 DEF Range
  <2> QED BY <2>1, <1>1, <1>2, SMT DEF Range
<1>5. ASSUME NEW x \in Range(q), x # q[1] PROVE x \in Range(t)
  <2>1. PICK i \in DOMAIN q : x = q[i]
    BY <1>5 DEF Range
  <2> QED BY <2>1, <1>1, <1>5 DEF Range
<1>6. q[1] \in Range(q)
  BY <1>1 DEF Range
<1>7. Range(t) = Range(q) \ {q[1]}
  BY <1>4, <1>5
<1> QED BY <1>1, <1>3, <1>6, <1>7 DEF t

\* A job joins at the back.
LEMMA JobsAppend ==
  ASSUME NEW J, NEW q \in Seq(J), IsInjective(q), NEW j \in J, j \notin Range(q)
  PROVE  /\ Append(q, j) \in Seq(J) /\ Append(q, j) # <<>> /\ IsInjective(Append(q, j))
         /\ Range(Append(q, j)) = Range(q) \cup {j}
<1> DEFINE t == Append(q, j)
           n == Len(q) + 1
<1>1. /\ t \in Seq(J) /\ t # <<>> /\ n \in DOMAIN t /\ t[n] = j
      /\ \A i \in DOMAIN t : i # n => i \in DOMAIN q
      /\ \A i \in DOMAIN q : i \in DOMAIN t /\ i # n /\ t[i] = q[i]
  BY SMT
<1> HIDE DEF t, n
<1>2. \A i, m \in DOMAIN q : q[i] = q[m] => i = m
  BY DEF IsInjective
<1>3. \A i \in DOMAIN q : q[i] # j
  BY DEF Range
<1>4. \A i, m \in DOMAIN t : t[i] = t[m] => i = m
  BY <1>1, <1>2, <1>3
<1>5. Range(t) = Range(q) \cup {j}
  <2>1. ASSUME NEW x \in Range(t) PROVE x \in Range(q) \cup {j}
    BY <1>1, <2>1 DEF Range
  <2>2. ASSUME NEW x \in Range(q) PROVE x \in Range(t)
    <3>1. PICK i \in DOMAIN q : x = q[i]
      BY <2>2 DEF Range
    <3>2. i \in DOMAIN t /\ t[i] = x
      BY <3>1, <1>1
    <3> QED BY <3>2 DEF Range
  <2>3. j \in Range(t)
    BY <1>1 DEF Range
  <2> QED BY <2>1, <2>2, <2>3
<1> QED BY <1>1, <1>4, <1>5 DEF IsInjective, t

\* The two ways a visit leaves a producer with all its jobs.
LEMMA CreditKeeps ==
  ASSUME NEW p, NEW k, ProducerOK(p, k), NEW r \in {Credited(p), [Credited(p) EXCEPT !.credit_due = TRUE]}
  PROVE  ProducerOK(r, k) /\ Same(r, p) /\ r.jobs = p.jobs
<1>1. r \in Producers /\ r.jobs = p.jobs /\ r.producer = p.producer /\ r.traffic = p.traffic
  <2>1. p \in Producers
    BY DEF ProducerOK
  <2>2. DEFICIT_LIMIT \in Nat
    BY FairQueueAssumption
  <2>3. Credited(p) \in Producers /\ Credited(p).jobs = p.jobs
        /\ Credited(p).producer = p.producer /\ Credited(p).traffic = p.traffic
    <3> DEFINE z == IF p.deficit < DEFICIT_LIMIT THEN p.deficit + 1 ELSE p.deficit
               y == [p EXCEPT !.deficit = z, !.credit_due = FALSE]
    <3>1. p.deficit \in Nat
      BY <2>1, SMT DEF Producers
    <3>2. z \in Nat
      BY <2>2, <3>1, SMT
    <3> HIDE DEF z
    <3>3. y \in Producers /\ y.jobs = p.jobs /\ y.producer = p.producer /\ y.traffic = p.traffic
      BY <2>1, <3>2 DEF Producers
    <3>4. Credited(p) = y \/ Credited(p) = p
      BY SMT DEF Credited, z
    <3> QED BY <2>1, <3>3, <3>4
  <2> DEFINE o == Credited(p)
             e == [o EXCEPT !.credit_due = TRUE]
  <2>4. o \in Producers
    BY <2>3
  <2> HIDE DEF o
  <2>5. e \in Producers /\ e.jobs = o.jobs /\ e.producer = o.producer /\ e.traffic = o.traffic
    BY <2>4 DEF Producers
  <2> QED BY <2>3, <2>5 DEF o
<1>2. \A j \in Range(p.jobs) : Job[j].class = k /\ Owns(p, j)
  BY DEF ProducerOK
<1>3. \A j \in Range(r.jobs) : Job[j].class = k /\ Owns(r, j)
  BY <1>1, <1>2 DEF Owns
<1>4. r.jobs # <<>> /\ IsInjective(r.jobs)
  BY <1>1 DEF ProducerOK
<1> QED BY <1>1, <1>3, <1>4 DEF ProducerOK, Same

-----------------------------------------------------------------------------
(* A visit *)

\* Class d is what a visit that served nothing makes of class c.
Turned(c, d, k) == ClassOK(d, k) /\ JobsIn(d) = JobsIn(c) /\ Len(d) = Len(c)
\* Class d is class c without the job j.
Taken(c, d, k, j) == ClassOK(d, k) /\ j \in JobsIn(c) /\ JobsIn(d) = JobsIn(c) \ {j}

\* A producer that is not served goes to the back with all its jobs.
LEMMA TurnKeeps ==
  ASSUME NEW c, NEW k, ClassOK(c, k), c # <<>>, NEW p,
         ProducerOK(p, k), Same(p, Head(c)), p.jobs = Head(c).jobs
  PROVE  Turned(c, Append(Tail(c), p), k)
<1> DEFINE t == Tail(c)
           h == Head(c)
<1>1. /\ ClassOK(t, k) /\ Len(c) = Len(t) + 1 /\ JobsIn(c) = JobsIn(t) \cup Range(h.jobs)
      /\ \A i \in DOMAIN t : ~Same(t[i], h)
  BY ClassSplits
<1> HIDE DEF t, h
<1>2. \A i \in DOMAIN t : ~Same(t[i], p)
  BY <1>1 DEF Same, h
<1>3. /\ ClassOK(Append(t, p), k) /\ Len(Append(t, p)) = Len(t) + 1
      /\ JobsIn(Append(t, p)) = JobsIn(t) \cup Range(p.jobs)
  BY <1>1, <1>2, ClassAppends
<1> QED BY <1>1, <1>3 DEF Turned, t, h

\* A producer that is served loses its first job, and stays only if it has others.
LEMMA ServeTakes ==
  ASSUME NEW c, NEW k, ClassOK(c, k), c # <<>>, NEW p,
         ProducerOK(p, k), Same(p, Head(c)), p.jobs = Head(c).jobs,
         Job[Head(p.jobs)].cost <= p.deficit
  PROVE  LET j == Head(p.jobs)
             served == [p EXCEPT !.jobs = Tail(p.jobs), !.deficit = p.deficit - Job[j].cost]
         IN  j \in DOMAIN Job /\ Taken(c, Requeued(Tail(c), served), k, j)
<1> DEFINE t == Tail(c)
           h == Head(c)
           j == Head(p.jobs)
           r == [p EXCEPT !.jobs = Tail(p.jobs), !.deficit = p.deficit - Job[j].cost]
           e == [r EXCEPT !.credit_due = TRUE]
           q == p.jobs
<1>1. /\ ClassOK(t, k) /\ JobsIn(c) = JobsIn(t) \cup Range(h.jobs)
      /\ \A i \in DOMAIN t : ~Same(t[i], h)
      /\ \A x \in Range(h.jobs) : x \notin JobsIn(t)
  BY ClassSplits
<1>2. p \in Producers /\ q # <<>> /\ IsInjective(q) /\ q \in Seq(DOMAIN Job)
  <2>1. p \in Producers /\ q # <<>> /\ IsInjective(q)
    BY DEF ProducerOK
  <2> QED BY <2>1, SMT DEF Producers
<1>3. /\ j \in Range(q) /\ j \in DOMAIN Job /\ Tail(q) \in Seq(DOMAIN Job) /\ IsInjective(Tail(q))
      /\ Range(Tail(q)) = Range(q) \ {j}
  BY <1>2, JobsSplit
<1>4. Job[j].cost \in Nat
  <2>1. Job[j].cost \in 1 .. ROUNDS /\ ROUNDS \in Nat
    BY <1>3, FairQueueAssumption, SMT
  <2> QED BY <2>1, SMT
<1>5. /\ r \in Producers /\ r.jobs = Tail(q) /\ r.producer = p.producer /\ r.traffic = p.traffic
      /\ e \in Producers /\ e.jobs = Tail(q) /\ e.producer = p.producer /\ e.traffic = p.traffic
  <2> DEFINE w == Tail(q)
             z == p.deficit - Job[j].cost
  <2>1. p.deficit \in Nat
    BY <1>2, SMT DEF Producers
  <2>2. z \in Nat /\ w \in Seq(DOMAIN Job)
    BY <1>3, <1>4, <2>1, SMT
  <2> HIDE DEF w, z
  <2>3. r = [p EXCEPT !.jobs = w, !.deficit = z]
    BY DEF w, z
  <2> HIDE DEF r
  <2>4. r \in Producers /\ r.jobs = w /\ r.producer = p.producer /\ r.traffic = p.traffic
    BY <1>2, <2>2, <2>3 DEF Producers
  <2>5. e \in Producers /\ e.jobs = r.jobs /\ e.producer = r.producer /\ e.traffic = r.traffic
    BY <2>4 DEF Producers
  <2> QED BY <2>4, <2>5 DEF w
<1> DEFINE d == Requeued(t, r)
<1>6. d = IF r.jobs = <<>> THEN t ELSE IF Job[Head(r.jobs)].cost <= r.deficit THEN <<r>> \o t ELSE Append(t, e)
  BY DEF Requeued
<1> HIDE DEF t, h, j, r, e, d, q
<1>7. JobsIn(t) \cup Range(Tail(q)) = JobsIn(c) \ {j}
  <2>1. q = h.jobs
    BY DEF q, h
  <2> QED BY <1>1, <1>3, <2>1
<1>8. ASSUME NEW y \in {r, e}, r.jobs # <<>>
      PROVE  ProducerOK(y, k) /\ y.jobs = Tail(q) /\ \A i \in DOMAIN t : ~Same(t[i], y)
  <2>1. y \in Producers /\ y.jobs = Tail(q) /\ y.producer = p.producer /\ y.traffic = p.traffic
    BY <1>5, <1>8
  <2>2. \A x \in Range(q) : Job[x].class = k /\ Owns(p, x)
    BY DEF ProducerOK, q
  <2>3. \A x \in Range(y.jobs) : Job[x].class = k /\ Owns(y, x)
    BY <2>1, <2>2, <1>3 DEF Owns
  <2>4. y.jobs # <<>> /\ IsInjective(y.jobs)
    BY <2>1, <1>3, <1>5, <1>8
  <2>5. \A i \in DOMAIN t : ~Same(t[i], y)
    BY <1>1, <2>1 DEF Same, h
  <2> QED BY <2>1, <2>3, <2>4, <2>5 DEF ProducerOK
<1>9. ClassOK(d, k) /\ JobsIn(d) = JobsIn(t) \cup Range(Tail(q))
  <2>1. CASE r.jobs = <<>>
    <3>1. Range(Tail(q)) = {}
      <4>1. \A i \in DOMAIN <<>> : FALSE
        BY SMT
      <4> QED BY <1>5, <2>1, <4>1 DEF Range
    <3> QED BY <1>1, <1>6, <2>1, <3>1
  <2>2. CASE r.jobs # <<>> /\ d = <<r>> \o t
    <3>1. ProducerOK(r, k) /\ r.jobs = Tail(q) /\ \A i \in DOMAIN t : ~Same(t[i], r)
      BY <1>8, <2>2
    <3> QED BY <1>1, <2>2, <3>1, ClassFronts
  <2>3. CASE r.jobs # <<>> /\ d = Append(t, e)
    <3>1. ProducerOK(e, k) /\ e.jobs = Tail(q) /\ \A i \in DOMAIN t : ~Same(t[i], e)
      BY <1>8, <2>3
    <3> QED BY <1>1, <2>3, <3>1, ClassAppends
  <2> QED BY <1>6, <2>1, <2>2, <2>3
<1>10. j \in JobsIn(c)
  BY <1>1, <1>3 DEF q, h
<1>11. Taken(c, d, k, j)
  BY <1>7, <1>9, <1>10 DEF Taken
<1> QED BY <1>3, <1>11 DEF d, r, j, q, t

-----------------------------------------------------------------------------
(* A scan *)

ScanFields == {"classes", "next", "job"}

ScanOK(s) == DOMAIN s = ScanFields /\ ClassesOK(s.classes) /\ s.next \in Classes

\* What a scan that began with the classes cs has done: nothing served and every job
\* still there, in classes of the same length, or one job taken out.
Scanned(cs, s) ==
  /\ ScanOK(s)
  /\ IF s.job = NoJob
     THEN AllJobs(s.classes) = AllJobs(cs) /\ \A k \in Classes : Len(s.classes[k]) = Len(cs[k])
     ELSE s.job \in AllJobs(cs) /\ AllJobs(s.classes) = AllJobs(cs) \ {s.job}

\* A job is in the class its priority gives it.
LEMMA InOwnClass ==
  ASSUME NEW cs, ClassesOK(cs), NEW k \in Classes, NEW j \in JobsIn(cs[k])
  PROVE  Job[j].class = k /\ j \in DOMAIN Job
<1>1. PICK i \in DOMAIN cs[k] : j \in Range(cs[k][i].jobs)
  BY InClass
<1>2. ProducerOK(cs[k][i], k)
  BY DEF ClassesOK, ClassOK
<1>3. cs[k][i].jobs \in Seq(DOMAIN Job)
  BY <1>2, SMT DEF ProducerOK, Producers
<1>4. Range(cs[k][i].jobs) \subseteq DOMAIN Job
  BY <1>3, SMT DEF Range
<1> QED BY <1>1, <1>2, <1>4 DEF ProducerOK

\* The classes when one class changes.
LEMMA OneClassChanges ==
  ASSUME NEW cs, ClassesOK(cs), NEW k \in Classes, NEW d, ClassOK(d, k)
  PROVE  LET es == [cs EXCEPT ![k] = d]
         IN  /\ ClassesOK(es) /\ es[k] = d /\ \A m \in Classes : m # k => es[m] = cs[m]
             /\ JobsIn(d) = JobsIn(cs[k]) => AllJobs(es) = AllJobs(cs)
<1> DEFINE es == [cs EXCEPT ![k] = d]
<1>1. DOMAIN es = Classes /\ es[k] = d /\ \A m \in Classes : m # k => es[m] = cs[m]
  BY DEF ClassesOK
<1> HIDE DEF es
<1>2. ClassesOK(es)
  BY <1>1 DEF ClassesOK
<1>3. \A x : x \in AllJobs(es) <=> x \in JobsIn(d) \/ \E m \in Classes : m # k /\ x \in JobsIn(cs[m])
  BY <1>1 DEF AllJobs
<1>4. \A x : x \in AllJobs(cs) <=> x \in JobsIn(cs[k]) \/ \E m \in Classes : m # k /\ x \in JobsIn(cs[m])
  BY DEF AllJobs
<1>5. JobsIn(d) = JobsIn(cs[k]) => AllJobs(es) = AllJobs(cs)
  BY <1>3, <1>4
<1> QED BY <1>1, <1>2, <1>5 DEF es

\* Where the jobs are when one class changes.
LEMMA InChanged ==
  ASSUME NEW cs, ClassesOK(cs), NEW k \in Classes, NEW d, NEW x
  PROVE  x \in AllJobs([cs EXCEPT ![k] = d])
           <=> x \in JobsIn(d) \/ \E m \in Classes : m # k /\ x \in JobsIn(cs[m])
<1> DEFINE es == [cs EXCEPT ![k] = d]
<1>1. es[k] = d /\ \A m \in Classes : m # k => es[m] = cs[m]
  BY DEF ClassesOK
<1> HIDE DEF es
<1>2. x \in AllJobs(es) <=> x \in JobsIn(d) \/ \E m \in Classes : m # k /\ x \in JobsIn(cs[m])
  BY <1>1 DEF AllJobs
<1> QED BY <1>2 DEF es

\* A class loses a job.
LEMMA OneClassLoses ==
  ASSUME NEW cs, ClassesOK(cs), NEW k \in Classes, NEW d, NEW j, Taken(cs[k], d, k, j)
  PROVE  LET es == [cs EXCEPT ![k] = d]
         IN  ClassesOK(es) /\ j \in AllJobs(cs) /\ AllJobs(es) = AllJobs(cs) \ {j}
<1> DEFINE es == [cs EXCEPT ![k] = d]
<1>1. ClassOK(d, k) /\ j \in JobsIn(cs[k]) /\ JobsIn(d) = JobsIn(cs[k]) \ {j}
  BY DEF Taken
<1>2. /\ ClassesOK(es)
      /\ \A x : x \in AllJobs(es) <=> x \in JobsIn(d) \/ \E m \in Classes : m # k /\ x \in JobsIn(cs[m])
  <2>1. ClassesOK(es)
    BY <1>1, OneClassChanges
  <2> QED BY <2>1, InChanged
<1>3. \A x : x \in AllJobs(cs) <=> x \in JobsIn(cs[k]) \/ \E m \in Classes : m # k /\ x \in JobsIn(cs[m])
  BY DEF AllJobs
<1>4. \A m \in Classes : m # k => j \notin JobsIn(cs[m])
  <2>1. Job[j].class = k
    BY <1>1, InOwnClass
  <2>2. \A m \in Classes : j \in JobsIn(cs[m]) => Job[j].class = m
    BY InOwnClass
  <2> QED BY <2>1, <2>2
<1> HIDE DEF es
<1>5. j \in AllJobs(cs) /\ AllJobs(es) = AllJobs(cs) \ {j}
  BY <1>1, <1>2, <1>3, <1>4
<1> QED BY <1>2, <1>5 DEF es

\* A class gains a job.
LEMMA OneClassGains ==
  ASSUME NEW cs, ClassesOK(cs), NEW k \in Classes, NEW d, ClassOK(d, k), NEW j,
         JobsIn(d) = JobsIn(cs[k]) \cup {j}
  PROVE  LET es == [cs EXCEPT ![k] = d]
         IN  ClassesOK(es) /\ AllJobs(es) = AllJobs(cs) \cup {j}
<1> DEFINE es == [cs EXCEPT ![k] = d]
<1>2. /\ ClassesOK(es)
      /\ \A x : x \in AllJobs(es) <=> x \in JobsIn(d) \/ \E m \in Classes : m # k /\ x \in JobsIn(cs[m])
  <2>1. ClassesOK(es)
    BY OneClassChanges
  <2> QED BY <2>1, InChanged
<1>3. \A x : x \in AllJobs(cs) <=> x \in JobsIn(cs[k]) \/ \E m \in Classes : m # k /\ x \in JobsIn(cs[m])
  BY DEF AllJobs
<1> HIDE DEF es
<1>4. AllJobs(es) = AllJobs(cs) \cup {j}
  BY <1>2, <1>3
<1> QED BY <1>2, <1>4 DEF es

\* A visit keeps every job but the one it serves.
LEMMA VisitScans ==
  ASSUME NEW cs, NEW s, Scanned(cs, s), NEW k \in Classes, cs[k] # <<>>, ClassesOK(cs), NEW b
  PROVE  Scanned(cs, Visit(s, k, b))
<1>1. CASE s.job # NoJob
  BY <1>1 DEF Visit
<1>2. CASE s.job = NoJob
  <2> DEFINE c == s.classes[k]
             h == Head(c)
             p == Credited(h)
             j == Head(h.jobs)
             o == [p EXCEPT !.credit_due = TRUE]
             r == [p EXCEPT !.jobs = Tail(p.jobs), !.deficit = p.deficit - Job[j].cost]
             t == Visit(s, k, b)
             kept(d) == [s EXCEPT !.classes = [s.classes EXCEPT ![k] = d]]
             took(d) == [s EXCEPT !.job = j, !.next = (k + 1) % CLASS_COUNT,
                                  !.classes = [s.classes EXCEPT ![k] = d]]
  <2>1. ClassOK(c, k) /\ c # <<>> /\ ScanOK(s)
    <3>1. ClassOK(c, k) /\ Len(c) = Len(cs[k]) /\ ClassOK(cs[k], k) /\ ScanOK(s)
      BY <1>2 DEF Scanned, ScanOK, ClassesOK
    <3> QED BY <3>1, SMT DEF ClassOK
  <2>2. ProducerOK(h, k) /\ ProducerOK(p, k) /\ ProducerOK(o, k) /\ Same(p, h) /\ Same(o, h) /\ Same(h, h)
        /\ p.jobs = h.jobs /\ o.jobs = h.jobs
    <3>1. ProducerOK(h, k)
      BY <2>1, ClassSplits
    <3> QED BY <3>1, CreditKeeps DEF Same
  <2>3. j = Head(p.jobs)
    BY <2>2
  <2>4. Job[j].cost > p.deficit \/ Job[j].cost <= p.deficit
    <3>1. h \in Producers /\ p \in Producers /\ h.jobs # <<>>
      BY <2>2 DEF ProducerOK
    <3>2. j \in DOMAIN Job /\ p.deficit \in Nat
      BY <3>1, SMT DEF Producers
    <3>3. Job[j].cost \in 1 .. ROUNDS /\ ROUNDS \in Nat
      BY <3>2, FairQueueAssumption, SMT
    <3> QED BY <3>2, <3>3, SMT
  <2>5. \/ t = kept(Append(Tail(c), h)) \/ t = kept(Append(Tail(c), o))
        \/ Job[j].cost <= p.deficit /\ t = took(Requeued(Tail(c), r))
    BY <1>2, <2>4 DEF Visit
  <2>6. ASSUME NEW d, t = kept(d), Turned(c, d, k) PROVE Scanned(cs, t)
    <3> DEFINE es == [s.classes EXCEPT ![k] = d]
    <3>1. DOMAIN t = DOMAIN s /\ t.classes = es /\ t.job = s.job /\ t.next = s.next
      BY <2>1, <2>6 DEF ScanOK, ScanFields
    <3>2. ClassesOK(es) /\ AllJobs(es) = AllJobs(s.classes) /\ es[k] = d
          /\ \A m \in Classes : m # k => es[m] = s.classes[m]
      <4>1. ClassesOK(s.classes) /\ ClassOK(d, k) /\ JobsIn(d) = JobsIn(s.classes[k])
        BY <2>1, <2>6 DEF ScanOK, Turned
      <4> QED BY <4>1, OneClassChanges, SMT
    <3> HIDE DEF es, t, kept
    <3>3. \A m \in Classes : Len(es[m]) = Len(cs[m])
      BY <1>2, <2>6, <3>2 DEF Scanned, Turned
    <3> QED BY <1>2, <2>1, <3>1, <3>2, <3>3 DEF Scanned, ScanOK
  <2>7. ASSUME NEW d, t = took(d), Taken(c, d, k, j), j \in DOMAIN Job PROVE Scanned(cs, t)
    <3> DEFINE es == [s.classes EXCEPT ![k] = d]
    <3>1. DOMAIN t = DOMAIN s /\ t.classes = es /\ t.job = j /\ t.next = (k + 1) % CLASS_COUNT
      BY <2>1, <2>7 DEF ScanOK, ScanFields
    <3>2. ClassesOK(es) /\ j \in AllJobs(s.classes) /\ AllJobs(es) = AllJobs(s.classes) \ {j}
      <4>1. ClassesOK(s.classes) /\ ClassOK(d, k) /\ Taken(s.classes[k], d, k, j)
        BY <2>1, <2>7 DEF ScanOK, Taken
      <4> HIDE DEF j
      <4> QED BY <4>1, OneClassLoses
    <3> HIDE DEF es, t, took, j
    <3>3. j # NoJob
      BY <2>7, FairQueueAssumption DEF NoJob
    <3>4. (k + 1) % CLASS_COUNT \in Classes
      BY FairQueueAssumption, SMT DEF Classes
    <3> QED BY <1>2, <2>1, <3>1, <3>2, <3>3, <3>4 DEF Scanned, ScanOK
  <2>8. Turned(c, Append(Tail(c), h), k) /\ Turned(c, Append(Tail(c), o), k)
    BY <2>1, <2>2, TurnKeeps
  <2>9. ASSUME Job[j].cost <= p.deficit PROVE j \in DOMAIN Job /\ Taken(c, Requeued(Tail(c), r), k, j)
    BY <2>1, <2>2, <2>3, <2>9, ServeTakes
  <2> SUFFICES Scanned(cs, t)
    BY DEF t
  <2> HIDE DEF t, kept, took, c, h, p, j, o, r
  <2>10. CASE t = kept(Append(Tail(c), h))
    BY <2>6, <2>8, <2>10, SMT
  <2>11. CASE t = kept(Append(Tail(c), o))
    BY <2>6, <2>8, <2>11, SMT
  <2>12. CASE Job[j].cost <= p.deficit /\ t = took(Requeued(Tail(c), r))
    <3>1. j \in DOMAIN Job /\ Taken(c, Requeued(Tail(c), r), k, j)
      BY <2>9, <2>12, SMT
    <3> QED BY <2>7, <2>12, <3>1, SMT
  <2> QED BY <2>5, <2>10, <2>11, <2>12, SMT
<1> QED BY <1>1, <1>2

-----------------------------------------------------------------------------
(* A pass over a class, and the passes of pop_eligible *)

IsVisits(f, N, s, k, b) == f = [n \in 0 .. N |-> IF n = 0 THEN s ELSE Visit(f[n - 1], k, b)]

\* The visits of a pass exist: those up to N extend to N + 1.
LEMMA VisitsExist ==
  ASSUME NEW s, NEW k, NEW b
  PROVE  \A N \in Nat : \E f : IsVisits(f, N, s, k, b)
<1> DEFINE G == {N \in Nat : \E f : IsVisits(f, N, s, k, b)}
<1>1. 0 \in G
  <2> DEFINE f == [n \in 0 .. 0 |-> s]
  <2>1. \A n \in 0 .. 0 : n = 0
    BY SMT
  <2>2. IsVisits(f, 0, s, k, b)
    BY <2>1 DEF IsVisits
  <2> HIDE DEF f
  <2> QED BY <2>2, SMT
<1>2. ASSUME NEW N \in Nat, N \in G PROVE N + 1 \in G
  <2>1. PICK f : IsVisits(f, N, s, k, b)
    BY <1>2
  <2> DEFINE g == [n \in 0 .. N + 1 |-> IF n = N + 1 THEN Visit(f[N], k, b) ELSE f[n]]
             h == [n \in 0 .. N + 1 |-> IF n = 0 THEN s ELSE Visit(g[n - 1], k, b)]
  <2>2. \A n \in 0 .. N + 1 : /\ n = N + 1 => n # 0 /\ n - 1 = N
                              /\ n # N + 1 => n \in 0 .. N
                              /\ n # 0 => n - 1 \in 0 .. N + 1 /\ n - 1 # N + 1
    BY SMT
  <2>3. \A n \in 0 .. N + 1 : g[n] = IF n = 0 THEN s ELSE Visit(g[n - 1], k, b)
    <3>1. \A n \in 0 .. N : f[n] = IF n = 0 THEN s ELSE Visit(f[n - 1], k, b)
      BY <2>1 DEF IsVisits
    <3>2. \A n \in 0 .. N + 1 : g[n] = IF n = N + 1 THEN Visit(f[N], k, b) ELSE f[n]
      OBVIOUS
    <3> HIDE DEF g
    <3>3. \A n \in 0 .. N + 1 : n # 0 => g[n - 1] = f[n - 1]
      BY <2>2, <3>2
    <3> QED BY <2>2, <3>1, <3>2, <3>3
  <2>4. g = h
    <3>1. g = [n \in 0 .. N + 1 |-> g[n]]
      OBVIOUS
    <3> HIDE DEF g
    <3> QED BY <2>3, <3>1
  <2> HIDE DEF g
  <2>5. IsVisits(g, N + 1, s, k, b)
    BY <2>4 DEF IsVisits
  <2>6. N + 1 \in Nat
    BY SMT
  <2> QED BY <2>5, <2>6
<1> HIDE DEF G
<1>3. \A N \in Nat : N \in G
  BY <1>1, <1>2, InductiveSet
<1> QED BY <1>3 DEF G

\* A pass keeps every job but the one it serves.
LEMMA PassScans ==
  ASSUME NEW cs, NEW s, Scanned(cs, s), NEW k \in Classes, cs[k] # <<>>, ClassesOK(cs), NEW b
  PROVE  Scanned(cs, VisitClass(s, k, b))
<1> DEFINE N == Len(s.classes[k])
           f == CHOOSE v : IsVisits(v, N, s, k, b)
           G == {n \in Nat : n <= N => Scanned(cs, f[n])}
<1>1. VisitClass(s, k, b) = f[N]
  BY DEF VisitClass, IsVisits
<1>2. N \in Nat
  <2>1. s.classes[k] \in Seq(Producers)
    BY DEF Scanned, ScanOK, ClassesOK, ClassOK
  <2> QED BY <2>1, SMT
<1> HIDE DEF N
<1>3. IsVisits(f, N, s, k, b)
  BY <1>2, VisitsExist
<1> HIDE DEF f
<1>4. \A n \in 0 .. N : f[n] = IF n = 0 THEN s ELSE Visit(f[n - 1], k, b)
  BY <1>3 DEF IsVisits
<1>5. 0 \in 0 .. N /\ 0 \in Nat
  BY <1>2, SMT
<1>6. 0 \in G
  BY <1>4, <1>5
<1>7. ASSUME NEW n \in Nat, n \in G PROVE n + 1 \in G
  <2>1. n + 1 \in Nat /\ n + 1 # 0 /\ (n + 1) - 1 = n /\ (n + 1 <= N => n <= N /\ n + 1 \in 0 .. N)
    BY <1>2, SMT
  <2>2. n + 1 <= N => Scanned(cs, Visit(f[n], k, b)) /\ f[n + 1] = Visit(f[n], k, b)
    BY <1>4, <1>7, <2>1, VisitScans
  <2> QED BY <2>1, <2>2
<1> HIDE DEF G
<1>8. \A n \in Nat : n \in G
  BY <1>6, <1>7, InductiveSet
<1>9. N <= N
  BY <1>2, SMT
<1> QED BY <1>1, <1>2, <1>8, <1>9 DEF G

At(q, n) == (q.next + n - 1) % CLASS_COUNT
ScanStep(q, b, x, n) == IF q.classes[At(q, n)] = <<>> THEN x ELSE VisitClass(x, At(q, n), b)
Start(q) == [classes |-> q.classes, next |-> q.next, job |-> NoJob]
IsScans(f, N, q, b) == f = [n \in 0 .. N |-> IF n = 0 THEN Start(q) ELSE ScanStep(q, b, f[n - 1], n)]

\* The passes of a pop exist.
LEMMA ScansExist ==
  ASSUME NEW q, NEW b
  PROVE  \A N \in Nat : \E f : IsScans(f, N, q, b)
<1> DEFINE G == {N \in Nat : \E f : IsScans(f, N, q, b)}
<1>1. 0 \in G
  <2> DEFINE f == [n \in 0 .. 0 |-> Start(q)]
  <2>1. \A n \in 0 .. 0 : n = 0
    BY SMT
  <2>2. IsScans(f, 0, q, b)
    BY <2>1 DEF IsScans
  <2> HIDE DEF f
  <2> QED BY <2>2, SMT
<1>2. ASSUME NEW N \in Nat, N \in G PROVE N + 1 \in G
  <2>1. PICK f : IsScans(f, N, q, b)
    BY <1>2
  <2> DEFINE g == [n \in 0 .. N + 1 |-> IF n = N + 1 THEN ScanStep(q, b, f[N], n) ELSE f[n]]
             h == [n \in 0 .. N + 1 |-> IF n = 0 THEN Start(q) ELSE ScanStep(q, b, g[n - 1], n)]
  <2>2. \A n \in 0 .. N + 1 : /\ n = N + 1 => n # 0 /\ n - 1 = N
                              /\ n # N + 1 => n \in 0 .. N
                              /\ n # 0 => n - 1 \in 0 .. N + 1 /\ n - 1 # N + 1
    BY SMT
  <2>3. \A n \in 0 .. N + 1 : g[n] = IF n = 0 THEN Start(q) ELSE ScanStep(q, b, g[n - 1], n)
    <3>1. \A n \in 0 .. N : f[n] = IF n = 0 THEN Start(q) ELSE ScanStep(q, b, f[n - 1], n)
      BY <2>1 DEF IsScans
    <3>2. \A n \in 0 .. N + 1 : g[n] = IF n = N + 1 THEN ScanStep(q, b, f[N], n) ELSE f[n]
      OBVIOUS
    <3> HIDE DEF g
    <3>3. \A n \in 0 .. N + 1 : n # 0 => g[n - 1] = f[n - 1]
      BY <2>2, <3>2
    <3> QED BY <2>2, <3>1, <3>2, <3>3
  <2>4. g = h
    <3>1. g = [n \in 0 .. N + 1 |-> g[n]]
      OBVIOUS
    <3> HIDE DEF g
    <3> QED BY <2>3, <3>1
  <2> HIDE DEF g
  <2>5. IsScans(g, N + 1, q, b)
    BY <2>4 DEF IsScans
  <2>6. N + 1 \in Nat
    BY SMT
  <2> QED BY <2>5, <2>6
<1> HIDE DEF G
<1>3. \A N \in Nat : N \in G
  BY <1>1, <1>2, InductiveSet
<1> QED BY <1>3 DEF G

QueueFields == {"classes", "len", "next", "capacity"}

QueueOK(q) == DOMAIN q = QueueFields /\ ClassesOK(q.classes) /\ q.next \in Classes

\* pop_eligible keeps every job of the queue but the one it serves.
THEOREM PopTakes ==
  ASSUME NEW q, QueueOK(q), NEW b
  PROVE  LET r == PopEligible(q, b)
         IN  /\ QueueOK(r.queue)
             /\ r.job = NoJob => Waiting(r.queue) = Waiting(q)
             /\ r.job # NoJob => r.job \in Waiting(q) /\ Waiting(r.queue) = Waiting(q) \ {r.job}
<1> DEFINE N == ROUNDS * CLASS_COUNT
           f == CHOOSE v : IsScans(v, N, q, b)
           s == f[N]
           r == PopEligible(q, b)
           G == {n \in Nat : n <= N => Scanned(q.classes, f[n])}
<1>1. r = [job |-> s.job, queue |-> [q EXCEPT !.classes = s.classes, !.next = s.next,
                                             !.len = IF s.job = NoJob THEN @ ELSE @ - 1]]
  BY DEF PopEligible, IsScans, ScanStep, Start, At
<1>2. N \in Nat
  BY FairQueueAssumption, SMT
<1> HIDE DEF N
<1>3. IsScans(f, N, q, b)
  BY <1>2, ScansExist
<1> HIDE DEF f
<1>4. \A n \in 0 .. N : f[n] = IF n = 0 THEN Start(q) ELSE ScanStep(q, b, f[n - 1], n)
  BY <1>3 DEF IsScans
<1>5. 0 \in 0 .. N /\ 0 \in Nat
  BY <1>2, SMT
<1>6. 0 \in G
  <2>1. Scanned(q.classes, Start(q))
    <3> DEFINE x == Start(q)
    <3>1. DOMAIN x = ScanFields /\ x.classes = q.classes /\ x.next = q.next /\ x.job = NoJob
      BY SMT DEF Start, ScanFields
    <3> HIDE DEF x
    <3>2. Scanned(q.classes, x)
      BY <3>1 DEF Scanned, ScanOK, QueueOK
    <3> QED BY <3>2, SMT DEF x
  <2> QED BY <1>4, <1>5, <2>1
<1>7. ASSUME NEW n \in Nat, n \in G PROVE n + 1 \in G
  <2>1. n + 1 \in Nat /\ n + 1 # 0 /\ (n + 1) - 1 = n /\ (n + 1 <= N => n <= N /\ n + 1 \in 0 .. N)
    BY <1>2, SMT
  <2>2. At(q, n + 1) \in Classes
    <3>1. q.next \in Classes /\ CLASS_COUNT \in Nat \ {0}
      BY FairQueueAssumption, SMT DEF QueueOK
    <3>2. q.next \in Nat
      BY <3>1, SMT DEF Classes
    <3> QED BY <3>1, <3>2, SMT DEF Classes, At
  <2>3. ASSUME Scanned(q.classes, f[n]) PROVE Scanned(q.classes, ScanStep(q, b, f[n], n + 1))
    BY <2>2, <2>3, PassScans DEF ScanStep, QueueOK
  <2> QED BY <1>4, <1>7, <2>1, <2>3
<1> HIDE DEF G
<1>8. \A n \in Nat : n \in G
  BY <1>6, <1>7, InductiveSet
<1>9. Scanned(q.classes, s)
  <2>1. N <= N
    BY <1>2, SMT
  <2> QED BY <1>2, <1>8, <2>1 DEF G
<1> HIDE DEF s
<1>10. /\ r.job = s.job /\ DOMAIN r.queue = QueueFields /\ r.queue.classes = s.classes
       /\ r.queue.next = s.next
  <2> DEFINE u == [q EXCEPT !.classes = s.classes, !.next = s.next,
                            !.len = IF s.job = NoJob THEN q.len ELSE q.len - 1]
  <2>1. r.job = s.job /\ r.queue = u
    BY <1>1, SMT
  <2>2. DOMAIN u = DOMAIN q /\ ("classes" \in DOMAIN q => u.classes = s.classes)
        /\ ("next" \in DOMAIN q => u.next = s.next)
    OBVIOUS
  <2> HIDE DEF u, r
  <2>3. "classes" \in QueueFields /\ "next" \in QueueFields
    BY DEF QueueFields
  <2> QED BY <2>1, <2>2, <2>3 DEF QueueOK
<1> HIDE DEF r
<1>11. QueueOK(r.queue)
  BY <1>9, <1>10 DEF QueueOK, Scanned, ScanOK
<1>12. Waiting(q) = AllJobs(q.classes) /\ Waiting(r.queue) = AllJobs(s.classes)
  BY <1>10 DEF Waiting, AllJobs
<1> QED BY <1>9, <1>10, <1>11, <1>12 DEF Scanned, r

\* A job that joins a class is the only thing added to it.
LEMMA JoinAdds ==
  ASSUME NEW k, NEW c, ClassOK(c, k), NEW j \in DOMAIN Job, Job[j].class = k, j \notin JobsIn(c)
  PROVE  ClassOK(Joined(c, j), k) /\ JobsIn(Joined(c, j)) = JobsIn(c) \cup {j}
<1> DEFINE O == {i \in DOMAIN c : Owns(c[i], j)}
           m == CHOOSE i \in O : \A x \in O : i <= x
           new == [producer |-> Job[j].producer, traffic |-> Job[j].traffic,
                   jobs |-> <<j>>, deficit |-> 0, credit_due |-> TRUE]
           d == Joined(c, j)
<1>1. d = IF O = {} THEN Append(c, new) ELSE [c EXCEPT ![m] = Enqueued(c[m], j)]
  BY DEF Joined
<1>2. CASE O = {}
  <2>1. /\ new \in Producers /\ new.jobs = <<j>> /\ new.producer = Job[j].producer
        /\ new.traffic = Job[j].traffic
    BY SMT DEF Producers
  <2> HIDE DEF new
  <2>2. Range(<<j>>) = {j} /\ <<j>> # <<>>
    BY SMT DEF Range
  <2>3. IsInjective(<<j>>)
    BY SMT DEF IsInjective
  <2>4. ProducerOK(new, k)
    BY <2>1, <2>2, <2>3 DEF ProducerOK, Owns
  <2>5. \A i \in DOMAIN c : ~Same(c[i], new)
    BY <1>2, <2>1 DEF Same, Owns
  <2>6. ClassOK(Append(c, new), k) /\ JobsIn(Append(c, new)) = JobsIn(c) \cup Range(new.jobs)
    BY <2>4, <2>5, ClassAppends
  <2> QED BY <1>1, <1>2, <2>1, <2>2, <2>6
<1>3. CASE O # {}
  <2>1. m \in DOMAIN c /\ Owns(c[m], j)
    <3>1. O \in SUBSET Nat /\ O # {}
      BY <1>3, SMT DEF ClassOK
    <3>2. \E i \in O : \A x \in O : i <= x
      BY <3>1, LeastNatural
    <3> QED BY <3>2
  <2> HIDE DEF m
  <2> DEFINE p == c[m]
             e == Enqueued(c[m], j)
             z == Append(p.jobs, j)
  <2>2. ProducerOK(p, k)
    BY <2>1 DEF ClassOK
  <2>3. p \in Producers /\ p.jobs \in Seq(DOMAIN Job) /\ IsInjective(p.jobs)
    <3>1. p \in Producers /\ IsInjective(p.jobs)
      BY <2>2 DEF ProducerOK
    <3> QED BY <3>1, SMT DEF Producers
  <2>4. j \notin Range(p.jobs)
    BY <2>1, InClass
  <2>5. z \in Seq(DOMAIN Job) /\ z # <<>> /\ IsInjective(z) /\ Range(z) = Range(p.jobs) \cup {j}
    BY <2>3, <2>4, JobsAppend, SMT
  <2>6. e = [p EXCEPT !.jobs = z]
    BY DEF Enqueued
  <2> HIDE DEF z, e, p
  <2>7. e \in Producers /\ e.jobs = z /\ e.producer = p.producer /\ e.traffic = p.traffic
    BY <2>3, <2>5, <2>6 DEF Producers
  <2>8. ProducerOK(e, k) /\ Same(e, p)
    <3>1. \A x \in Range(p.jobs) : Job[x].class = k /\ Owns(p, x)
      BY <2>2 DEF ProducerOK
    <3>2. Owns(p, j)
      BY <2>1 DEF p
    <3>3. \A x \in Range(e.jobs) : Job[x].class = k /\ Owns(e, x)
      BY <2>5, <2>7, <3>1, <3>2 DEF Owns
    <3> QED BY <2>5, <2>7, <3>3 DEF ProducerOK, Same
  <2> DEFINE g == [c EXCEPT ![m] = e]
  <2>9. g \in Seq(Producers) /\ DOMAIN g = DOMAIN c /\ g[m] = e /\ \A i \in DOMAIN c : i # m => g[i] = c[i]
    <3>1. c \in Seq(Producers)
      BY DEF ClassOK
    <3> QED BY <2>1, <2>7, <3>1, SMT
  <2>10. d = g
    BY <1>1, <1>3 DEF e
  <2> HIDE DEF g, d
  <2>11. \A i, n \in DOMAIN g : Same(g[i], g[n]) => i = n
    <3>1. \A i \in DOMAIN g : Same(g[i], c[i])
      BY <2>8, <2>9 DEF Same, p
    <3>2. \A i, n \in DOMAIN c : Same(c[i], c[n]) => i = n
      BY DEF ClassOK
    <3> QED BY <2>9, <3>1, <3>2 DEF Same
  <2>12. \A i \in DOMAIN g : ProducerOK(g[i], k)
    BY <2>8, <2>9 DEF ClassOK
  <2>13. JobsIn(g) = JobsIn(c) \cup {j}
    <3>1. ASSUME NEW x \in JobsIn(g) PROVE x \in JobsIn(c) \cup {j}
      <4>1. PICK i \in DOMAIN c : x \in Range(g[i].jobs)
        BY <3>1, <2>9, InClass
      <4>2. x \in Range(c[i].jobs) \/ x = j
        BY <4>1, <2>5, <2>7, <2>9 DEF p
      <4> QED BY <4>1, <4>2, InClass
    <3>2. ASSUME NEW x \in JobsIn(c) \cup {j} PROVE x \in JobsIn(g)
      BY <3>2, <2>1, <2>5, <2>7, <2>9, InClass DEF p
    <3> QED BY <3>1, <3>2
  <2>14. ClassOK(d, k) /\ JobsIn(d) = JobsIn(c) \cup {j}
    BY <2>9, <2>10, <2>11, <2>12, <2>13 DEF ClassOK
  <2> QED BY <2>14 DEF d
<1> QED BY <1>2, <1>3

\* push adds its job to the queue and nothing else.
THEOREM PushAdds ==
  ASSUME NEW q, QueueOK(q), NEW j \in DOMAIN Job, j \notin Waiting(q)
  PROVE  QueueOK(PushJob(q, j)) /\ Waiting(PushJob(q, j)) = Waiting(q) \cup {j}
<1> DEFINE k == Job[j].class
           d == Joined(q.classes[k], j)
           es == [q.classes EXCEPT ![k] = d]
           r == PushJob(q, j)
<1>1. k \in Classes
  BY FairQueueAssumption DEF Classes
<1>2. ClassOK(d, k) /\ JobsIn(d) = JobsIn(q.classes[k]) \cup {j}
  <2>1. ClassOK(q.classes[k], k) /\ j \notin JobsIn(q.classes[k])
    BY <1>1 DEF QueueOK, ClassesOK, Waiting
  <2> QED BY <2>1, JoinAdds
<1>3. DOMAIN r = QueueFields /\ r.classes = es /\ r.next = q.next
  BY DEF PushJob, QueueOK, QueueFields
<1> HIDE DEF d, k, r
<1>4. ClassesOK(es) /\ AllJobs(es) = AllJobs(q.classes) \cup {j}
  <2>1. ClassesOK(q.classes)
    BY DEF QueueOK
  <2> QED BY <1>1, <1>2, <2>1, OneClassGains, SMT
<1> HIDE DEF es
<1>5. QueueOK(r)
  BY <1>3, <1>4 DEF QueueOK
<1>6. Waiting(r) = Waiting(q) \cup {j}
  BY <1>3, <1>4 DEF Waiting, AllJobs
<1> QED BY <1>5, <1>6 DEF r

\* A new queue is empty.
LEMMA NewIsEmpty ==
  ASSUME NEW cap
  PROVE  QueueOK(NewQueue(cap)) /\ Waiting(NewQueue(cap)) = {}
<1> DEFINE q == NewQueue(cap)
<1>1. DOMAIN q = QueueFields /\ q.classes = [k \in Classes |-> <<>>] /\ q.next = 0
  BY SMT DEF NewQueue, QueueFields
<1> HIDE DEF q
<1>2. 0 \in Classes
  BY FairQueueAssumption, SMT DEF Classes
<1>3. <<>> \in Seq(Producers) /\ \A i \in DOMAIN <<>> : FALSE
  BY SMT
<1>4. \A k \in Classes : ClassOK(<<>>, k)
  BY <1>3 DEF ClassOK
<1>5. JobsIn(<<>>) = {}
  BY <1>3, InClass
<1>6. QueueOK(q)
  BY <1>1, <1>2, <1>4 DEF QueueOK, ClassesOK
<1>7. Waiting(q) = {}
  BY <1>1, <1>5 DEF Waiting
<1> QED BY <1>6, <1>7 DEF q

-----------------------------------------------------------------------------
(* The state of the scheduler *)

TaskFields == {"caller", "lane", "phase", "wire", "sent", "tries", "outcome", "receipt"}
LaneFields == {"key", "memo", "queue", "auth", "pinned", "closing", "permit", "worker",
               "running", "cover"}
BudgetFields == {"jobs", "bytes", "covers", "attempts", "retained"}
AccountFields == {"usage", "next", "growth", "staged"}

-----------------------------------------------------------------------------
(* The inductive invariant, over the values of the variables *)

\* A producer that was not admitted has no task, and a task has sent at most the
\* envelope it prepared.
TaskOK(t) ==
  /\ DOMAIN t = TaskFields
  /\ t.caller \in {"new", "routed"} => t.phase = "none"
  /\ t.sent = {} \/ (t.wire # 0 /\ t.sent = {t.wire})
TasksOK(T) == DOMAIN T = Jobs /\ \A j \in Jobs : TaskOK(T[j])

LaneOK(l) == DOMAIN l = LaneFields /\ QueueOK(l.queue) /\ l.key.scope \in Scopes
LanesOK(W) == W \in Seq(Range(W)) /\ \A i \in DOMAIN W : LaneOK(W[i])

\* A queued job is on the lane its task names; a job that left the queue never
\* counts as queued again.
Placed(W, T) ==
  \A i \in DOMAIN W :
    /\ \A j \in Waiting(W[i].queue) : j \in Jobs /\ T[j].phase = "queued" /\ T[j].lane = i
    /\ \A j \in W[i].running : j \in Jobs /\ T[j].phase \notin {"none", "queued"}

LiveOf(T) == {j \in Jobs : T[j].phase \notin {"none", "gone"}}
Covering(W, s) == {i \in DOMAIN W : W[i].key.scope = s /\ W[i].cover = "running"}
CoversOf(W) == [s \in Scopes |-> Cardinality(Covering(W, s))]

\* The attempts of the budget are those of the live jobs, and no two share one.
Att(n, j) == IF n THEN {<<Job[j].scope, Job[j].traffic, Job[j].text>>} ELSE {}
Atts(n, L) == UNION {Att(n, j) : j \in L}
Attempted(n, L, b) ==
  /\ b.attempts = Atts(n, L)
  /\ \A j, k \in L : j # k => Att(n, j) \cap Att(n, k) = {}

UsageOK(u) == u.items \in Nat /\ u.bytes \in Nat
AccountOK(A) ==
  /\ DOMAIN A = AccountFields /\ A.staged \in BOOLEAN
  /\ UsageOK(A.usage) /\ UsageOK(A.next)
  /\ A.growth = IF A.staged THEN Growth(A.next, A.usage) ELSE NoUsage

Items(A) == A.usage.items + A.growth.items
Size(A) == A.usage.bytes + A.growth.bytes

\* The counters are what is owned, and the payload keeps out of the cover allowance.
Books(L, C, A, b, lim) ==
  /\ DOMAIN b = BudgetFields /\ L \in SUBSET Jobs
  /\ b.covers = C /\ C = [s \in Scopes |-> C[s]]
  /\ \A s \in Scopes : C[s] \in Nat /\ C[s] <= lim[s]
  /\ b.jobs = Cardinality(L) + Total(C) + Items(A)
  /\ b.bytes = Bytes(L) + COVER_BYTES * Total(C) + Size(A)
  /\ b.retained = [items |-> Items(A), bytes |-> Size(A)]
  /\ Cardinality(L) + Items(A) <= MAX_JOBS - Total(lim)
  /\ Bytes(L) + Size(A) <= MAX_BYTES - Total(lim) * COVER_BYTES

SInv ==
  /\ natural \in BOOLEAN /\ bound \in Cases
  /\ TasksOK(task) /\ LanesOK(lane) /\ Placed(lane, task) /\ AccountOK(account)
  /\ Attempted(natural, LiveOf(task), budget)
  /\ Books(LiveOf(task), CoversOf(lane), account, budget, CoverLimits)

-----------------------------------------------------------------------------
(* Tasks and lanes that change without a job being placed, served or dropped *)

SteadyTask(t, u) ==
  /\ t.phase = "queued" => u.phase = "queued" /\ u.lane = t.lane
  /\ t.phase \notin {"none", "queued"} => u.phase \notin {"none", "queued"}
MildTask(t, u) ==
  /\ t.phase \in {"none", "gone"} <=> u.phase \in {"none", "gone"}
  /\ SteadyTask(t, u)
Steady(T, U) == \A j \in Jobs : SteadyTask(T[j], U[j])
Mild(T, U) == \A j \in Jobs : MildTask(T[j], U[j])

QuietLane(l, m) ==
  /\ DOMAIN m = LaneFields /\ m.key = l.key /\ m.queue = l.queue /\ m.running \subseteq l.running
  /\ m.cover = "running" <=> l.cover = "running"
IdleLane(m) == LaneOK(m) /\ Waiting(m.queue) = {} /\ m.running = {} /\ m.cover # "running"
Quiet(W, V) ==
  /\ LanesOK(V) /\ DOMAIN W \subseteq DOMAIN V
  /\ \A i \in DOMAIN V : IF i \in DOMAIN W THEN QuietLane(W[i], V[i]) ELSE IdleLane(V[i])

\* One task changes.
LEMMA OneTask ==
  ASSUME NEW T, NEW U, NEW j \in Jobs, TasksOK(T), DOMAIN U = Jobs,
         \A k \in Jobs : k # j => U[k] = T[k], TaskOK(U[j]), MildTask(T[j], U[j])
  PROVE  TasksOK(U) /\ Mild(T, U)
BY DEF TasksOK, Mild, MildTask, SteadyTask

\* Tasks that do not change.
LEMMA SameTasks ==
  ASSUME NEW T, TasksOK(T)
  PROVE  Mild(T, T)
BY DEF Mild, MildTask, SteadyTask

\* A function on the domain of a sequence is a sequence.
LEMMA LanesStay ==
  ASSUME NEW W, LanesOK(W), NEW V, V = [i \in DOMAIN W |-> V[i]], \A i \in DOMAIN W : LaneOK(V[i])
  PROVE  LanesOK(V) /\ DOMAIN V = DOMAIN W
<1>1. DOMAIN V = DOMAIN W
  OBVIOUS
<1>2. W \in Seq(Range(W))
  BY DEF LanesOK
<1>3. \A i \in DOMAIN W : V[i] \in Range(V)
  BY <1>1 DEF Range
<1>4. V \in Seq(Range(V))
  <2>1. DOMAIN W = 1 .. Len(W) /\ Len(W) \in Nat
    BY <1>2, SMT
  <2>2. V \in [1 .. Len(W) -> Range(V)]
    BY <1>1, <1>3, <2>1
  <2> QED BY <2>1, <2>2, SMT
<1> QED BY <1>1, <1>4 DEF LanesOK

\* Lanes whose queues and cover do not change.
LEMMA QuietLanes ==
  ASSUME NEW W, LanesOK(W), NEW V, V = [i \in DOMAIN W |-> V[i]],
         \A i \in DOMAIN W : QuietLane(W[i], V[i])
  PROVE  Quiet(W, V)
<1>1. \A i \in DOMAIN W : LaneOK(V[i])
  BY DEF LanesOK, LaneOK, QuietLane
<1>2. LanesOK(V) /\ DOMAIN V = DOMAIN W
  BY <1>1, LanesStay
<1> QED BY <1>2 DEF Quiet

\* One lane changes.
LEMMA OneQuietLane ==
  ASSUME NEW W, LanesOK(W), NEW V, V = [i \in DOMAIN W |-> V[i]], NEW i,
         \A k \in DOMAIN W : k # i => V[k] = W[k], i \in DOMAIN W => QuietLane(W[i], V[i])
  PROVE  Quiet(W, V)
<1>1. \A k \in DOMAIN W : QuietLane(W[k], W[k])
  BY DEF QuietLane, LanesOK, LaneOK
<1>2. \A k \in DOMAIN W : QuietLane(W[k], V[k])
  BY <1>1
<1> QED BY <1>2, QuietLanes

\* Lanes that do not change.
LEMMA SameLanes ==
  ASSUME NEW W, LanesOK(W)
  PROVE  Quiet(W, W)
<1>1. \A k \in DOMAIN W : QuietLane(W[k], W[k])
  BY DEF QuietLane, LanesOK, LaneOK
<1> QED BY <1>1 DEF Quiet

\* A lane is added.
LEMMA NewQuietLane ==
  ASSUME NEW W, LanesOK(W), NEW l, IdleLane(l)
  PROVE  Quiet(W, Append(W, l))
<1> DEFINE V == Append(W, l)
           n == Len(W) + 1
           S == Range(W) \cup {l}
<1>1. W \in Seq(S)
  <2>1. W \in Seq(Range(W))
    BY DEF LanesOK
  <2>2. DOMAIN W = 1 .. Len(W) /\ Len(W) \in Nat /\ W \in [1 .. Len(W) -> Range(W)]
    BY <2>1, SMT
  <2>3. W \in [1 .. Len(W) -> S]
    BY <2>2
  <2> HIDE DEF S
  <2> QED BY <2>2, <2>3, SMT
<1>2. l \in S
  OBVIOUS
<1> HIDE DEF S
<1>3. /\ V \in Seq(S) /\ n \in DOMAIN V /\ V[n] = l /\ n \notin DOMAIN W
      /\ \A i \in DOMAIN V : i # n => i \in DOMAIN W
      /\ \A i \in DOMAIN W : i \in DOMAIN V /\ V[i] = W[i]
  BY <1>1, <1>2, SMT
<1>4. V \in Seq(Range(V))
  <2> HIDE DEF V
  <2>1. DOMAIN V = 1 .. Len(V) /\ Len(V) \in Nat /\ V \in [1 .. Len(V) -> S]
    BY <1>3, SMT
  <2>2. \A i \in 1 .. Len(V) : V[i] \in Range(V)
    BY <2>1 DEF Range
  <2>3. V \in [1 .. Len(V) -> Range(V)]
    BY <2>1, <2>2
  <2> QED BY <2>1, <2>3, SMT
<1> HIDE DEF V, n
<1>5. \A i \in DOMAIN V : LaneOK(V[i])
  BY <1>3 DEF LanesOK, IdleLane
<1>6. \A k \in DOMAIN W : QuietLane(W[k], W[k])
  BY DEF QuietLane, LanesOK, LaneOK
<1>7. Quiet(W, V)
  BY <1>3, <1>4, <1>5, <1>6 DEF Quiet, LanesOK
<1> QED BY <1>7 DEF V

\* Queued jobs stay where they are when lanes are quiet and tasks steady.
LEMMA StillPlaced ==
  ASSUME NEW W, NEW V, NEW T, NEW U, Placed(W, T), Quiet(W, V), Steady(T, U)
  PROVE  Placed(V, U)
<1>1. \A i \in DOMAIN V : /\ i \notin DOMAIN W => Waiting(V[i].queue) = {} /\ V[i].running = {}
                          /\ i \in DOMAIN W => V[i].queue = W[i].queue /\ V[i].running \subseteq W[i].running
  BY DEF Quiet, IdleLane, QuietLane
<1>2. ASSUME NEW i \in DOMAIN V, NEW j \in Waiting(V[i].queue)
      PROVE  j \in Jobs /\ U[j].phase = "queued" /\ U[j].lane = i
  <2>1. i \in DOMAIN W /\ j \in Waiting(W[i].queue)
    BY <1>1, <1>2
  <2>2. j \in Jobs /\ T[j].phase = "queued" /\ T[j].lane = i
    BY <2>1 DEF Placed
  <2> QED BY <2>2 DEF Steady, SteadyTask
<1>3. ASSUME NEW i \in DOMAIN V, NEW j \in V[i].running
      PROVE  j \in Jobs /\ U[j].phase \notin {"none", "queued"}
  <2>1. i \in DOMAIN W /\ j \in W[i].running
    BY <1>1, <1>3
  <2>2. j \in Jobs /\ T[j].phase \notin {"none", "queued"}
    BY <2>1 DEF Placed
  <2> QED BY <2>2 DEF Steady, SteadyTask
<1> QED BY <1>2, <1>3 DEF Placed

\* The cover in flight when lanes are quiet.
LEMMA SameCovers ==
  ASSUME NEW W, NEW V, Quiet(W, V)
  PROVE  CoversOf(V) = CoversOf(W)
<1>1. ASSUME NEW s \in Scopes PROVE Covering(V, s) = Covering(W, s)
  BY DEF Covering, Quiet, QuietLane, IdleLane
<1> QED BY <1>1 DEF CoversOf

\* The live jobs when tasks are mild.
LEMMA SameLive ==
  ASSUME NEW T, NEW U, Mild(T, U)
  PROVE  LiveOf(U) = LiveOf(T)
BY DEF Mild, MildTask, SteadyTask, LiveOf

\* A step that is quiet and mild and leaves the budget alone keeps the invariant.
LEMMA CalmStep ==
  ASSUME SInv, Quiet(lane, lane'), TasksOK(task'), Mild(task, task'),
         natural' = natural, bound' = bound, budget' = budget, account' = account
  PROVE  SInv'
<1>1. LanesOK(lane')
  BY DEF Quiet
<1>2. Placed(lane', task')
  <2>1. Steady(task, task')
    BY DEF Mild, MildTask, Steady
  <2> QED BY <2>1, StillPlaced DEF SInv
<1>3. CoversOf(lane') = CoversOf(lane) /\ LiveOf(task') = LiveOf(task)
  BY SameCovers, SameLive
<1>4. CoverLimits' = CoverLimits
  BY DEF CoverLimits
<1> QED BY <1>1, <1>2, <1>3, <1>4 DEF SInv

-----------------------------------------------------------------------------
(* Steps that place, serve and drop nothing *)

\* The jobs of a behaviour.
LEMMA BoundJobs ==
  ASSUME SInv, NEW j \in bound.jobs
  PROVE  j \in Jobs /\ Job[j].scope \in Scopes /\ Key(j).scope \in Scopes
<1>1. j \in Jobs
  BY SchedulerAssumption DEF SInv, Jobs
<1>2. Job[j].scope \in Scopes
  BY <1>1, SchedulerAssumption DEF Jobs
<1>3. Key(j).scope = Job[j].scope
  BY SMT DEF Key
<1> QED BY <1>1, <1>2, <1>3

\* A new lane is idle.
LEMMA NewLaneIdle ==
  ASSUME NEW k, k.scope \in Scopes, NEW auth, NEW m, NEW pin
  PROVE  IdleLane([NewLane(k, auth, m) EXCEPT !.pinned = pin])
<1> DEFINE l == NewLane(k, auth, m)
           q == NewQueue(IF k.admin THEN AdminCapacity ELSE Capacity)
           n == [l EXCEPT !.pinned = pin]
<1>1. DOMAIN l = LaneFields /\ l.key = k /\ l.queue = q /\ l.running = {} /\ l.cover = "none"
  BY SMT DEF NewLane, LaneFields
<1> HIDE DEF l
<1>2. /\ DOMAIN n = LaneFields /\ n.key = k /\ n.queue = q /\ n.running = {} /\ n.cover = "none"
  BY <1>1 DEF LaneFields
<1> HIDE DEF n
<1>3. QueueOK(q) /\ Waiting(q) = {}
  BY NewIsEmpty
<1>4. IdleLane(n)
  BY <1>2, <1>3 DEF IdleLane, LaneOK
<1> QED BY <1>4 DEF n, l

\* lane_for marks a lane or makes an idle one.
LEMMA LaneForQuiet ==
  ASSUME SInv, NEW k, k.scope \in Scopes, NEW auth, NEW pin, NEW id, LaneFor(k, auth, pin, id)
  PROVE  Quiet(lane, lane')
<1>1. LanesOK(lane)
  BY DEF SInv
<1>2. CASE lane' = [lane EXCEPT ![id].auth = @ \/ auth, ![id].pinned = @ \/ pin]
  <2>1. /\ lane' = [i \in DOMAIN lane |-> lane'[i]]
        /\ \A i \in DOMAIN lane : i # id => lane'[i] = lane[i]
    BY <1>2
  <2>2. id \in DOMAIN lane => QuietLane(lane[id], lane'[id])
    BY <1>1, <1>2 DEF QuietLane, LanesOK, LaneOK, LaneFields
  <2> QED BY <1>1, <2>1, <2>2, OneQuietLane, SMT
<1>3. CASE \E m : lane' = Append(lane, [NewLane(k, auth, m) EXCEPT !.pinned = pin])
  BY <1>1, <1>3, NewLaneIdle, NewQuietLane
<1> QED BY <1>2, <1>3 DEF LaneFor

\* Closing a lane leaves its queue to its worker.
LEMMA CloseKeysQuiet ==
  ASSUME SInv, NEW ks, CloseKeys(ks)
  PROVE  Quiet(lane, lane')
<1>1. LanesOK(lane)
  BY DEF SInv
<1> DEFINE ids == {lanes[k] : k \in ks}
<1>2. lane' = [i \in DOMAIN lane |-> IF i \in ids THEN Closed(lane[i]) ELSE lane[i]]
  BY DEF CloseKeys
<1> HIDE DEF ids
<1>3. lane' = [i \in DOMAIN lane |-> lane'[i]]
  BY <1>2
<1>4. ASSUME NEW i \in DOMAIN lane PROVE QuietLane(lane[i], lane'[i])
  <2>1. DOMAIN lane[i] = LaneFields
    BY <1>1 DEF LanesOK, LaneOK
  <2>2. QuietLane(lane[i], lane[i]) /\ QuietLane(lane[i], Closed(lane[i]))
    BY <2>1 DEF QuietLane, Closed, LaneFields
  <2> QED BY <1>2, <2>2
<1> QED BY <1>1, <1>3, <1>4, QuietLanes

\* The top of the loop of a worker only chooses where it waits.
LEMMA RoundKeeps ==
  ASSUME NEW l, DOMAIN l = LaneFields
  PROVE  /\ DOMAIN Round(l) = LaneFields /\ Round(l).key = l.key /\ Round(l).queue = l.queue
         /\ Round(l).running = l.running /\ Round(l).cover = l.cover
BY DEF Round, LaneFields

\* open_lane and close_lane.
LEMMA OpenCloseCalm ==
  ASSUME SInv, NEW j \in bound.jobs, OpenLane(j) \/ CloseLane(j)
  PROVE  SInv'
<1>1. TasksOK(task') /\ Mild(task, task')
  BY SameTasks DEF SInv, OpenLane, CloseLane
<1>2. Quiet(lane, lane')
  <2>1. CASE OpenLane(j)
    BY <2>1, BoundJobs, LaneForQuiet DEF OpenLane
  <2>2. CASE CloseLane(j)
    BY <2>2, CloseKeysQuiet DEF CloseLane
  <2> QED BY <2>1, <2>2
<1>3. natural' = natural /\ bound' = bound /\ budget' = budget /\ account' = account
  BY DEF OpenLane, CloseLane, setup
<1> QED BY <1>1, <1>2, <1>3, CalmStep

\* sweep_idle_lanes and the signal of a shutdown.
LEMMA SweepCalm ==
  ASSUME SInv, NEW s \in Scopes, Sweep(s) \/ Shutdown(s)
  PROVE  SInv'
<1>1. TasksOK(task') /\ Mild(task, task')
  BY SameTasks DEF SInv, Sweep, Shutdown
<1>2. Quiet(lane, lane')
  BY CloseKeysQuiet, SameLanes DEF Sweep, Shutdown, SInv
<1>3. natural' = natural /\ bound' = bound /\ budget' = budget /\ account' = account
  BY DEF Sweep, Shutdown, setup
<1> QED BY <1>1, <1>2, <1>3, CalmStep

\* A producer that is routed or refused.
LEMMA RefuseMild ==
  ASSUME SInv, NEW j \in Jobs, task[j].caller \in {"new", "routed"}, NEW why, Refuse(j, why)
  PROVE  TasksOK(task') /\ Mild(task, task')
<1>1. TasksOK(task) /\ TaskOK(task[j])
  BY DEF SInv, TasksOK
<1>2. /\ DOMAIN task' = Jobs /\ \A k \in Jobs : k # j => task'[k] = task[k]
      /\ DOMAIN task'[j] = DOMAIN task[j] /\ task'[j].phase = task[j].phase
      /\ task'[j].sent = task[j].sent /\ task'[j].wire = task[j].wire /\ task'[j].caller = "done"
  BY <1>1 DEF Refuse, TasksOK, TaskOK, TaskFields
<1>3. task[j].phase = "none"
  BY <1>1 DEF TaskOK
<1>4. TaskOK(task'[j]) /\ MildTask(task[j], task'[j])
  BY <1>1, <1>2, <1>3 DEF TaskOK, MildTask, SteadyTask
<1> QED BY <1>1, <1>2, <1>4, OneTask

\* A producer finds the lane of its job.
LEMMA RouteCalm ==
  ASSUME SInv, NEW j \in bound.jobs, Route(j)
  PROVE  SInv'
<1>1. j \in Jobs /\ TasksOK(task) /\ TaskOK(task[j]) /\ task[j].caller = "new"
  BY BoundJobs DEF SInv, TasksOK, Route
<1>2. PICK id : LaneFor(Key(j), LaneAuth(j), FALSE, id)
                /\ task' = [task EXCEPT ![j].caller = "routed", ![j].lane = id]
  BY DEF Route
<1>3. /\ DOMAIN task' = Jobs /\ \A k \in Jobs : k # j => task'[k] = task[k]
      /\ DOMAIN task'[j] = DOMAIN task[j] /\ task'[j].phase = task[j].phase
      /\ task'[j].sent = task[j].sent /\ task'[j].wire = task[j].wire
  BY <1>1, <1>2 DEF TasksOK, TaskOK, TaskFields
<1>4. task[j].phase = "none"
  BY <1>1 DEF TaskOK
<1>5. TaskOK(task'[j]) /\ MildTask(task[j], task'[j])
  BY <1>1, <1>3, <1>4 DEF TaskOK, MildTask, SteadyTask
<1>6. TasksOK(task') /\ Mild(task, task')
  BY <1>1, <1>3, <1>5, OneTask
<1>7. Quiet(lane, lane')
  BY <1>2, BoundJobs, LaneForQuiet
<1>8. natural' = natural /\ bound' = bound /\ budget' = budget /\ account' = account
  BY DEF Route, setup
<1> QED BY <1>6, <1>7, <1>8, CalmStep

\* A producer that is refused, or tries again, reserves nothing.
LEMMA RefusedCalm ==
  ASSUME SInv, NEW j \in bound.jobs, NoRoute(j) \/ NotAdmitted(j)
  PROVE  SInv'
<1>1. j \in Jobs /\ TasksOK(task) /\ TaskOK(task[j]) /\ task[j].caller \in {"new", "routed"}
  BY BoundJobs DEF SInv, TasksOK, NoRoute, NotAdmitted
<1>2. /\ natural' = natural /\ bound' = bound /\ account' = account
      /\ \/ \E why : Refuse(j, why)
         \/ task' = [task EXCEPT ![j].caller = "new", ![j].lane = NoLane] /\ UNCHANGED <<lane, budget>>
  BY DEF NoRoute, NotAdmitted, setup
<1>3. lane' = lane /\ budget' = budget
  BY <1>2 DEF Refuse
<1>4. TasksOK(task') /\ Mild(task, task')
  <2>1. CASE \E why : Refuse(j, why)
    BY <1>1, <2>1, RefuseMild
  <2>2. CASE task' = [task EXCEPT ![j].caller = "new", ![j].lane = NoLane]
    <3>1. /\ DOMAIN task' = Jobs /\ \A k \in Jobs : k # j => task'[k] = task[k]
          /\ DOMAIN task'[j] = DOMAIN task[j] /\ task'[j].phase = task[j].phase
          /\ task'[j].sent = task[j].sent /\ task'[j].wire = task[j].wire
      BY <1>1, <2>2 DEF TasksOK, TaskOK, TaskFields
    <3>2. task[j].phase = "none"
      BY <1>1 DEF TaskOK
    <3>3. TaskOK(task'[j]) /\ MildTask(task[j], task'[j])
      BY <1>1, <3>1, <3>2 DEF TaskOK, MildTask, SteadyTask
    <3> QED BY <1>1, <3>1, <3>3, OneTask
  <2> QED BY <1>2, <2>1, <2>2
<1>5. Quiet(lane, lane')
  BY <1>3, SameLanes DEF SInv
<1> QED BY <1>2, <1>3, <1>4, <1>5, CalmStep

\* A producer returns once it has notified the worker.
LEMMA TouchCalm ==
  ASSUME SInv, NEW j \in bound.jobs, Touch(j)
  PROVE  SInv'
<1>1. j \in Jobs /\ TasksOK(task) /\ TaskOK(task[j]) /\ LanesOK(lane)
  BY BoundJobs DEF SInv, TasksOK
<1>2. task' = [task EXCEPT ![j].caller = "done",
                           ![j].lane = IF task[j].phase = "gone" THEN NoLane ELSE @]
  BY DEF Touch
<1>3. /\ DOMAIN task' = Jobs /\ \A k \in Jobs : k # j => task'[k] = task[k]
      /\ DOMAIN task'[j] = DOMAIN task[j] /\ task'[j].phase = task[j].phase
      /\ task'[j].sent = task[j].sent /\ task'[j].wire = task[j].wire /\ task'[j].caller = "done"
      /\ task[j].phase # "gone" => task'[j].lane = task[j].lane
  BY <1>1, <1>2 DEF TasksOK, TaskOK, TaskFields
<1>4. TaskOK(task'[j]) /\ MildTask(task[j], task'[j])
  BY <1>1, <1>3 DEF TaskOK, MildTask, SteadyTask
<1>5. TasksOK(task') /\ Mild(task, task')
  BY <1>1, <1>3, <1>4, OneTask
<1> DEFINE i == task[j].lane
<1>6. lane' = [lane EXCEPT ![i] = Touched(lane[i])]
  BY DEF Touch
<1> HIDE DEF i
<1>7. lane' = [k \in DOMAIN lane |-> lane'[k]] /\ \A k \in DOMAIN lane : k # i => lane'[k] = lane[k]
  BY <1>6
<1>8. i \in DOMAIN lane => QuietLane(lane[i], lane'[i])
  BY <1>1, <1>6 DEF QuietLane, Touched, LanesOK, LaneOK, LaneFields
<1>9. Quiet(lane, lane')
  BY <1>1, <1>7, <1>8, OneQuietLane, SMT
<1>10. natural' = natural /\ bound' = bound /\ budget' = budget /\ account' = account
  BY DEF Touch, setup
<1> QED BY <1>5, <1>9, <1>10, CalmStep

\* A worker is warmed or woken: it reaps a finished task or consumes a notification.
LEMMA WakeCalm ==
  ASSUME SInv, NEW i \in DOMAIN lane, Warm(i) \/ Wake(i)
  PROVE  SInv'
<1>1. LanesOK(lane) /\ DOMAIN lane[i] = LaneFields
  BY DEF SInv, LanesOK, LaneOK
<1>2. TasksOK(task') /\ Mild(task, task')
  BY SameTasks DEF SInv, Warm, Wake
<1>3. PICK m : lane' = [lane EXCEPT ![i] = m] /\ QuietLane(lane[i], m)
  <2> DEFINE l == lane[i]
  <2>1. CASE lane' = [lane EXCEPT ![i] = Round(l)]
    <3>1. QuietLane(l, Round(l))
      BY <1>1, RoundKeeps DEF QuietLane
    <3> QED BY <2>1, <3>1
  <2>2. CASE lane' = [lane EXCEPT ![i].permit = FALSE]
    <3> DEFINE m == [lane[i] EXCEPT !.permit = FALSE]
    <3>1. lane' = [lane EXCEPT ![i] = m]
      BY <2>2
    <3>2. QuietLane(l, m)
      BY <1>1 DEF QuietLane, LaneFields
    <3> HIDE DEF m
    <3> QED BY <3>1, <3>2
  <2>3. ASSUME NEW j, lane' = [lane EXCEPT ![i] = Round([l EXCEPT !.running = @ \ {j}])]
        PROVE  \E m : lane' = [lane EXCEPT ![i] = m] /\ QuietLane(lane[i], m)
    <3> DEFINE n == [l EXCEPT !.running = l.running \ {j}]
    <3>1. /\ DOMAIN n = LaneFields /\ n.key = l.key /\ n.queue = l.queue
          /\ n.running \subseteq l.running /\ n.cover = l.cover
      BY <1>1 DEF LaneFields
    <3>2. lane' = [lane EXCEPT ![i] = Round(n)]
      BY <2>3
    <3> HIDE DEF n
    <3>3. QuietLane(l, Round(n))
      BY <3>1, RoundKeeps DEF QuietLane
    <3> QED BY <3>2, <3>3
  <2>4. CASE l.cover = "finished" /\ lane' = [lane EXCEPT ![i] = Round([l EXCEPT !.cover = "none"])]
    <3> DEFINE n == [l EXCEPT !.cover = "none"]
    <3>1. /\ DOMAIN n = LaneFields /\ n.key = l.key /\ n.queue = l.queue
          /\ n.running \subseteq l.running /\ n.cover = "none"
      BY <1>1 DEF LaneFields
    <3>2. lane' = [lane EXCEPT ![i] = Round(n)]
      BY <2>4
    <3> HIDE DEF n
    <3>3. QuietLane(l, Round(n))
      BY <2>4, <3>1, RoundKeeps DEF QuietLane
    <3> QED BY <3>2, <3>3
  <2>5. CASE lane' = [lane EXCEPT ![i] = Round([l EXCEPT !.permit = FALSE])]
    <3> DEFINE n == [l EXCEPT !.permit = FALSE]
    <3>1. /\ DOMAIN n = LaneFields /\ n.key = l.key /\ n.queue = l.queue
          /\ n.running \subseteq l.running /\ n.cover = l.cover
      BY <1>1 DEF LaneFields
    <3>2. lane' = [lane EXCEPT ![i] = Round(n)]
      BY <2>5
    <3> HIDE DEF n
    <3>3. QuietLane(l, Round(n))
      BY <3>1, RoundKeeps DEF QuietLane
    <3> QED BY <3>2, <3>3
  <2> QED BY <2>1, <2>2, <2>3, <2>4, <2>5 DEF Warm, Wake
<1>4. Quiet(lane, lane')
  <2>1. /\ lane' = [k \in DOMAIN lane |-> lane'[k]] /\ \A k \in DOMAIN lane : k # i => lane'[k] = lane[k]
        /\ QuietLane(lane[i], lane'[i])
    BY <1>3
  <2> QED BY <1>1, <2>1, OneQuietLane, SMT
<1>5. natural' = natural /\ bound' = bound /\ budget' = budget /\ account' = account
  BY DEF Warm, Wake, setup
<1> QED BY <1>2, <1>4, <1>5, CalmStep

-----------------------------------------------------------------------------
(* Sending tasks *)

Busy == {"resolve", "probe", "send", "observe", "answer", "answered"}

\* A sending task moves on.
LEMMA SendCalm ==
  ASSUME SInv, NEW j \in Jobs, task[j].phase \in Busy, DOMAIN task' = Jobs,
         \A k \in Jobs : k # j => task'[k] = task[k],
         DOMAIN task'[j] = TaskFields, task'[j].caller = task[j].caller, task'[j].phase \in Busy,
         task'[j].sent = {} \/ (task'[j].wire # 0 /\ task'[j].sent = {task'[j].wire}),
         UNCHANGED <<setup, lane, budget, account>>
  PROVE  SInv'
<1>1. TasksOK(task) /\ TaskOK(task[j]) /\ LanesOK(lane)
  BY DEF SInv, TasksOK
<1>2. task[j].caller \notin {"new", "routed"}
  BY <1>1 DEF TaskOK, Busy
<1>3. TaskOK(task'[j]) /\ MildTask(task[j], task'[j])
  BY <1>2 DEF TaskOK, MildTask, SteadyTask, Busy
<1>4. TasksOK(task') /\ Mild(task, task')
  BY <1>1, <1>3, OneTask
<1>5. Quiet(lane, lane')
  BY <1>1, SameLanes
<1> QED BY <1>4, <1>5, CalmStep DEF setup

\* Memo::resolve up to its first await.
LEMMA ResolveCalm ==
  ASSUME SInv, NEW j \in bound.jobs, Resolve(j)
  PROVE  SInv'
<1>1. j \in Jobs /\ TasksOK(task) /\ TaskOK(task[j]) /\ task[j].phase = "resolve"
  BY BoundJobs DEF SInv, TasksOK, Resolve
<1>2. /\ UNCHANGED <<setup, lane, budget, account>>
      /\ \/ task' = [task EXCEPT ![j].phase = "send"]
         \/ task' = [task EXCEPT ![j].phase = "answer", ![j].outcome = "Failed"]
         \/ task' = [task EXCEPT ![j].phase = "probe"]
  BY DEF Resolve, Proceed, FailNow
<1>3. /\ DOMAIN task' = Jobs /\ \A k \in Jobs : k # j => task'[k] = task[k]
      /\ DOMAIN task'[j] = TaskFields /\ task'[j].caller = task[j].caller
      /\ task'[j].phase \in Busy /\ task'[j].sent = task[j].sent /\ task'[j].wire = task[j].wire
  <2>1. CASE task' = [task EXCEPT ![j].phase = "send"]
    BY <1>1, <2>1 DEF TasksOK, TaskOK, TaskFields, Busy
  <2>2. CASE task' = [task EXCEPT ![j].phase = "answer", ![j].outcome = "Failed"]
    BY <1>1, <2>2 DEF TasksOK, TaskOK, TaskFields, Busy
  <2>3. CASE task' = [task EXCEPT ![j].phase = "probe"]
    BY <1>1, <2>3 DEF TasksOK, TaskOK, TaskFields, Busy
  <2> QED BY <1>2, <2>1, <2>2, <2>3
<1>4. task[j].phase \in Busy /\ (task[j].sent = {} \/ (task[j].wire # 0 /\ task[j].sent = {task[j].wire}))
  BY <1>1 DEF Busy, TaskOK
<1>5. task'[j].sent = {} \/ (task'[j].wire # 0 /\ task'[j].sent = {task'[j].wire})
  BY <1>3, <1>4
<1> QED BY <1>1, <1>2, <1>3, <1>4, <1>5, SendCalm, SMT

\* Memo::resolve once the probe has ended.
LEMMA ProbeCalm ==
  ASSUME SInv, NEW j \in bound.jobs, Probe(j)
  PROVE  SInv'
<1>1. j \in Jobs /\ TasksOK(task) /\ TaskOK(task[j]) /\ task[j].phase = "probe"
  BY BoundJobs DEF SInv, TasksOK, Probe
<1>2. PICK ok \in BOOLEAN :
         task' = [task EXCEPT ![j].phase = IF ok THEN "send" ELSE "answer",
                              ![j].outcome = IF ok THEN @ ELSE "Failed"]
  BY DEF Probe
<1>3. UNCHANGED <<setup, lane, budget, account>>
  BY DEF Probe
<1>4. /\ DOMAIN task' = Jobs /\ \A k \in Jobs : k # j => task'[k] = task[k]
      /\ DOMAIN task'[j] = TaskFields /\ task'[j].caller = task[j].caller
      /\ task'[j].phase \in Busy /\ task'[j].sent = task[j].sent /\ task'[j].wire = task[j].wire
  BY <1>1, <1>2 DEF TasksOK, TaskOK, TaskFields, Busy
<1>5. task[j].phase \in Busy /\ (task[j].sent = {} \/ (task[j].wire # 0 /\ task[j].sent = {task[j].wire}))
  BY <1>1 DEF Busy, TaskOK
<1>6. task'[j].sent = {} \/ (task'[j].wire # 0 /\ task'[j].sent = {task'[j].wire})
  BY <1>4, <1>5
<1> QED BY <1>1, <1>3, <1>4, <1>5, <1>6, SendCalm, SMT

\* The envelope that is sent is the one that was sent before.
LEMMA DeliverCalm ==
  ASSUME SInv, NEW j \in bound.jobs, Deliver(j)
  PROVE  SInv'
<1> DEFINE w == Prepared(j)
<1>1. j \in Jobs /\ TasksOK(task) /\ TaskOK(task[j]) /\ task[j].phase = "send"
  BY BoundJobs DEF SInv, TasksOK, Deliver
<1>2. task' = [task EXCEPT ![j].wire = w, ![j].sent = @ \cup {w}] /\ UNCHANGED <<setup, lane, budget, account>>
  BY DEF Deliver
<1>3. w # 0 /\ (task[j].sent = {} \/ task[j].sent = {w})
  <2>1. w = IF task[j].wire = 0 THEN 1 ELSE task[j].wire
    BY DEF Prepared
  <2>2. task[j].sent = {} \/ (task[j].wire # 0 /\ task[j].sent = {task[j].wire})
    BY <1>1 DEF TaskOK
  <2> HIDE DEF w
  <2> QED BY <2>1, <2>2, SMT
<1> HIDE DEF w
<1>4. /\ DOMAIN task' = Jobs /\ \A k \in Jobs : k # j => task'[k] = task[k]
      /\ DOMAIN task'[j] = TaskFields /\ task'[j].caller = task[j].caller
      /\ task'[j].phase = task[j].phase /\ task'[j].sent = task[j].sent \cup {w} /\ task'[j].wire = w
  BY <1>1, <1>2 DEF TasksOK, TaskOK, TaskFields
<1>5. task[j].phase \in Busy /\ task'[j].phase \in Busy
  BY <1>1, <1>4 DEF Busy
<1>6. task'[j].wire # 0 /\ task'[j].sent = {task'[j].wire}
  BY <1>3, <1>4
<1> QED BY <1>1, <1>2, <1>4, <1>5, <1>6, SendCalm, SMT

\* A connect error leaves the prepared envelope.
LEMMA ReconnectCalm ==
  ASSUME SInv, NEW j \in bound.jobs, Reconnect(j)
  PROVE  SInv'
<1>1. j \in Jobs /\ TasksOK(task) /\ TaskOK(task[j]) /\ task[j].phase = "send"
  BY BoundJobs DEF SInv, TasksOK, Reconnect
<1>2. task' = [task EXCEPT ![j].tries = @ + 1] /\ UNCHANGED <<setup, lane, budget, account>>
  BY DEF Reconnect
<1>3. /\ DOMAIN task' = Jobs /\ \A k \in Jobs : k # j => task'[k] = task[k]
      /\ DOMAIN task'[j] = TaskFields /\ task'[j].caller = task[j].caller
      /\ task'[j].phase = task[j].phase /\ task'[j].sent = task[j].sent /\ task'[j].wire = task[j].wire
  BY <1>1, <1>2 DEF TasksOK, TaskOK, TaskFields
<1>4. task[j].phase \in Busy /\ task'[j].phase \in Busy
      /\ (task[j].sent = {} \/ (task[j].wire # 0 /\ task[j].sent = {task[j].wire}))
  BY <1>1, <1>3 DEF Busy, TaskOK
<1>5. task'[j].sent = {} \/ (task'[j].wire # 0 /\ task'[j].sent = {task'[j].wire})
  BY <1>3, <1>4
<1> QED BY <1>1, <1>2, <1>3, <1>4, <1>5, SendCalm, SMT

\* The end of a send.
LEMMA SendEndsCalm ==
  ASSUME SInv, NEW j \in bound.jobs, SendEnds(j)
  PROVE  SInv'
<1>1. j \in Jobs /\ TasksOK(task) /\ TaskOK(task[j]) /\ task[j].phase = "send"
  BY BoundJobs DEF SInv, TasksOK, SendEnds
<1>2. PICK o : task' = [task EXCEPT ![j].phase = IF natural THEN "observe" ELSE "answer",
                               ![j].outcome = o, ![j].tries = 0, ![j].wire = 0,
                               ![j].sent = {}]
  BY DEF SendEnds
<1>3. UNCHANGED <<setup, lane, budget, account>>
  BY DEF SendEnds
<1>4. /\ DOMAIN task' = Jobs /\ \A k \in Jobs : k # j => task'[k] = task[k]
      /\ DOMAIN task'[j] = TaskFields /\ task'[j].caller = task[j].caller
      /\ task'[j].phase \in Busy /\ task'[j].sent = {}
  BY <1>1, <1>2 DEF TasksOK, TaskOK, TaskFields, Busy
<1>5. task[j].phase \in Busy
  BY <1>1 DEF Busy
<1> QED BY <1>1, <1>3, <1>4, <1>5, SendCalm, SMT

\* The producer learns the outcome while the reservation is still held.
LEMMA AnswerCalm ==
  ASSUME SInv, NEW j \in bound.jobs, Answer(j)
  PROVE  SInv'
<1>1. j \in Jobs /\ TasksOK(task) /\ TaskOK(task[j]) /\ task[j].phase \in {"observe", "answer"}
  BY BoundJobs DEF SInv, TasksOK, Answer
<1>2. PICK o : task' = [task EXCEPT ![j].phase = "answered", ![j].receipt = o]
  BY DEF Answer
<1>3. UNCHANGED <<setup, lane, budget, account>>
  BY DEF Answer
<1>4. /\ DOMAIN task' = Jobs /\ \A k \in Jobs : k # j => task'[k] = task[k]
      /\ DOMAIN task'[j] = TaskFields /\ task'[j].caller = task[j].caller
      /\ task'[j].phase = "answered" /\ task'[j].sent = task[j].sent /\ task'[j].wire = task[j].wire
  BY <1>1, <1>2 DEF TasksOK, TaskOK, TaskFields, Busy
<1>5. task[j].phase \in Busy /\ task'[j].phase \in Busy
      /\ (task[j].sent = {} \/ (task[j].wire # 0 /\ task[j].sent = {task[j].wire}))
  BY <1>1, <1>4 DEF Busy, TaskOK
<1>6. task'[j].sent = {} \/ (task'[j].wire # 0 /\ task'[j].sent = {task'[j].wire})
  BY <1>4, <1>5
<1> QED BY <1>1, <1>3, <1>4, <1>5, <1>6, SendCalm, SMT
=============================================================================
