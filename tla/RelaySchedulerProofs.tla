------------------------- MODULE RelaySchedulerProofs -------------------------
(* The relay scheduler: one live attempt for a ciphertext, one envelope for a    *)
(* job, a shared budget that is what its holders own, and room for cover.        *)
EXTENDS RelayLanesProofs

USE Zenon

-----------------------------------------------------------------------------
(* The budget *)

\* Jobs are finite, and so is what they weigh.
LEMMA JobsCount ==
  ASSUME NEW L \in SUBSET Jobs
  PROVE  IsFiniteSet(L) /\ Cardinality(L) \in Nat /\ Bytes(L) \in Nat
<1>1. IsFiniteSet(L) /\ Cardinality(L) \in Nat
  BY SchedulerAssumption, FS_Subset, FS_CardinalityType DEF Jobs
<1> DEFINE f == [j \in L |-> Job[j].bytes]
<1>2. \A j \in L : f[j] \in Nat
  BY SchedulerAssumption DEF Jobs
<1> HIDE DEF f
<1>3. SumFunctionOnSet(f, L) \in Nat
  BY <1>1, <1>2, SumNat, SMT
<1> QED BY <1>1, <1>3 DEF Bytes, f

\* The weight of jobs as a sum over a fixed function.
LEMMA BytesAll ==
  ASSUME NEW L \in SUBSET Jobs
  PROVE  Bytes(L) = SumFunctionOnSet([j \in Jobs |-> Job[j].bytes], L)
<1> DEFINE f == [j \in L |-> Job[j].bytes]
           g == [j \in Jobs |-> Job[j].bytes]
<1>1. \A j \in L : f[j] = g[j]
  OBVIOUS
<1> HIDE DEF f, g
<1>2. SumFunctionOnSet(f, L) = SumFunctionOnSet(g, L)
  BY <1>1, JobsCount, SumSame, SMT
<1> QED BY <1>2 DEF Bytes, f, g

\* A job joins the live ones.
LEMMA OneMore ==
  ASSUME NEW L \in SUBSET Jobs, NEW j \in Jobs, j \notin L
  PROVE  /\ Cardinality(L \cup {j}) = Cardinality(L) + 1
         /\ Bytes(L \cup {j}) = Bytes(L) + Job[j].bytes
<1> DEFINE g == [x \in Jobs |-> Job[x].bytes]
           M == L \cup {j}
<1>1. M \in SUBSET Jobs
  OBVIOUS
<1>2. Cardinality(M) = Cardinality(L) + 1
  BY JobsCount, FS_AddElement
<1>3. Bytes(L) = SumFunctionOnSet(g, L) /\ Bytes(M) = SumFunctionOnSet(g, M)
  BY <1>1, BytesAll
<1>4. g[j] = Job[j].bytes /\ \A z \in L \cup {j} : g[z] \in Nat
  BY SchedulerAssumption DEF Jobs
<1> HIDE DEF g
<1>5. SumFunctionOnSet(g, L \cup {j}) = g[j] + SumFunctionOnSet(g, L)
  BY <1>4, JobsCount, SumAdd, SMT
<1>6. Bytes(L) \in Nat /\ Job[j].bytes \in Nat
  BY JobsCount, SchedulerAssumption DEF Jobs
<1>7. Bytes(M) = Bytes(L) + Job[j].bytes
  <2>1. Bytes(M) = Job[j].bytes + Bytes(L)
    BY <1>3, <1>4, <1>5
  <2> QED BY <1>6, <2>1, SMT
<1> QED BY <1>2, <1>7

\* Jobs leave the live ones.
LEMMA SomeLess ==
  ASSUME NEW L \in SUBSET Jobs, NEW js \in SUBSET L
  PROVE  /\ Cardinality(L \ js) = Cardinality(L) - Cardinality(js)
         /\ Bytes(L \ js) = Bytes(L) - Bytes(js)
<1> DEFINE g == [x \in Jobs |-> Job[x].bytes]
           M == L \ js
<1>1. M \in SUBSET Jobs /\ js \in SUBSET Jobs /\ L \cap js = js
  OBVIOUS
<1>2. Cardinality(M) = Cardinality(L) - Cardinality(js)
  BY <1>1, JobsCount, FS_Difference
<1>3. /\ Bytes(L) = SumFunctionOnSet(g, L) /\ Bytes(M) = SumFunctionOnSet(g, M)
      /\ Bytes(js) = SumFunctionOnSet(g, js)
  BY <1>1, BytesAll
<1>4. \A z \in L : g[z] \in Nat
  BY SchedulerAssumption DEF Jobs
<1> HIDE DEF g
<1>5. SumFunctionOnSet(g, L) = SumFunctionOnSet(g, js) + SumFunctionOnSet(g, L \ js)
  BY <1>4, JobsCount, SumSplit, SMT
<1>6. Bytes(L) \in Nat /\ Bytes(M) \in Nat /\ Bytes(js) \in Nat
  BY <1>1, JobsCount
<1>7. Bytes(L) = Bytes(js) + Bytes(M)
  BY <1>3, <1>5
<1>8. Bytes(M) = Bytes(L) - Bytes(js)
  BY <1>6, <1>7, SMT
<1> QED BY <1>2, <1>8

\* One job is its own weight.
LEMMA OneJob ==
  ASSUME NEW j \in Jobs
  PROVE  Cardinality({j}) = 1 /\ Bytes({j}) = Job[j].bytes
<1>1. Cardinality({}) = 0 /\ Bytes({}) = 0
  <2>1. Cardinality({}) = 0
    BY FS_EmptySet
  <2> QED BY <2>1, SumEmpty DEF Bytes
<1>2. {} \in SUBSET Jobs /\ j \notin {} /\ {} \cup {j} = {j}
  OBVIOUS
<1>3. Cardinality({j}) = Cardinality({}) + 1 /\ Bytes({j}) = Bytes({}) + Job[j].bytes
  BY <1>2, OneMore, SMT
<1>4. Job[j].bytes \in Nat
  BY SchedulerAssumption DEF Jobs
<1> QED BY <1>1, <1>3, <1>4, SMT

\* The cover allowance and what is used of it.
LEMMA TotalNat ==
  ASSUME NEW C, \A s \in Scopes : C[s] \in Nat
  PROVE  Total(C) \in Nat
BY SchedulerAssumption, SumNat, SMT DEF Total

\* A scope that may have more cover makes the sum larger.
LEMMA TotalMonotone ==
  ASSUME NEW C, NEW D, \A s \in Scopes : C[s] \in Nat /\ D[s] \in Nat /\ C[s] <= D[s]
  PROVE  /\ Total(C) <= Total(D)
         /\ \A s \in Scopes : C[s] < D[s] => Total(C) + 1 <= Total(D)
BY SchedulerAssumption, SumMonotone, SumStrict, SMT DEF Total

\* The sum when the cover of one scope changes.
LEMMA TotalChange ==
  ASSUME NEW C, NEW D, NEW s \in Scopes, \A z \in Scopes : C[z] \in Nat /\ D[z] \in Nat,
         \A z \in Scopes : z # s => D[z] = C[z]
  PROVE  Total(D) = Total(C) - C[s] + D[s]
BY SchedulerAssumption, SumChange, SMT DEF Total

LimitsOK(lim) == \A s \in Scopes : lim[s] \in Nat

\* What an update of the outbox adds.
LEMMA GrowthIsNat ==
  ASSUME NEW u, NEW v, UsageOK(u), UsageOK(v)
  PROVE  /\ UsageOK(Growth(u, v))
         /\ Growth(u, v).items = Less(u.items, v.items) /\ Growth(u, v).bytes = Less(u.bytes, v.bytes)
<1>1. Growth(u, v).items = Less(u.items, v.items) /\ Growth(u, v).bytes = Less(u.bytes, v.bytes)
  BY SMT DEF Growth
<1>2. Less(u.items, v.items) \in Nat /\ Less(u.bytes, v.bytes) \in Nat
  BY SMT DEF Less, UsageOK
<1> QED BY <1>1, <1>2 DEF UsageOK

\* What the outbox retains, an update that is being staged included.
LEMMA AccountIsNat ==
  ASSUME NEW A, AccountOK(A)
  PROVE  /\ UsageOK(A.growth) /\ UsageOK(A.usage) /\ UsageOK(A.next)
         /\ Items(A) \in Nat /\ Size(A) \in Nat
<1>1. UsageOK(A.usage) /\ UsageOK(A.next)
  BY DEF AccountOK
<1>2. UsageOK(A.growth)
  <2>1. UsageOK(NoUsage)
    BY SMT DEF UsageOK, NoUsage
  <2> QED BY <1>1, <2>1, GrowthIsNat DEF AccountOK
<1>3. Items(A) \in Nat /\ Size(A) \in Nat
  BY <1>1, <1>2, SMT DEF UsageOK, Items, Size
<1> QED BY <1>1, <1>2, <1>3

\* The numbers of the books.
LEMMA BooksAreNat ==
  ASSUME NEW L, NEW C, NEW A, NEW b, NEW lim, Books(L, C, A, b, lim), LimitsOK(lim), AccountOK(A)
  PROVE  /\ L \in SUBSET Jobs /\ Cardinality(L) \in Nat /\ Bytes(L) \in Nat
         /\ Total(C) \in Nat /\ Total(lim) \in Nat /\ Total(C) <= Total(lim)
         /\ Items(A) \in Nat /\ Size(A) \in Nat /\ COVER_BYTES \in Nat
         /\ MAX_JOBS \in Nat /\ MAX_BYTES \in Nat
<1>1. L \in SUBSET Jobs
  BY DEF Books
<1>2. \A s \in Scopes : C[s] \in Nat /\ lim[s] \in Nat /\ C[s] <= lim[s]
  BY DEF Books, LimitsOK
<1>3. Total(C) \in Nat /\ Total(lim) \in Nat /\ Total(C) <= Total(lim)
  BY <1>2, TotalNat, TotalMonotone
<1>4. COVER_BYTES \in Nat /\ MAX_JOBS \in Nat /\ MAX_BYTES \in Nat
  BY SchedulerAssumption, SMT
<1> QED BY <1>1, <1>3, <1>4, JobsCount, AccountIsNat

\* The limits hold: the payload and the cover in use fit beside each other.
LEMMA WithinLimits ==
  ASSUME NEW L, NEW C, NEW A, NEW b, NEW lim, Books(L, C, A, b, lim), LimitsOK(lim), AccountOK(A)
  PROVE  /\ b.jobs <= MAX_JOBS - Total(lim) + Total(C)
         /\ b.bytes <= MAX_BYTES - Total(lim) * COVER_BYTES + COVER_BYTES * Total(C)
         /\ b.jobs <= MAX_JOBS /\ b.bytes <= MAX_BYTES /\ b.jobs \in Nat /\ b.bytes \in Nat
<1> DEFINE t == Total(C)
           m == Total(lim)
           n == Cardinality(L)
           z == Bytes(L)
           u == Items(A)
           w == Size(A)
<1>1. /\ t \in Nat /\ m \in Nat /\ t <= m /\ n \in Nat /\ z \in Nat /\ u \in Nat /\ w \in Nat
      /\ COVER_BYTES \in Nat /\ MAX_JOBS \in Nat /\ MAX_BYTES \in Nat
  BY BooksAreNat
<1>2. /\ b.jobs = n + t + u /\ b.bytes = z + COVER_BYTES * t + w
      /\ n + u <= MAX_JOBS - m /\ z + w <= MAX_BYTES - m * COVER_BYTES
  BY DEF Books
<1> HIDE DEF t, m, n, z, u, w
<1>3. COVER_BYTES * t <= m * COVER_BYTES /\ COVER_BYTES * t \in Nat /\ m * COVER_BYTES \in Nat
  BY <1>1, SMT
<1>4. b.jobs <= MAX_JOBS - m + t /\ b.jobs <= MAX_JOBS /\ b.jobs \in Nat
  BY <1>1, <1>2, SMT
<1>5. b.bytes <= MAX_BYTES - m * COVER_BYTES + COVER_BYTES * t /\ b.bytes <= MAX_BYTES /\ b.bytes \in Nat
  <2> DEFINE p == COVER_BYTES * t
             q == m * COVER_BYTES
  <2>1. p \in Nat /\ q \in Nat /\ p <= q /\ b.bytes = z + p + w /\ z + w <= MAX_BYTES - q
    BY <1>2, <1>3, SMT
  <2> HIDE DEF p, q
  <2>2. b.bytes <= MAX_BYTES - q + p /\ b.bytes <= MAX_BYTES /\ b.bytes \in Nat
    BY <1>1, <2>1, SMT
  <2> QED BY <2>2, SMT DEF p, q
<1> QED BY <1>4, <1>5 DEF t, m

\* What DataFits leaves for payload.
LEMMA FitsData ==
  ASSUME NEW L, NEW C, NEW A, NEW b, NEW lim, Books(L, C, A, b, lim), LimitsOK(lim), AccountOK(A),
         NEW n \in Nat, NEW z \in Nat, DataFits(b, n, z, lim)
  PROVE  /\ Cardinality(L) + Items(A) + n <= MAX_JOBS - Total(lim)
         /\ Bytes(L) + Size(A) + z <= MAX_BYTES - Total(lim) * COVER_BYTES
<1> DEFINE t == Total(C)
           m == Total(lim)
           c == Cardinality(L)
           y == Bytes(L)
           u == Items(A)
           w == Size(A)
           p == COVER_BYTES * t
           q == m * COVER_BYTES
<1>1. /\ t \in Nat /\ m \in Nat /\ c \in Nat /\ y \in Nat /\ u \in Nat /\ w \in Nat
      /\ COVER_BYTES \in Nat /\ MAX_JOBS \in Nat /\ MAX_BYTES \in Nat
  BY BooksAreNat
<1>2. /\ b.jobs = c + t + u /\ b.bytes = y + p + w /\ b.covers = C
      /\ c + u <= MAX_JOBS - m /\ y + w <= MAX_BYTES - q
  BY DEF Books
<1>3. n <= Less(MAX_JOBS - m, b.jobs - t) /\ z <= Less(MAX_BYTES - q, b.bytes - t * COVER_BYTES)
  BY <1>2 DEF DataFits
<1> HIDE DEF t, m, c, y, u, w
<1>4. t * COVER_BYTES = p /\ p \in Nat /\ q \in Nat
  BY <1>1, SMT
<1> HIDE DEF p, q
<1>5. c + u + n <= MAX_JOBS - m
  BY <1>1, <1>2, <1>3, SMT DEF Less
<1>6. y + w + z <= MAX_BYTES - q
  BY <1>1, <1>2, <1>3, <1>4, SMT DEF Less
<1> QED BY <1>5, <1>6 DEF t, m, c, y, u, w, q

\* The books when the jobs or the outbox change.
LEMMA BooksChange ==
  ASSUME NEW L, NEW C, NEW A, NEW b, NEW lim, Books(L, C, A, b, lim), LimitsOK(lim), AccountOK(A),
         NEW M \in SUBSET Jobs, NEW B, AccountOK(B), NEW r, DOMAIN r = BudgetFields,
         r.jobs = b.jobs + (Cardinality(M) - Cardinality(L)) + (Items(B) - Items(A)),
         r.bytes = b.bytes + (Bytes(M) - Bytes(L)) + (Size(B) - Size(A)),
         r.covers = b.covers, r.retained = [items |-> Items(B), bytes |-> Size(B)],
         Cardinality(M) + Items(B) <= MAX_JOBS - Total(lim),
         Bytes(M) + Size(B) <= MAX_BYTES - Total(lim) * COVER_BYTES
  PROVE  Books(M, C, B, r, lim)
<1> DEFINE t == Total(C)
           p == COVER_BYTES * t
<1>1. /\ t \in Nat /\ Cardinality(L) \in Nat /\ Bytes(L) \in Nat /\ Items(A) \in Nat /\ Size(A) \in Nat
      /\ COVER_BYTES \in Nat
  BY BooksAreNat
<1>2. Cardinality(M) \in Nat /\ Bytes(M) \in Nat /\ Items(B) \in Nat /\ Size(B) \in Nat
  BY JobsCount, AccountIsNat
<1>3. b.jobs = Cardinality(L) + t + Items(A) /\ b.bytes = Bytes(L) + p + Size(A)
  BY DEF Books
<1> HIDE DEF t
<1>4. p \in Nat
  BY <1>1, SMT
<1> HIDE DEF p
<1>5. r.jobs = Cardinality(M) + t + Items(B) /\ r.bytes = Bytes(M) + p + Size(B)
  BY <1>1, <1>2, <1>3, <1>4, SMT
<1>6. /\ b.covers = C /\ C = [s \in Scopes |-> C[s]]
      /\ \A s \in Scopes : C[s] \in Nat /\ C[s] <= lim[s]
  BY DEF Books
<1> QED BY <1>5, <1>6 DEF Books, t, p

\* Budget r is b with d cover requests more in scope s.
CoverBooked(b, r, C, s, d, lim) ==
  /\ s \in Scopes /\ d \in {-1, 1} /\ C[s] + d \in 0 .. lim[s] /\ DOMAIN r = BudgetFields
  /\ r.jobs = b.jobs + d /\ r.bytes = b.bytes + d * COVER_BYTES /\ r.retained = b.retained
  /\ r.covers = [C EXCEPT ![s] = C[s] + d]

\* The books when a cover request starts or ends in scope s.
LEMMA BooksCover ==
  ASSUME NEW L, NEW C, NEW A, NEW b, NEW lim, Books(L, C, A, b, lim), LimitsOK(lim), AccountOK(A),
         NEW s, NEW d, NEW r, CoverBooked(b, r, C, s, d, lim)
  PROVE  Books(L, r.covers, A, r, lim)
<1>0. /\ s \in Scopes /\ d \in {-1, 1} /\ C[s] + d \in 0 .. lim[s] /\ DOMAIN r = BudgetFields
      /\ r.jobs = b.jobs + d /\ r.bytes = b.bytes + d * COVER_BYTES /\ r.retained = b.retained
      /\ r.covers = [C EXCEPT ![s] = C[s] + d]
  BY DEF CoverBooked
<1> DEFINE D == [C EXCEPT ![s] = C[s] + d]
<1>1. C = [z \in Scopes |-> C[z]] /\ \A z \in Scopes : C[z] \in Nat /\ C[z] <= lim[z]
  BY DEF Books
<1>2. lim[s] \in Nat
  BY <1>0 DEF LimitsOK
<1>3. D[s] = C[s] + d /\ (\A z \in Scopes : z # s => D[z] = C[z]) /\ D = [z \in Scopes |-> D[z]]
  BY <1>0, <1>1
<1>4. r.covers = D
  BY <1>0
<1> HIDE DEF D
<1>5. C[s] + d \in Nat /\ C[s] + d <= lim[s]
  BY <1>0, <1>2, SMT
<1>6. \A z \in Scopes : D[z] \in Nat /\ D[z] <= lim[z]
  BY <1>1, <1>3, <1>5
<1>7. Total(D) = Total(C) - C[s] + D[s]
  BY <1>0, <1>1, <1>3, <1>6, TotalChange, SMT
<1> DEFINE t == Total(C)
           v == Total(D)
<1>8. /\ t \in Nat /\ Cardinality(L) \in Nat /\ Bytes(L) \in Nat /\ Items(A) \in Nat /\ Size(A) \in Nat
      /\ COVER_BYTES \in Nat
  BY BooksAreNat
<1>9. b.jobs = Cardinality(L) + t + Items(A) /\ b.bytes = Bytes(L) + COVER_BYTES * t + Size(A)
  BY DEF Books
<1>10. v = t + d /\ v \in Int
  <2>1. C[s] \in Nat /\ t \in Nat
    BY <1>0, <1>1, <1>8
  <2> HIDE DEF t
  <2> QED BY <1>0, <2>1, <1>3, <1>7, SMT DEF t
<1> HIDE DEF t, v
<1>11. r.jobs = Cardinality(L) + v + Items(A) /\ r.bytes = Bytes(L) + COVER_BYTES * v + Size(A)
  <2>1. COVER_BYTES * v = COVER_BYTES * t + d * COVER_BYTES
    BY <1>0, <1>8, <1>10, SMT
  <2> DEFINE p == COVER_BYTES * t
             q == d * COVER_BYTES
             w == COVER_BYTES * v
  <2>2. /\ p \in Int /\ q \in Int /\ w = p + q
        /\ b.bytes = Bytes(L) + p + Size(A) /\ r.bytes = b.bytes + q
    BY <1>0, <1>8, <1>9, <2>1, SMT
  <2> HIDE DEF p, q, w
  <2>3. r.bytes = Bytes(L) + w + Size(A)
    BY <1>8, <2>2, SMT
  <2>4. r.jobs = Cardinality(L) + v + Items(A)
    BY <1>0, <1>8, <1>9, <1>10, SMT
  <2> QED BY <2>3, <2>4 DEF w
<1>12. /\ L \in SUBSET Jobs /\ b.retained = [items |-> Items(A), bytes |-> Size(A)]
       /\ Cardinality(L) + Items(A) <= MAX_JOBS - Total(lim)
       /\ Bytes(L) + Size(A) <= MAX_BYTES - Total(lim) * COVER_BYTES
  BY DEF Books
<1> QED BY <1>0, <1>3, <1>4, <1>6, <1>11, <1>12 DEF Books, v

\* A reservation, and what gives it back.
LEMMA ReservedFields ==
  ASSUME NEW b, DOMAIN b = BudgetFields, NEW s, NEW n, NEW c, NEW ids
  PROVE  LET r == Reserved(b, s, n, c, ids)
         IN  /\ DOMAIN r = BudgetFields /\ r.jobs = b.jobs + 1 /\ r.bytes = b.bytes + n
             /\ r.attempts = b.attempts \cup ids /\ r.retained = b.retained
             /\ r.covers = [b.covers EXCEPT ![s] = IF c THEN b.covers[s] + 1 ELSE b.covers[s]]
BY DEF Reserved, BudgetFields

\* Drop of a Reservation.
LEMMA ReleasedFields ==
  ASSUME NEW b, DOMAIN b = BudgetFields, NEW s, NEW n, NEW c, NEW ids
  PROVE  LET r == Released(b, s, n, c, ids)
         IN  /\ DOMAIN r = BudgetFields /\ r.jobs = b.jobs - 1 /\ r.bytes = b.bytes - n
             /\ r.attempts = b.attempts \ ids /\ r.retained = b.retained
             /\ r.covers = [b.covers EXCEPT ![s] = IF c THEN b.covers[s] - 1 ELSE b.covers[s]]
BY DEF Released, BudgetFields

\* The reservations of drained jobs are dropped together.
LEMMA ReleaseFields ==
  ASSUME NEW b, DOMAIN b = BudgetFields, NEW js
  PROVE  LET r == Release(b, js)
         IN  /\ DOMAIN r = BudgetFields /\ r.jobs = b.jobs - Cardinality(js)
             /\ r.bytes = b.bytes - Bytes(js) /\ r.attempts = b.attempts \ Attempts(js)
             /\ r.retained = b.retained /\ r.covers = b.covers
BY DEF Release, BudgetFields

\* stage adds the growth to the retained payload and to the shared counters.
LEMMA StagedFields ==
  ASSUME NEW b, DOMAIN b = BudgetFields, NEW u
  PROVE  LET r == Staged(b, u)
         IN  /\ DOMAIN r = BudgetFields /\ r.jobs = b.jobs + u.items /\ r.bytes = b.bytes + u.bytes
             /\ r.attempts = b.attempts /\ r.covers = b.covers
             /\ r.retained = [items |-> b.retained.items + u.items, bytes |-> b.retained.bytes + u.bytes]
BY DEF Staged, BudgetFields

\* A commit or a drop takes its share from both again.
LEMMA UnretainedFields ==
  ASSUME NEW b, DOMAIN b = BudgetFields, NEW u
  PROVE  LET r == Unretained(b, u)
         IN  /\ DOMAIN r = BudgetFields /\ r.jobs = b.jobs - u.items /\ r.bytes = b.bytes - u.bytes
             /\ r.attempts = b.attempts /\ r.covers = b.covers
             /\ r.retained = [items |-> b.retained.items - u.items, bytes |-> b.retained.bytes - u.bytes]
BY DEF Unretained, BudgetFields

\* A job is admitted.
LEMMA BooksArrive ==
  ASSUME NEW L, NEW C, NEW A, NEW b, NEW lim, Books(L, C, A, b, lim), LimitsOK(lim), AccountOK(A),
         NEW j \in Jobs, j \notin L, CanReserve(b, Job[j].scope, Job[j].bytes, FALSE, lim), NEW ids
  PROVE  Books(L \cup {j}, C, A, Reserved(b, Job[j].scope, Job[j].bytes, FALSE, ids), lim)
<1> DEFINE r == Reserved(b, Job[j].scope, Job[j].bytes, FALSE, ids)
           M == L \cup {j}
<1>1. /\ L \in SUBSET Jobs /\ Cardinality(L) \in Nat /\ Bytes(L) \in Nat /\ Items(A) \in Nat
      /\ Size(A) \in Nat /\ Job[j].bytes \in Nat
  BY BooksAreNat, SchedulerAssumption DEF Jobs
<1>2. M \in SUBSET Jobs /\ Cardinality(M) = Cardinality(L) + 1 /\ Bytes(M) = Bytes(L) + Job[j].bytes
  BY <1>1, OneMore
<1>3. DataFits(b, 1, Job[j].bytes, lim)
  BY DEF CanReserve
<1>4. /\ Cardinality(L) + Items(A) + 1 <= MAX_JOBS - Total(lim)
      /\ Bytes(L) + Size(A) + Job[j].bytes <= MAX_BYTES - Total(lim) * COVER_BYTES
  <2>1. 1 \in Nat
    BY SMT
  <2> QED BY <1>1, <1>3, <2>1, FitsData
<1>5. /\ DOMAIN b = BudgetFields /\ b.covers = C /\ C = [s \in Scopes |-> C[s]]
      /\ b.retained = [items |-> Items(A), bytes |-> Size(A)]
  BY DEF Books
<1>6. /\ DOMAIN r = BudgetFields /\ r.jobs = b.jobs + 1 /\ r.bytes = b.bytes + Job[j].bytes
      /\ r.retained = b.retained
      /\ r.covers = [b.covers EXCEPT ![Job[j].scope] = b.covers[Job[j].scope]]
  BY <1>5 DEF Reserved, BudgetFields
<1> HIDE DEF r, M
<1>7. r.covers = b.covers
  BY <1>5, <1>6
<1>8. b.jobs \in Nat /\ b.bytes \in Nat
  BY WithinLimits
<1>9. /\ r.jobs = b.jobs + (Cardinality(M) - Cardinality(L)) + (Items(A) - Items(A))
      /\ r.bytes = b.bytes + (Bytes(M) - Bytes(L)) + (Size(A) - Size(A))
  BY <1>1, <1>2, <1>6, <1>8, SMT
<1>10. Cardinality(M) + Items(A) <= MAX_JOBS - Total(lim)
  <2> DEFINE x == MAX_JOBS - Total(lim)
  <2>1. Cardinality(L) + Items(A) + 1 <= x
    BY <1>4, SMT
  <2> HIDE DEF x
  <2>2. Cardinality(M) + Items(A) <= x
    BY <1>1, <1>2, <2>1, SMT
  <2> QED BY <2>2, SMT DEF x
<1>11. Bytes(M) + Size(A) <= MAX_BYTES - Total(lim) * COVER_BYTES
  <2> DEFINE x == MAX_BYTES - Total(lim) * COVER_BYTES
  <2>1. Bytes(L) + Size(A) + Job[j].bytes <= x
    BY <1>4, SMT
  <2> HIDE DEF x
  <2>2. Bytes(M) + Size(A) <= x
    BY <1>1, <1>2, <2>1, SMT
  <2> QED BY <2>2, SMT DEF x
<1>12. Books(M, C, A, r, lim)
  BY <1>2, <1>5, <1>6, <1>7, <1>9, <1>10, <1>11, BooksChange, SMT
<1> QED BY <1>12 DEF M, r

\* Jobs give their reservations back.
LEMMA BooksLeave ==
  ASSUME NEW L, NEW C, NEW A, NEW b, NEW lim, Books(L, C, A, b, lim), LimitsOK(lim), AccountOK(A),
         NEW js \in SUBSET L, NEW r, DOMAIN r = BudgetFields, r.jobs = b.jobs - Cardinality(js),
         r.bytes = b.bytes - Bytes(js), r.retained = b.retained, r.covers = b.covers
  PROVE  Books(L \ js, C, A, r, lim)
<1> DEFINE M == L \ js
<1>1. /\ L \in SUBSET Jobs /\ Cardinality(L) \in Nat /\ Bytes(L) \in Nat /\ Items(A) \in Nat
      /\ Size(A) \in Nat /\ Total(lim) \in Nat /\ COVER_BYTES \in Nat /\ MAX_JOBS \in Nat /\ MAX_BYTES \in Nat
  BY BooksAreNat
<1>2. /\ M \in SUBSET Jobs /\ js \in SUBSET Jobs
      /\ Cardinality(M) = Cardinality(L) - Cardinality(js) /\ Bytes(M) = Bytes(L) - Bytes(js)
  BY <1>1, SomeLess
<1>3. Cardinality(js) \in Nat /\ Bytes(js) \in Nat /\ Cardinality(M) \in Nat /\ Bytes(M) \in Nat
  BY <1>2, JobsCount
<1>4. /\ b.retained = [items |-> Items(A), bytes |-> Size(A)]
      /\ Cardinality(L) + Items(A) <= MAX_JOBS - Total(lim)
      /\ Bytes(L) + Size(A) <= MAX_BYTES - Total(lim) * COVER_BYTES
  BY DEF Books
<1>5. b.jobs \in Nat /\ b.bytes \in Nat
  BY WithinLimits
<1> HIDE DEF M
<1>6. /\ r.jobs = b.jobs + (Cardinality(M) - Cardinality(L)) + (Items(A) - Items(A))
      /\ r.bytes = b.bytes + (Bytes(M) - Bytes(L)) + (Size(A) - Size(A))
  BY <1>1, <1>2, <1>3, <1>5, SMT
<1>7. Cardinality(M) + Items(A) <= MAX_JOBS - Total(lim)
  BY <1>1, <1>2, <1>3, <1>4, SMT
<1>8. Bytes(M) + Size(A) <= MAX_BYTES - Total(lim) * COVER_BYTES
  <2> DEFINE x == Total(lim) * COVER_BYTES
  <2>1. x \in Nat /\ Bytes(L) + Size(A) <= MAX_BYTES - x
    BY <1>1, <1>4, SMT
  <2> HIDE DEF x
  <2>2. Bytes(M) + Size(A) <= MAX_BYTES - x
    BY <1>1, <1>2, <1>3, <2>1, SMT
  <2> QED BY <2>2, SMT DEF x
<1>9. Books(M, C, A, r, lim)
  BY <1>2, <1>4, <1>6, <1>7, <1>8, BooksChange, SMT
<1> QED BY <1>9 DEF M

-----------------------------------------------------------------------------
(* Attempts *)

\* The attempt of an admitted job is new: enqueue_with_class answered Pending otherwise.
LEMMA AttemptArrives ==
  ASSUME NEW n, NEW L, NEW b, Attempted(n, L, b), NEW j, b.attempts \cap Att(n, j) = {},
         NEW r, r.attempts = b.attempts \cup Att(n, j)
  PROVE  Attempted(n, L \cup {j}, r)
<1>1. Atts(n, L \cup {j}) = Atts(n, L) \cup Att(n, j)
  BY DEF Atts
<1>2. \A k \in L : Att(n, k) \cap Att(n, j) = {} /\ Att(n, j) \cap Att(n, k) = {}
  BY DEF Attempted, Atts
<1> QED BY <1>1, <1>2 DEF Attempted

\* The attempts of jobs that leave are theirs alone.
LEMMA AttemptsLeave ==
  ASSUME NEW n, NEW L, NEW b, Attempted(n, L, b), NEW js \in SUBSET L,
         NEW r, r.attempts = b.attempts \ Atts(n, js)
  PROVE  Attempted(n, L \ js, r)
<1>1. \A M, a : a \in Atts(n, M) <=> \E k \in M : a \in Att(n, k)
  BY DEF Atts
<1>2. Atts(n, L \ js) = Atts(n, L) \ Atts(n, js)
  <2>1. ASSUME NEW a, a \in Atts(n, L \ js) PROVE a \in Atts(n, L) /\ a \notin Atts(n, js)
    <3>1. PICK k \in L \ js : a \in Att(n, k)
      BY <1>1, <2>1
    <3>2. \A j \in js : j \in L /\ j # k
      OBVIOUS
    <3>3. \A j \in js : Att(n, j) \cap Att(n, k) = {}
      BY <3>2 DEF Attempted
    <3>4. \A j \in js : a \notin Att(n, j)
      BY <3>1, <3>3
    <3> QED BY <1>1, <3>1, <3>4
  <2>2. ASSUME NEW a, a \in Atts(n, L), a \notin Atts(n, js) PROVE a \in Atts(n, L \ js)
    BY <1>1, <2>2
  <2> QED BY <2>1, <2>2
<1> QED BY <1>2 DEF Attempted

-----------------------------------------------------------------------------
(* Admission, dispatch, drain, abort and completion *)

\* The allowance of the scopes, and that payload has something beside it.
LEMMA LimitsAreNat ==
  ASSUME natural \in BOOLEAN
  PROVE  /\ LimitsOK(CoverLimits) /\ Total(CoverLimits) \in Nat
         /\ Total(CoverLimits) <= MAX_JOBS /\ Total(CoverLimits) * COVER_BYTES <= MAX_BYTES
<1> DEFINE c == [s \in Scopes |-> COVER_LIMIT]
           z == [s \in Scopes |-> 0]
<1>1. CoverLimits = IF natural THEN z ELSE c
  BY DEF CoverLimits
<1>2. COVER_LIMIT \in Nat /\ MAX_JOBS \in Nat /\ MAX_BYTES \in Nat /\ COVER_BYTES \in Nat
  BY SchedulerAssumption, SMT
<1>3. (\A s \in Scopes : c[s] \in Nat) /\ \A s \in Scopes : z[s] = 0
  BY <1>2
<1>4. MAX_JOBS >= Total(c) /\ MAX_BYTES >= Total(c) * COVER_BYTES
  BY SchedulerAssumption
<1> HIDE DEF c, z
<1>5. Total(c) \in Nat
  BY <1>3, TotalNat
<1>6. Total(z) = 0
  BY <1>3, SchedulerAssumption, SumZero, SMT DEF Total
<1>7. \A s \in Scopes : z[s] \in Nat
  BY <1>3, SMT
<1>8. LimitsOK(CoverLimits)
  BY <1>1, <1>3, <1>7 DEF LimitsOK
<1>9. Total(z) <= MAX_JOBS /\ Total(z) * COVER_BYTES <= MAX_BYTES /\ Total(z) \in Nat
  BY <1>2, <1>6, SMT
<1>10. Total(c) <= MAX_JOBS /\ Total(c) * COVER_BYTES <= MAX_BYTES
  BY <1>2, <1>4, <1>5, SMT
<1> QED BY <1>1, <1>5, <1>8, <1>9, <1>10

\* The operators of the module and those of the proof.
LEMMA AttemptIsAtt ==
  /\ \A j : Attempt(j) = Att(natural, j)
  /\ \A js : Attempts(js) = Atts(natural, js)
BY DEF Attempt, Attempts, Att, Atts

\* The cover requests in flight do not depend on anything else of a lane.
LEMMA CoversKept ==
  ASSUME NEW W, NEW V, DOMAIN V = DOMAIN W,
         \A i \in DOMAIN W : V[i].key = W[i].key /\ V[i].cover = W[i].cover
  PROVE  CoversOf(V) = CoversOf(W)
<1>1. ASSUME NEW s \in Scopes PROVE Covering(V, s) = Covering(W, s)
  BY DEF Covering
<1> QED BY <1>1 DEF CoversOf

\* An admitted job is queued on one lane, reserved once and its attempt registered.
LEMMA AdmitKeeps ==
  ASSUME SInv, NEW j \in bound.jobs, Admit(j)
  PROVE  SInv'
<1> DEFINE i == task[j].lane
           q == PushJob(lane[i].queue, j)
<1>1. /\ j \in Jobs /\ TasksOK(task) /\ TaskOK(task[j]) /\ LanesOK(lane) /\ Placed(lane, task)
      /\ AccountOK(account) /\ natural \in BOOLEAN
      /\ Attempted(natural, LiveOf(task), budget)
      /\ Books(LiveOf(task), CoversOf(lane), account, budget, CoverLimits)
  BY BoundJobs DEF SInv, TasksOK
<1>2. /\ task[j].caller = "routed" /\ budget.attempts \cap Attempt(j) = {}
      /\ CanReserve(budget, Job[j].scope, Job[j].bytes, FALSE, CoverLimits)
      /\ budget' = Reserved(budget, Job[j].scope, Job[j].bytes, FALSE, Attempt(j))
      /\ lane' = [lane EXCEPT ![i].queue = q]
      /\ task' = [task EXCEPT ![j].caller = "admitted", ![j].phase = "queued", ![j].receipt = "Queued"]
      /\ natural' = natural /\ bound' = bound /\ account' = account
  BY DEF Admit, setup
<1>3. task[j].phase = "none"
  BY <1>1, <1>2 DEF TaskOK
<1>4. /\ DOMAIN task' = Jobs /\ \A k \in Jobs : k # j => task'[k] = task[k]
      /\ DOMAIN task'[j] = TaskFields /\ task'[j].caller = "admitted" /\ task'[j].phase = "queued"
      /\ task'[j].lane = i /\ task'[j].sent = task[j].sent /\ task'[j].wire = task[j].wire
  BY <1>1, <1>2 DEF TasksOK, TaskOK, TaskFields
<1>5. TasksOK(task')
  BY <1>1, <1>4 DEF TasksOK, TaskOK
<1>6. j \notin LiveOf(task) /\ LiveOf(task') = LiveOf(task) \cup {j}
  BY <1>1, <1>3, <1>4 DEF LiveOf
<1>7. \A k \in DOMAIN lane : j \notin Waiting(lane[k].queue) /\ j \notin lane[k].running
  BY <1>1, <1>3 DEF Placed
<1>8. i \in DOMAIN lane => QueueOK(q) /\ Waiting(q) = Waiting(lane[i].queue) \cup {j}
  BY <1>1, <1>7, PushAdds DEF LanesOK, LaneOK, Jobs
<1> HIDE DEF q, i
<1>9. /\ lane' = [k \in DOMAIN lane |-> lane'[k]] /\ DOMAIN lane' = DOMAIN lane
      /\ \A k \in DOMAIN lane : k # i => lane'[k] = lane[k]
      /\ i \in DOMAIN lane => /\ DOMAIN lane'[i] = LaneFields /\ lane'[i].key = lane[i].key
                              /\ lane'[i].queue = q /\ lane'[i].running = lane[i].running
                              /\ lane'[i].cover = lane[i].cover
  BY <1>1, <1>2 DEF LanesOK, LaneOK, LaneFields
<1>10. LanesOK(lane')
  <2>1. \A k \in DOMAIN lane : LaneOK(lane'[k])
    BY <1>1, <1>8, <1>9 DEF LanesOK, LaneOK
  <2> QED BY <1>1, <1>9, <2>1, LanesStay, SMT
<1>11. CoversOf(lane') = CoversOf(lane)
  <2>1. \A k \in DOMAIN lane : lane'[k].key = lane[k].key /\ lane'[k].cover = lane[k].cover
    BY <1>9
  <2> QED BY <1>9, <2>1, CoversKept
<1>12. Placed(lane', task')
  <2>1. ASSUME NEW k \in DOMAIN lane, NEW x \in Waiting(lane'[k].queue)
        PROVE  x \in Jobs /\ task'[x].phase = "queued" /\ task'[x].lane = k
    <3>1. CASE x = j
      <4>1. k = i
        BY <1>7, <1>9, <2>1, <3>1
      <4> QED BY <1>1, <1>4, <3>1, <4>1
    <3>2. CASE x # j
      <4>1. x \in Waiting(lane[k].queue)
        BY <1>8, <1>9, <2>1, <3>2
      <4>2. x \in Jobs /\ task[x].phase = "queued" /\ task[x].lane = k
        BY <1>1, <4>1 DEF Placed
      <4> QED BY <1>4, <3>2, <4>2
    <3> QED BY <3>1, <3>2
  <2>2. ASSUME NEW k \in DOMAIN lane, NEW x \in lane'[k].running
        PROVE  x \in Jobs /\ task'[x].phase \notin {"none", "queued"}
    <3>1. x \in lane[k].running
      BY <1>9, <2>2
    <3>2. x # j
      BY <1>7, <3>1
    <3> QED BY <1>1, <1>4, <3>1, <3>2 DEF Placed
  <2> QED BY <1>9, <2>1, <2>2 DEF Placed
<1>13. Attempted(natural, LiveOf(task) \cup {j}, budget')
  <2>1. budget'.attempts = budget.attempts \cup Att(natural, j) /\ budget.attempts \cap Att(natural, j) = {}
    <3>1. DOMAIN budget = BudgetFields
      BY <1>1 DEF Books
    <3>2. budget'.attempts = budget.attempts \cup Attempt(j)
      <4>1. budget' = Reserved(budget, Job[j].scope, Job[j].bytes, FALSE, Attempt(j))
        BY <1>2
      <4> QED BY <3>1, <4>1 DEF Reserved, BudgetFields
    <3> QED BY <1>2, <3>2, AttemptIsAtt
  <2> QED BY <1>1, <2>1, AttemptArrives
<1>14. Books(LiveOf(task) \cup {j}, CoversOf(lane), account, budget', CoverLimits)
  BY <1>1, <1>2, <1>6, LimitsAreNat, BooksArrive
<1>15. CoverLimits' = CoverLimits
  BY <1>2 DEF CoverLimits
<1> QED BY <1>1, <1>2, <1>5, <1>6, <1>10, <1>11, <1>12, <1>13, <1>14, <1>15 DEF SInv

\* A served job moves from the queue of its lane to its running tasks.
LEMMA ServeKeeps ==
  ASSUME SInv, NEW i \in DOMAIN lane, NEW popped, NEW b, popped = PopEligible(lane[i].queue, b),
         popped.job # NoJob,
         lane' = [lane EXCEPT ![i] = Round([lane[i] EXCEPT
                    !.queue = popped.queue, !.running = lane[i].running \cup {popped.job}])],
         task' = [task EXCEPT
                    ![popped.job].phase = IF Misfit(popped.job) THEN "answer" ELSE "resolve",
                    ![popped.job].outcome = IF Misfit(popped.job) THEN "Failed" ELSE @],
         UNCHANGED <<setup, budget, account>>
  PROVE  SInv'
<1> DEFINE j == popped.job
           q == popped.queue
           n == [lane[i] EXCEPT !.queue = q, !.running = lane[i].running \cup {j}]
<1>1. /\ TasksOK(task) /\ LanesOK(lane) /\ Placed(lane, task) /\ LaneOK(lane[i])
  BY DEF SInv, LanesOK
<1>2. QueueOK(q) /\ j \in Waiting(lane[i].queue) /\ Waiting(q) = Waiting(lane[i].queue) \ {j}
  BY <1>1, PopTakes DEF LaneOK
<1>3. j \in Jobs /\ task[j].phase = "queued" /\ task[j].lane = i
  BY <1>1, <1>2 DEF Placed
<1>4. DOMAIN n = LaneFields /\ n.key = lane[i].key /\ n.queue = q /\ n.cover = lane[i].cover
      /\ n.running = lane[i].running \cup {j}
  BY <1>1 DEF LaneOK, LaneFields
<1>5. lane' = [lane EXCEPT ![i] = Round(n)]
  OBVIOUS
<1>6. /\ DOMAIN task' = Jobs /\ \A k \in Jobs : k # j => task'[k] = task[k]
      /\ DOMAIN task'[j] = TaskFields /\ task'[j].phase \in {"answer", "resolve"}
      /\ task'[j].sent = task[j].sent /\ task'[j].wire = task[j].wire /\ task'[j].caller = task[j].caller
  <2> DEFINE p == IF Misfit(j) THEN "answer" ELSE "resolve"
             o == IF Misfit(j) THEN "Failed" ELSE task[j].outcome
  <2>1. task' = [task EXCEPT ![j].phase = p, ![j].outcome = o]
    OBVIOUS
  <2>2. p \in {"answer", "resolve"}
    OBVIOUS
  <2>3. j \in DOMAIN task /\ DOMAIN task = Jobs /\ DOMAIN task[j] = TaskFields
    BY <1>1, <1>3 DEF TasksOK, TaskOK
  <2> HIDE DEF p, o, j
  <2>4. /\ DOMAIN task' = Jobs /\ \A k \in Jobs : k # j => task'[k] = task[k]
        /\ task'[j] = [[task[j] EXCEPT !.phase = p] EXCEPT !.outcome = o]
    BY <2>1, <2>3
  <2>5. /\ DOMAIN task'[j] = TaskFields /\ task'[j].phase = p
        /\ task'[j].sent = task[j].sent /\ task'[j].wire = task[j].wire /\ task'[j].caller = task[j].caller
    BY <2>3, <2>4 DEF TaskFields
  <2> QED BY <2>2, <2>4, <2>5
<1> HIDE DEF j, q, n
<1>7. /\ lane' = [k \in DOMAIN lane |-> lane'[k]] /\ DOMAIN lane' = DOMAIN lane
      /\ \A k \in DOMAIN lane : k # i => lane'[k] = lane[k]
      /\ DOMAIN lane'[i] = LaneFields /\ lane'[i].key = lane[i].key
      /\ lane'[i].queue = q /\ lane'[i].running = lane[i].running \cup {j}
      /\ lane'[i].cover = lane[i].cover
  <2>1. /\ lane' = [k \in DOMAIN lane |-> lane'[k]] /\ DOMAIN lane' = DOMAIN lane
        /\ \A k \in DOMAIN lane : k # i => lane'[k] = lane[k]
        /\ lane'[i] = Round(n)
    BY <1>5
  <2>2. /\ DOMAIN Round(n) = LaneFields /\ Round(n).key = n.key /\ Round(n).queue = n.queue
        /\ Round(n).running = n.running /\ Round(n).cover = n.cover
    BY <1>4, RoundKeeps
  <2> QED BY <1>4, <2>1, <2>2
<1>8. TasksOK(task')
  <2>1. TaskOK(task[j])
    BY <1>1, <1>3 DEF TasksOK
  <2>2. task[j].caller \notin {"new", "routed"}
    BY <1>3, <2>1 DEF TaskOK
  <2>3. TaskOK(task'[j])
    BY <1>6, <2>1, <2>2 DEF TaskOK
  <2> QED BY <1>1, <1>6, <2>3 DEF TasksOK
<1>9. LiveOf(task') = LiveOf(task)
  BY <1>3, <1>6 DEF LiveOf
<1>10. LanesOK(lane')
  <2>1. \A k \in DOMAIN lane : LaneOK(lane'[k])
    BY <1>1, <1>2, <1>7 DEF LanesOK, LaneOK
  <2> QED BY <1>1, <1>7, <2>1, LanesStay, SMT
<1>11. CoversOf(lane') = CoversOf(lane)
  <2>1. \A k \in DOMAIN lane : lane'[k].key = lane[k].key /\ lane'[k].cover = lane[k].cover
    BY <1>7
  <2> QED BY <1>7, <2>1, CoversKept
<1>12. Placed(lane', task')
  <2>1. ASSUME NEW k \in DOMAIN lane, NEW x \in Waiting(lane'[k].queue)
        PROVE  x \in Jobs /\ task'[x].phase = "queued" /\ task'[x].lane = k
    <3>1. x \in Waiting(lane[k].queue) /\ (k = i => x # j)
      BY <1>2, <1>7, <2>1
    <3>2. x \in Jobs /\ task[x].phase = "queued" /\ task[x].lane = k
      BY <1>1, <3>1 DEF Placed
    <3>3. x # j
      BY <1>3, <3>1, <3>2
    <3> QED BY <1>6, <3>2, <3>3
  <2>2. ASSUME NEW k \in DOMAIN lane, NEW x \in lane'[k].running
        PROVE  x \in Jobs /\ task'[x].phase \notin {"none", "queued"}
    <3>1. CASE x = j
      BY <1>3, <1>6, <3>1
    <3>2. CASE x # j
      <4>1. x \in lane[k].running
        BY <1>7, <2>2, <3>2
      <4>2. x \in Jobs /\ task[x].phase \notin {"none", "queued"}
        BY <1>1, <4>1 DEF Placed
      <4> QED BY <1>6, <3>2, <4>2
    <3> QED BY <3>1, <3>2
  <2> QED BY <1>7, <2>1, <2>2 DEF Placed
<1>13. CoverLimits' = CoverLimits
  BY DEF CoverLimits, setup
<1> QED BY <1>8, <1>9, <1>10, <1>11, <1>12, <1>13 DEF SInv, setup

\* A cover request starts or ends on lane i.
LEMMA CoverMoves ==
  ASSUME NEW W, LanesOK(W), NEW V, DOMAIN V = DOMAIN W, NEW i \in DOMAIN W,
         \A k \in DOMAIN W : k # i => V[k] = W[k], V[i].key = W[i].key
  PROVE  LET s == W[i].key.scope
             C == CoversOf(W)
         IN  /\ C[s] \in Nat
             /\ W[i].cover # "running" /\ V[i].cover = "running"
                  => CoversOf(V) = [C EXCEPT ![s] = C[s] + 1]
             /\ W[i].cover = "running" /\ V[i].cover # "running"
                  => C[s] # 0 /\ CoversOf(V) = [C EXCEPT ![s] = C[s] - 1]
<1> DEFINE s == W[i].key.scope
           C == CoversOf(W)
           D == CoversOf(V)
           X == Covering(W, s)
           Y == Covering(V, s)
<1>1. s \in Scopes
  BY DEF LanesOK, LaneOK
<1>2. C = [z \in Scopes |-> C[z]] /\ D = [z \in Scopes |-> D[z]] /\ C[s] = Cardinality(X) /\ D[s] = Cardinality(Y)
  BY <1>1 DEF CoversOf
<1>3. \A z \in Scopes : z # s => D[z] = C[z]
  <2>1. \A z \in Scopes : z # s => Covering(V, z) = Covering(W, z)
    BY DEF Covering
  <2> QED BY <2>1 DEF CoversOf
<1>4. IsFiniteSet(X) /\ IsFiniteSet(Y) /\ Cardinality(X) \in Nat
  <2>1. W \in Seq(Range(W))
    BY DEF LanesOK
  <2>2. DOMAIN W = 1 .. Len(W) /\ 1 \in Int /\ Len(W) \in Int
    BY <2>1, SMT
  <2>3. IsFiniteSet(DOMAIN W)
    BY <2>2, FS_Interval
  <2>4. X \subseteq DOMAIN W /\ Y \subseteq DOMAIN W
    BY DEF Covering
  <2> QED BY <2>3, <2>4, FS_Subset, FS_CardinalityType
<1>5. ASSUME W[i].cover # "running", V[i].cover = "running"
      PROVE  D[s] = C[s] + 1
  <2>1. Y = X \cup {i} /\ i \notin X
    BY <1>5 DEF Covering
  <2> QED BY <1>2, <1>4, <2>1, FS_AddElement
<1>6. ASSUME W[i].cover = "running", V[i].cover # "running"
      PROVE  C[s] # 0 /\ D[s] = C[s] - 1
  <2>1. Y = X \ {i} /\ i \in X
    BY <1>6 DEF Covering
  <2>2. Cardinality(X) # 0
    BY <1>4, <2>1, FS_EmptySet
  <2> QED BY <1>2, <1>4, <2>1, <2>2, FS_RemoveElement
<1> HIDE DEF s, C, D, X, Y
<1>7. \A v : D[s] = v => D = [C EXCEPT ![s] = v]
  BY <1>1, <1>2, <1>3
<1>8. C[s] \in Nat
  BY <1>2, <1>4
<1> QED BY <1>5, <1>6, <1>7, <1>8 DEF s, C, D

\* A cover request takes its credit.
LEMMA CoverStarts ==
  ASSUME SInv, NEW i \in DOMAIN lane, NEW popped, NEW b, popped = PopEligible(lane[i].queue, b),
         popped.job = NoJob, lane[i].cover = "none",
         CanReserve(budget, lane[i].key.scope, COVER_BYTES, TRUE, CoverLimits),
         budget' = Reserved(budget, lane[i].key.scope, COVER_BYTES, TRUE, {}),
         lane' = [lane EXCEPT ![i] = Round([lane[i] EXCEPT
                    !.queue = popped.queue, !.cover = "running"])],
         UNCHANGED <<setup, task, account>>
  PROVE  SInv'
<1> DEFINE q == popped.queue
           n == [lane[i] EXCEPT !.queue = q, !.cover = "running"]
           s == lane[i].key.scope
           C == CoversOf(lane)
<1>1. /\ TasksOK(task) /\ LanesOK(lane) /\ Placed(lane, task) /\ LaneOK(lane[i]) /\ s \in Scopes
      /\ AccountOK(account) /\ natural \in BOOLEAN
      /\ Attempted(natural, LiveOf(task), budget)
      /\ Books(LiveOf(task), C, account, budget, CoverLimits)
  BY DEF SInv, LanesOK, LaneOK
<1>2. QueueOK(q) /\ Waiting(q) = Waiting(lane[i].queue)
  BY <1>1, PopTakes DEF LaneOK
<1>3. DOMAIN n = LaneFields /\ n.key = lane[i].key /\ n.queue = q /\ n.cover = "running"
      /\ n.running = lane[i].running
  BY <1>1 DEF LaneOK, LaneFields
<1>4. lane' = [lane EXCEPT ![i] = Round(n)]
  OBVIOUS
<1> HIDE DEF q, n
<1>5. /\ lane' = [k \in DOMAIN lane |-> lane'[k]] /\ DOMAIN lane' = DOMAIN lane
      /\ \A k \in DOMAIN lane : k # i => lane'[k] = lane[k]
      /\ DOMAIN lane'[i] = LaneFields /\ lane'[i].key = lane[i].key
      /\ lane'[i].queue = q /\ lane'[i].running = lane[i].running
      /\ lane'[i].cover = "running"
  <2>1. /\ lane' = [k \in DOMAIN lane |-> lane'[k]] /\ DOMAIN lane' = DOMAIN lane
        /\ \A k \in DOMAIN lane : k # i => lane'[k] = lane[k]
        /\ lane'[i] = Round(n)
    BY <1>4
  <2>2. /\ DOMAIN Round(n) = LaneFields /\ Round(n).key = n.key /\ Round(n).queue = n.queue
        /\ Round(n).running = n.running /\ Round(n).cover = n.cover
    BY <1>3, RoundKeeps
  <2> QED BY <1>3, <2>1, <2>2
<1>6. LanesOK(lane')
  <2>1. \A k \in DOMAIN lane : LaneOK(lane'[k])
    BY <1>1, <1>2, <1>5 DEF LanesOK, LaneOK
  <2> QED BY <1>1, <1>5, <2>1, LanesStay, SMT
<1>7. Placed(lane', task')
  <2>1. \A k \in DOMAIN lane : /\ Waiting(lane'[k].queue) = Waiting(lane[k].queue)
                               /\ lane'[k].running = lane[k].running
    BY <1>2, <1>5
  <2>2. Placed(lane', task)
    BY <1>1, <1>5, <2>1, SMT DEF Placed
  <2>3. task' = task
    OBVIOUS
  <2> QED BY <2>2, <2>3
<1>8. CoversOf(lane') = [C EXCEPT ![s] = C[s] + 1] /\ C[s] \in Nat
  <2>1. lane[i].cover # "running"
    OBVIOUS
  <2> QED BY <1>1, <1>5, <2>1, CoverMoves, SMT
<1>9. DOMAIN budget = BudgetFields /\ budget.covers = C
  BY <1>1 DEF Books
<1>10. /\ DOMAIN budget' = BudgetFields /\ budget'.jobs = budget.jobs + 1
       /\ budget'.bytes = budget.bytes + COVER_BYTES
       /\ budget'.attempts = budget.attempts /\ budget'.retained = budget.retained
       /\ budget'.covers = [C EXCEPT ![s] = C[s] + 1]
  BY <1>9 DEF Reserved, BudgetFields
<1>11. Books(LiveOf(task), CoversOf(lane'), account, budget', CoverLimits)
  <2> DEFINE d == 1
  <2>1. C[s] < CoverLimits[s]
    BY <1>9 DEF CanReserve
  <2>2. LimitsOK(CoverLimits) /\ CoverLimits[s] \in Nat
    BY <1>1, LimitsAreNat DEF LimitsOK
  <2>3. C[s] + d \in 0 .. CoverLimits[s] /\ d \in {-1, 1}
    BY <1>8, <2>1, <2>2, SMT
  <2>4. d * COVER_BYTES = COVER_BYTES
    BY SchedulerAssumption, SMT
  <2>5. budget'.bytes = budget.bytes + d * COVER_BYTES
    BY <1>10, <2>4
  <2> HIDE DEF s, C
  <2>6. Books(LiveOf(task), budget'.covers, account, budget', CoverLimits)
    <3>1. budget'.jobs = budget.jobs + d /\ budget'.covers = [C EXCEPT ![s] = C[s] + d]
      BY <1>10
    <3> HIDE DEF d
    <3> DEFINE L == LiveOf(task)
               lim == CoverLimits
    <3>2. Books(L, C, account, budget, lim) /\ LimitsOK(lim) /\ C[s] + d \in 0 .. lim[s]
          /\ AccountOK(account) /\ s \in Scopes
      BY <1>1, <2>2, <2>3
    <3> HIDE DEF L, lim
    <3>3. Books(L, budget'.covers, account, budget', lim)
      <4>1. CoverBooked(budget, budget', C, s, d, lim)
        BY <1>10, <2>3, <2>5, <3>1, <3>2 DEF CoverBooked
      <4> QED BY <3>2, <4>1, BooksCover
    <3> QED BY <3>3 DEF L, lim
  <2> QED BY <1>8, <1>10, <2>6
<1>12. Attempted(natural, LiveOf(task), budget')
  BY <1>1, <1>10 DEF Attempted
<1>13. CoverLimits' = CoverLimits
  BY DEF CoverLimits, setup
<1> QED BY <1>1, <1>6, <1>7, <1>11, <1>12, <1>13 DEF SInv, setup

\* An opportunity serves a job or sends cover.
LEMMA DispatchKeeps ==
  ASSUME SInv, NEW i \in DOMAIN lane, Dispatch(i)
  PROVE  SInv'
<1> DEFINE b == Cardinality(BulkRunning(i)) < BULK_LIMIT
           popped == PopEligible(lane[i].queue, b)
           j == popped.job
<1>1. Serve(i) /\ UNCHANGED <<setup, account>>
  BY DEF Dispatch
<1>2. \/ /\ j # NoJob
         /\ lane' = [lane EXCEPT ![i] = Round([lane[i] EXCEPT
                        !.queue = popped.queue, !.running = lane[i].running \cup {j}])]
         /\ task' = [task EXCEPT
                       ![j].phase = IF Misfit(j) THEN "answer" ELSE "resolve",
                       ![j].outcome = IF Misfit(j) THEN "Failed" ELSE @]
         /\ UNCHANGED budget
      \/ /\ j = NoJob /\ lane[i].cover = "none"
         /\ CanReserve(budget, lane[i].key.scope, COVER_BYTES, TRUE, CoverLimits)
         /\ budget' = Reserved(budget, lane[i].key.scope, COVER_BYTES, TRUE, {})
         /\ lane' = [lane EXCEPT ![i] = Round([lane[i] EXCEPT
                        !.queue = popped.queue, !.cover = "running"])]
         /\ UNCHANGED task
  BY <1>1 DEF Serve
<1>3. popped = PopEligible(lane[i].queue, b)
  OBVIOUS
<1>4. UNCHANGED <<setup, account>>
  BY <1>1
<1> HIDE DEF popped, b
<1>5. CASE j # NoJob
  <2>1. /\ lane' = [lane EXCEPT ![i] = Round([lane[i] EXCEPT
                       !.queue = popped.queue, !.running = lane[i].running \cup {popped.job}])]
        /\ task' = [task EXCEPT
                      ![popped.job].phase = IF Misfit(popped.job) THEN "answer" ELSE "resolve",
                      ![popped.job].outcome = IF Misfit(popped.job) THEN "Failed" ELSE @]
        /\ UNCHANGED <<setup, budget, account>>
    BY <1>2, <1>4, <1>5
  <2> QED BY <1>3, <1>5, <2>1, ServeKeeps
<1>6. CASE j = NoJob
  <2>1. UNCHANGED <<setup, task, account>>
    BY <1>2, <1>4, <1>6
  <2> QED BY <1>2, <1>3, <1>6, <2>1, CoverStarts
<1> QED BY <1>5, <1>6

\* A cover request gives its credit back.
LEMMA CoverEndsKeeps ==
  ASSUME SInv, NEW i \in DOMAIN lane, CoverEnds(i)
  PROVE  SInv'
<1> DEFINE s == lane[i].key.scope
           C == CoversOf(lane)
<1>1. /\ TasksOK(task) /\ LanesOK(lane) /\ Placed(lane, task) /\ LaneOK(lane[i]) /\ s \in Scopes
      /\ AccountOK(account) /\ natural \in BOOLEAN
      /\ Attempted(natural, LiveOf(task), budget)
      /\ Books(LiveOf(task), C, account, budget, CoverLimits)
  BY DEF SInv, LanesOK, LaneOK
<1>2. /\ lane[i].cover = "running"
      /\ budget' = Released(budget, s, COVER_BYTES, TRUE, {})
      /\ UNCHANGED <<setup, task, account>>
  BY DEF CoverEnds
<1>3. PICK c \in {"none", "finished"} : lane' = [lane EXCEPT ![i].cover = c]
  BY DEF CoverEnds
<1>4. /\ lane' = [k \in DOMAIN lane |-> lane'[k]] /\ DOMAIN lane' = DOMAIN lane
      /\ \A k \in DOMAIN lane : k # i => lane'[k] = lane[k]
      /\ DOMAIN lane'[i] = LaneFields /\ lane'[i].key = lane[i].key
      /\ lane'[i].queue = lane[i].queue /\ lane'[i].running = lane[i].running
      /\ lane'[i].cover = c
  BY <1>1, <1>3 DEF LaneOK, LaneFields
<1>5. LanesOK(lane')
  <2>1. \A k \in DOMAIN lane : LaneOK(lane'[k])
    BY <1>1, <1>4 DEF LanesOK, LaneOK
  <2> QED BY <1>1, <1>4, <2>1, LanesStay, SMT
<1>6. Placed(lane', task')
  <2>1. \A k \in DOMAIN lane : /\ Waiting(lane'[k].queue) = Waiting(lane[k].queue)
                               /\ lane'[k].running = lane[k].running
    BY <1>4
  <2>2. Placed(lane', task)
    BY <1>1, <1>4, <2>1 DEF Placed
  <2>3. task' = task
    BY <1>2
  <2> QED BY <2>2, <2>3
<1>7. CoversOf(lane') = [C EXCEPT ![s] = C[s] - 1] /\ C[s] \in Nat /\ C[s] # 0
  <2>1. lane'[i].cover # "running"
    BY <1>4
  <2> QED BY <1>1, <1>2, <1>4, <2>1, CoverMoves, SMT
<1>8. DOMAIN budget = BudgetFields /\ budget.covers = C /\ C[s] <= CoverLimits[s]
  BY <1>1 DEF Books
<1>9. /\ DOMAIN budget' = BudgetFields /\ budget'.jobs = budget.jobs - 1
      /\ budget'.bytes = budget.bytes - COVER_BYTES
      /\ budget'.attempts = budget.attempts \ {} /\ budget'.retained = budget.retained
      /\ budget'.covers = [C EXCEPT ![s] = C[s] - 1]
  BY <1>2, <1>8 DEF Released, BudgetFields
<1>10. Books(LiveOf(task), CoversOf(lane'), account, budget', CoverLimits)
  <2> DEFINE d == -1
  <2>1. LimitsOK(CoverLimits) /\ CoverLimits[s] \in Nat
    BY <1>1, LimitsAreNat DEF LimitsOK
  <2>2. C[s] + d \in 0 .. CoverLimits[s] /\ d \in {-1, 1} /\ C[s] + d = C[s] - 1
    BY <1>7, <1>8, <2>1, SMT
  <2>3. budget'.bytes = budget.bytes + d * COVER_BYTES /\ budget'.jobs = budget.jobs + d
    <3>1. budget.bytes \in Nat /\ budget.jobs \in Nat /\ COVER_BYTES \in Nat
      BY <1>1, <2>1, WithinLimits, SchedulerAssumption, SMT
    <3> QED BY <1>9, <3>1, SMT
  <2> HIDE DEF s, C
  <2>4. Books(LiveOf(task), budget'.covers, account, budget', CoverLimits)
    <3>1. budget'.covers = [C EXCEPT ![s] = C[s] + d]
      BY <1>9, <2>2
    <3> HIDE DEF d
    <3> DEFINE L == LiveOf(task)
               lim == CoverLimits
    <3>2. Books(L, C, account, budget, lim) /\ LimitsOK(lim) /\ C[s] + d \in 0 .. lim[s]
          /\ AccountOK(account) /\ s \in Scopes
      BY <1>1, <2>1, <2>2
    <3> HIDE DEF L, lim
    <3>3. Books(L, budget'.covers, account, budget', lim)
      <4>1. CoverBooked(budget, budget', C, s, d, lim)
        BY <1>9, <2>2, <2>3, <3>1, <3>2 DEF CoverBooked
      <4> QED BY <3>2, <4>1, BooksCover
    <3> QED BY <3>3 DEF L, lim
  <2> QED BY <1>7, <1>9, <2>4
<1>11. Attempted(natural, LiveOf(task), budget')
  BY <1>1, <1>9 DEF Attempted
<1>12. CoverLimits' = CoverLimits
  BY <1>2 DEF CoverLimits, setup
<1> QED BY <1>1, <1>2, <1>5, <1>6, <1>10, <1>11, <1>12 DEF SInv, setup

\* Budget r is b without what the jobs js reserved.
Returned(b, r, js) ==
  /\ DOMAIN r = BudgetFields /\ r.jobs = b.jobs - Cardinality(js) /\ r.bytes = b.bytes - Bytes(js)
  /\ r.retained = b.retained /\ r.covers = b.covers /\ r.attempts = b.attempts \ Atts(natural, js)

\* Jobs that leave give back their own share.
LEMMA JobsLeave ==
  ASSUME SInv, NEW js \in SUBSET LiveOf(task), LanesOK(lane'), Placed(lane', task'),
         CoversOf(lane') = CoversOf(lane), TasksOK(task'), LiveOf(task') = LiveOf(task) \ js,
         Returned(budget, budget', js), natural' = natural, bound' = bound, account' = account
  PROVE  SInv'
<1>1. /\ natural \in BOOLEAN /\ bound \in Cases /\ AccountOK(account)
      /\ Attempted(natural, LiveOf(task), budget)
      /\ Books(LiveOf(task), CoversOf(lane), account, budget, CoverLimits)
  BY DEF SInv
<1>2. LimitsOK(CoverLimits)
  BY <1>1, LimitsAreNat
<1>3. CoverLimits' = CoverLimits
  BY DEF CoverLimits
<1> DEFINE L == LiveOf(task)
           C == CoversOf(lane)
           lim == CoverLimits
           r == budget'
<1>4. /\ js \in SUBSET L /\ Books(L, C, account, budget, lim) /\ LimitsOK(lim)
      /\ Attempted(natural, L, budget) /\ Returned(budget, r, js)
  BY <1>1, <1>2
<1> HIDE DEF L, C, lim, r
<1>5. Books(L \ js, C, account, r, lim)
  BY <1>1, <1>4, BooksLeave, SMT DEF Returned
<1>6. Attempted(natural, L \ js, r)
  BY <1>4, AttemptsLeave DEF Returned
<1> QED BY <1>1, <1>3, <1>5, <1>6 DEF SInv, L, C, lim, r

\* A task that ended: its receipt stays, and its lane while its producer has not returned.
LEMMA GoneFields ==
  ASSUME NEW t, NEW r
  PROVE  /\ DOMAIN Gone(t, r) = TaskFields /\ Gone(t, r).caller = t.caller
         /\ Gone(t, r).phase = "gone" /\ Gone(t, r).sent = {}
BY SMT DEF Gone, NewTask, TaskFields

\* A running job gives back its reservation when it ends or is aborted.
LEMMA JobEnds ==
  ASSUME SInv, NEW j \in Jobs, task[j].phase \notin {"none", "gone", "queued"}, NEW r,
         task' = [task EXCEPT ![j] = Gone(task[j], r)], budget' = Completed(budget, j),
         Quiet(lane, lane'), natural' = natural, bound' = bound, account' = account
  PROVE  SInv'
<1>1. /\ TasksOK(task) /\ TaskOK(task[j]) /\ Placed(lane, task) /\ DOMAIN budget = BudgetFields
      /\ budget.covers = [s \in Scopes |-> budget.covers[s]]
  BY DEF SInv, TasksOK, Books
<1>2. /\ DOMAIN task' = Jobs /\ \A k \in Jobs : k # j => task'[k] = task[k]
      /\ task'[j] = Gone(task[j], r)
  BY <1>1 DEF TasksOK
<1>3. /\ DOMAIN task'[j] = TaskFields /\ task'[j].caller = task[j].caller
      /\ task'[j].phase = "gone" /\ task'[j].sent = {}
  BY <1>2, GoneFields
<1>4. TasksOK(task')
  BY <1>1, <1>2, <1>3 DEF TasksOK, TaskOK
<1>5. Steady(task, task')
  BY <1>2, <1>3 DEF Steady, SteadyTask
<1>6. Placed(lane', task')
  BY <1>1, <1>5, StillPlaced
<1>7. {j} \in SUBSET LiveOf(task) /\ LiveOf(task') = LiveOf(task) \ {j}
  BY <1>2, <1>3 DEF LiveOf
<1>8. Returned(budget, budget', {j})
  <2>1. budget' = Released(budget, Job[j].scope, Job[j].bytes, FALSE, Attempt(j))
    BY DEF Completed
  <2>2. /\ DOMAIN budget' = BudgetFields /\ budget'.jobs = budget.jobs - 1
        /\ budget'.bytes = budget.bytes - Job[j].bytes /\ budget'.retained = budget.retained
        /\ budget'.attempts = budget.attempts \ Attempt(j)
    BY <1>1, <2>1 DEF Released, BudgetFields
  <2>3. budget'.covers = budget.covers
    <3>1. budget'.covers = [budget.covers EXCEPT ![Job[j].scope] = budget.covers[Job[j].scope]]
      BY <1>1, <2>1 DEF Released, BudgetFields
    <3> QED BY <1>1, <3>1
  <2>4. Atts(natural, {j}) = Attempt(j)
    BY AttemptIsAtt DEF Atts
  <2> QED BY <2>2, <2>3, <2>4, OneJob DEF Returned
<1>9. CoversOf(lane') = CoversOf(lane) /\ LanesOK(lane')
  BY SameCovers DEF Quiet
<1> QED BY <1>4, <1>6, <1>7, <1>8, <1>9, JobsLeave

\* A sending task that has answered drops its reservation.
LEMMA TaskEndsKeeps ==
  ASSUME SInv, NEW j \in bound.jobs, TaskEnds(j)
  PROVE  SInv'
<1>1. j \in Jobs /\ LanesOK(lane) /\ task[j].phase = "answered" /\ budget' = Completed(budget, j)
      /\ lane' = lane /\ natural' = natural /\ bound' = bound /\ account' = account
  BY BoundJobs DEF SInv, TaskEnds, setup
<1>2. task' = [task EXCEPT ![j] = Gone(task[j], task[j].receipt)]
  BY DEF TaskEnds
<1>3. Quiet(lane, lane')
  BY <1>1, SameLanes
<1>4. task[j].phase \notin {"none", "gone", "queued"}
  BY <1>1
<1> QED BY <1>1, <1>2, <1>3, <1>4, JobEnds

\* abort_all drops the reservation of every task that is still live, and of no other.
LEMMA AbortKeeps ==
  ASSUME SInv, NEW i \in DOMAIN lane, Abort(i)
  PROVE  SInv'
<1>1. /\ TasksOK(task) /\ LanesOK(lane) /\ Placed(lane, task) /\ LaneOK(lane[i])
      /\ natural' = natural /\ bound' = bound /\ account' = account
  BY DEF SInv, LanesOK, Abort, setup
<1>2. CASE \E j \in lane[i].running :
             /\ lane' = [lane EXCEPT ![i].running = @ \ {j}]
             /\ IF task[j].phase = "gone" THEN UNCHANGED <<task, budget, memo>>
                ELSE /\ task' = [task EXCEPT ![j] = Gone(@,
                                    IF @.receipt = "Queued" THEN "Shutdown" ELSE @.receipt)]
                     /\ budget' = Completed(budget, j)
  <2>1. PICK j \in lane[i].running :
             /\ lane' = [lane EXCEPT ![i].running = @ \ {j}]
             /\ IF task[j].phase = "gone" THEN UNCHANGED <<task, budget, memo>>
                ELSE /\ task' = [task EXCEPT ![j] = Gone(@,
                                    IF @.receipt = "Queued" THEN "Shutdown" ELSE @.receipt)]
                     /\ budget' = Completed(budget, j)
    BY <1>2
  <2>2. /\ lane' = [k \in DOMAIN lane |-> lane'[k]]
        /\ \A k \in DOMAIN lane : k # i => lane'[k] = lane[k]
        /\ QuietLane(lane[i], lane'[i])
    BY <1>1, <2>1 DEF LaneOK, LaneFields, QuietLane
  <2>3. Quiet(lane, lane')
    BY <1>1, <2>2, OneQuietLane, SMT
  <2>4. j \in Jobs /\ task[j].phase \notin {"none", "queued"}
    BY <1>1, <2>1 DEF Placed
  <2>5. CASE task[j].phase = "gone"
    <3>1. task' = task /\ budget' = budget
      BY <2>1, <2>5
    <3>2. TasksOK(task') /\ Mild(task, task')
      BY <1>1, <3>1, SameTasks
    <3> QED BY <1>1, <2>3, <3>1, <3>2, CalmStep
  <2>6. CASE task[j].phase # "gone"
    <3> DEFINE r == IF task[j].receipt = "Queued" THEN "Shutdown" ELSE task[j].receipt
    <3>1. task' = [task EXCEPT ![j] = Gone(task[j], r)] /\ budget' = Completed(budget, j)
      BY <2>1, <2>6
    <3> HIDE DEF r
    <3>2. task[j].phase \notin {"none", "gone", "queued"}
      BY <2>4, <2>6
    <3> QED BY <1>1, <2>3, <2>4, <3>1, <3>2, JobEnds
  <2> QED BY <2>5, <2>6
<1>3. CASE /\ lane[i].cover \in {"none", "finished"}
           /\ lane' = [lane EXCEPT ![i].worker = "exited", ![i].cover = "none", ![i].auth = FALSE]
           /\ UNCHANGED <<task, budget, memo>>
  <2>1. /\ lane' = [k \in DOMAIN lane |-> lane'[k]]
        /\ \A k \in DOMAIN lane : k # i => lane'[k] = lane[k]
        /\ QuietLane(lane[i], lane'[i])
    BY <1>1, <1>3 DEF LaneOK, LaneFields, QuietLane
  <2>2. Quiet(lane, lane')
    BY <1>1, <2>1, OneQuietLane, SMT
  <2>3. task' = task /\ budget' = budget
    BY <1>3
  <2>4. TasksOK(task') /\ Mild(task, task')
    BY <1>1, <2>3, SameTasks
  <2> QED BY <1>1, <2>2, <2>3, <2>4, CalmStep
<1> QED BY <1>2, <1>3 DEF Abort

\* FairQueue::shutdown releases exactly the jobs that were still queued.
LEMMA DrainKeeps ==
  ASSUME SInv, NEW i \in DOMAIN lane, Drain(i)
  PROVE  SInv'
<1> DEFINE js == Waiting(lane[i].queue)
           q == NewQueue(lane[i].queue.capacity)
<1>1. /\ TasksOK(task) /\ LanesOK(lane) /\ Placed(lane, task) /\ LaneOK(lane[i])
      /\ DOMAIN budget = BudgetFields
  BY DEF SInv, LanesOK, Books
<1>2. /\ lane' = [lane EXCEPT ![i].worker = "aborting", ![i].permit = FALSE, ![i].queue = q]
      /\ task' = [j \in Jobs |-> IF j \in js THEN Gone(task[j], "Shutdown") ELSE task[j]]
      /\ budget' = Release(budget, js)
      /\ natural' = natural /\ bound' = bound /\ account' = account
  BY DEF Drain, setup
<1>3. QueueOK(q) /\ Waiting(q) = {}
  BY NewIsEmpty
<1>4. \A j \in js : j \in Jobs /\ task[j].phase = "queued" /\ task[j].lane = i
  BY <1>1 DEF Placed
<1> HIDE DEF js, q
<1>5. /\ lane' = [k \in DOMAIN lane |-> lane'[k]] /\ DOMAIN lane' = DOMAIN lane
      /\ \A k \in DOMAIN lane : k # i => lane'[k] = lane[k]
      /\ DOMAIN lane'[i] = LaneFields /\ lane'[i].key = lane[i].key /\ lane'[i].queue = q
      /\ lane'[i].running = lane[i].running /\ lane'[i].cover = lane[i].cover
  BY <1>1, <1>2 DEF LaneOK, LaneFields
<1>6. LanesOK(lane')
  <2>1. \A k \in DOMAIN lane : LaneOK(lane'[k])
    BY <1>1, <1>3, <1>5 DEF LanesOK, LaneOK
  <2> QED BY <1>1, <1>5, <2>1, LanesStay, SMT
<1>7. CoversOf(lane') = CoversOf(lane)
  <2>1. \A k \in DOMAIN lane : lane'[k].key = lane[k].key /\ lane'[k].cover = lane[k].cover
    BY <1>5
  <2> QED BY <1>5, <2>1, CoversKept
<1>8. /\ DOMAIN task' = Jobs /\ \A j \in Jobs : j \notin js => task'[j] = task[j]
      /\ \A j \in Jobs : j \in js => task'[j] = Gone(task[j], "Shutdown")
  BY <1>2
<1>9. \A j \in Jobs : j \in js => /\ DOMAIN task'[j] = TaskFields /\ task'[j].caller = task[j].caller
                                  /\ task'[j].phase = "gone" /\ task'[j].sent = {}
  <2>1. ASSUME NEW j \in Jobs, j \in js
        PROVE  /\ DOMAIN task'[j] = TaskFields /\ task'[j].caller = task[j].caller
               /\ task'[j].phase = "gone" /\ task'[j].sent = {}
    <3>1. task'[j] = Gone(task[j], "Shutdown")
      BY <1>8, <2>1
    <3>2. LET g == Gone(task[j], "Shutdown")
          IN  DOMAIN g = TaskFields /\ g.caller = task[j].caller /\ g.phase = "gone" /\ g.sent = {}
      BY GoneFields
    <3> QED BY <3>1, <3>2
  <2> QED BY <2>1
<1>10. TasksOK(task')
  <2>1. ASSUME NEW j \in Jobs PROVE TaskOK(task'[j])
    <3>1. CASE j \in js
      <4>1. TaskOK(task[j]) /\ task[j].phase = "queued"
        BY <1>1, <1>4, <3>1 DEF TasksOK
      <4>2. /\ DOMAIN task'[j] = TaskFields /\ task'[j].caller = task[j].caller
            /\ task'[j].phase = "gone" /\ task'[j].sent = {}
        BY <1>9, <3>1
      <4> QED BY <4>1, <4>2 DEF TaskOK
    <3>2. CASE j \notin js
      BY <1>1, <1>8, <3>2 DEF TasksOK
    <3> QED BY <3>1, <3>2
  <2> QED BY <1>8, <2>1 DEF TasksOK
<1>11. js \in SUBSET LiveOf(task) /\ LiveOf(task') = LiveOf(task) \ js
  BY <1>4, <1>8, <1>9 DEF LiveOf
<1>12. Placed(lane', task')
  <2>1. ASSUME NEW k \in DOMAIN lane, NEW x \in Waiting(lane'[k].queue)
        PROVE  x \in Jobs /\ task'[x].phase = "queued" /\ task'[x].lane = k
    <3>1. k # i /\ x \in Waiting(lane[k].queue)
      BY <1>3, <1>5, <2>1
    <3>2. x \in Jobs /\ task[x].phase = "queued" /\ task[x].lane = k
      BY <1>1, <3>1 DEF Placed
    <3>3. x \notin js
      BY <1>4, <3>1, <3>2
    <3> QED BY <1>8, <3>2, <3>3
  <2>2. ASSUME NEW k \in DOMAIN lane, NEW x \in lane'[k].running
        PROVE  x \in Jobs /\ task'[x].phase \notin {"none", "queued"}
    <3>1. x \in lane[k].running
      BY <1>5, <2>2
    <3>2. x \in Jobs /\ task[x].phase \notin {"none", "queued"}
      BY <1>1, <3>1 DEF Placed
    <3>3. x \notin js
      BY <1>4, <3>2
    <3> QED BY <1>8, <3>2, <3>3
  <2> QED BY <1>5, <2>1, <2>2 DEF Placed
<1>13. Returned(budget, budget', js)
  <2>1. /\ DOMAIN budget' = BudgetFields /\ budget'.jobs = budget.jobs - Cardinality(js)
        /\ budget'.bytes = budget.bytes - Bytes(js) /\ budget'.retained = budget.retained
        /\ budget'.covers = budget.covers /\ budget'.attempts = budget.attempts \ Attempts(js)
    BY <1>1, <1>2, ReleaseFields
  <2> QED BY <2>1, AttemptIsAtt DEF Returned
<1> QED BY <1>2, <1>6, <1>7, <1>10, <1>11, <1>12, <1>13, JobsLeave

-----------------------------------------------------------------------------
(* The retained account *)

\* Budget r is b with account B in the place of A.
Restated(b, r, A, B) ==
  /\ DOMAIN r = BudgetFields /\ r.covers = b.covers /\ r.attempts = b.attempts
  /\ r.jobs = b.jobs + (Items(B) - Items(A)) /\ r.bytes = b.bytes + (Size(B) - Size(A))
  /\ r.retained = [items |-> Items(B), bytes |-> Size(B)]

\* The account changes within what payload may use, and nothing else does.
LEMMA AccountMoves ==
  ASSUME SInv, AccountOK(account'), Restated(budget, budget', account, account'),
         Cardinality(LiveOf(task)) + Items(account') <= MAX_JOBS - Total(CoverLimits),
         Bytes(LiveOf(task)) + Size(account') <= MAX_BYTES - Total(CoverLimits) * COVER_BYTES,
         natural' = natural, bound' = bound, lane' = lane, task' = task
  PROVE  SInv'
<1>1. /\ natural \in BOOLEAN /\ bound \in Cases /\ AccountOK(account)
      /\ TasksOK(task) /\ LanesOK(lane) /\ Placed(lane, task)
      /\ Attempted(natural, LiveOf(task), budget)
      /\ Books(LiveOf(task), CoversOf(lane), account, budget, CoverLimits)
  BY DEF SInv
<1>2. LimitsOK(CoverLimits)
  BY <1>1, LimitsAreNat
<1>3. CoverLimits' = CoverLimits
  BY DEF CoverLimits
<1> DEFINE L == LiveOf(task)
           C == CoversOf(lane)
           lim == CoverLimits
           r == budget'
           A == account
           B == account'
<1>4. /\ Books(L, C, A, budget, lim) /\ LimitsOK(lim) /\ AccountOK(A) /\ AccountOK(B)
      /\ Attempted(natural, L, budget) /\ Restated(budget, r, A, B)
      /\ Cardinality(L) + Items(B) <= MAX_JOBS - Total(lim)
      /\ Bytes(L) + Size(B) <= MAX_BYTES - Total(lim) * COVER_BYTES
  BY <1>1, <1>2
<1> HIDE DEF L, C, lim, r, A, B
<1>5. /\ L \in SUBSET Jobs /\ Cardinality(L) \in Nat /\ Bytes(L) \in Nat
      /\ budget.jobs \in Nat /\ budget.bytes \in Nat /\ Items(A) \in Nat /\ Size(A) \in Nat
      /\ Items(B) \in Nat /\ Size(B) \in Nat
  BY <1>4, BooksAreNat, WithinLimits, AccountIsNat
<1>6. /\ r.jobs = budget.jobs + (Cardinality(L) - Cardinality(L)) + (Items(B) - Items(A))
      /\ r.bytes = budget.bytes + (Bytes(L) - Bytes(L)) + (Size(B) - Size(A))
  <2>1. /\ r.jobs = budget.jobs + (Items(B) - Items(A))
        /\ r.bytes = budget.bytes + (Size(B) - Size(A))
    BY <1>4 DEF Restated
  <2> QED BY <1>5, <2>1, SMT
<1>7. /\ DOMAIN r = BudgetFields /\ r.covers = budget.covers
      /\ r.retained = [items |-> Items(B), bytes |-> Size(B)]
  BY <1>4 DEF Restated
<1>8. Books(L, C, B, r, lim)
  BY <1>4, <1>5, <1>6, <1>7, BooksChange, SMT
<1>9. Attempted(natural, L, r)
  BY <1>4 DEF Attempted, Restated
<1> QED BY <1>1, <1>3, <1>8, <1>9 DEF SInv, L, C, lim, r, B

\* An update of the outbox reserves its growth before the checkpoint.
LEMMA StageKeeps ==
  ASSUME SInv, NEW u \in bound.usages, NEW p, Stage(u, p)
  PROVE  SInv'
<1> DEFINE g == Growth(u, account.usage)
           A == account
           B == account'
           L == LiveOf(task)
           lim == CoverLimits
<1>1. /\ AccountOK(A) /\ natural \in BOOLEAN /\ bound \in Cases
      /\ Books(L, CoversOf(lane), A, budget, lim) /\ LimitsOK(lim)
  BY LimitsAreNat DEF SInv
<1>2. UsageOK(u)
  BY <1>1, SchedulerAssumption DEF UsageOK
<1>3. /\ ~A.staged /\ CanStage(budget, g, p, lim) /\ budget' = Staged(budget, g)
      /\ B = [A EXCEPT !.next = u, !.growth = g, !.staged = TRUE]
      /\ natural' = natural /\ bound' = bound /\ lane' = lane /\ task' = task
  BY DEF Stage, setup
<1>4. UsageOK(A.usage) /\ DOMAIN A = AccountFields /\ A.growth = NoUsage
  BY <1>1, <1>3 DEF AccountOK
<1>5. UsageOK(g) /\ g.items \in Nat /\ g.bytes \in Nat
  BY <1>2, <1>4, GrowthIsNat DEF UsageOK
<1>6. /\ DOMAIN B = AccountFields /\ B.usage = A.usage /\ B.next = u /\ B.growth = g
      /\ B.staged = TRUE
  BY <1>3, <1>4 DEF AccountFields
<1>7. AccountOK(B)
  BY <1>2, <1>4, <1>6 DEF AccountOK
<1>8. DataFits(budget, g.items, g.bytes, lim)
  BY <1>3 DEF CanStage
<1> HIDE DEF g, lim, L
<1>9. /\ Cardinality(L) + Items(A) + g.items <= MAX_JOBS - Total(lim)
      /\ Bytes(L) + Size(A) + g.bytes <= MAX_BYTES - Total(lim) * COVER_BYTES
  <2>1. AccountOK(account)
    BY <1>1
  <2> HIDE DEF A
  <2> QED BY <1>1, <1>5, <1>8, <2>1, FitsData
<1>10. /\ Items(B) = Items(A) + g.items /\ Size(B) = Size(A) + g.bytes
       /\ Items(A) \in Nat /\ Size(A) \in Nat
  <2>1. /\ A.usage.items \in Nat /\ A.usage.bytes \in Nat
        /\ A.growth.items = 0 /\ A.growth.bytes = 0
    BY <1>4, SMT DEF UsageOK, NoUsage
  <2>2. B.usage = A.usage /\ B.growth = g
    BY <1>6
  <2> HIDE DEF A, B
  <2> QED BY <1>5, <2>1, <2>2, SMT DEF Items, Size
<1>11. /\ Cardinality(L) + Items(B) <= MAX_JOBS - Total(lim)
       /\ Bytes(L) + Size(B) <= MAX_BYTES - Total(lim) * COVER_BYTES
  <2>1. Cardinality(L) \in Nat /\ Bytes(L) \in Nat
    BY <1>1, BooksAreNat
  <2>2. Cardinality(L) + Items(B) = Cardinality(L) + Items(A) + g.items
        /\ Bytes(L) + Size(B) = Bytes(L) + Size(A) + g.bytes
    <3> HIDE DEF A, B
    <3> QED BY <1>5, <1>10, <2>1, SMT
  <2> QED BY <1>9, <2>2
<1>12. Restated(budget, budget', A, B)
  <2>1. /\ DOMAIN budget = BudgetFields
        /\ budget.retained = [items |-> Items(A), bytes |-> Size(A)]
        /\ budget.jobs \in Nat /\ budget.bytes \in Nat
    BY <1>1, WithinLimits DEF Books
  <2>2. /\ DOMAIN budget' = BudgetFields /\ budget'.covers = budget.covers
        /\ budget'.attempts = budget.attempts
        /\ budget'.jobs = budget.jobs + g.items /\ budget'.bytes = budget.bytes + g.bytes
        /\ budget'.retained = [items |-> budget.retained.items + g.items,
                               bytes |-> budget.retained.bytes + g.bytes]
    BY <1>3, <2>1, StagedFields
  <2>3. budget.retained.items = Items(A) /\ budget.retained.bytes = Size(A)
    BY <2>1, SMT
  <2>4. Items(B) - Items(A) = g.items /\ Size(B) - Size(A) = g.bytes
    <3> HIDE DEF A, B
    <3> QED BY <1>5, <1>10, SMT
  <2> QED BY <1>10, <2>2, <2>3, <2>4 DEF Restated
<1> QED BY <1>3, <1>7, <1>11, <1>12, AccountMoves DEF L, lim

\* saturating_sub: what one of two usages has more than the other.
LEMMA LessMeets ==
  ASSUME NEW m \in Nat, NEW n \in Nat
  PROVE  n + Less(m, n) - Less(n, m) = m /\ Less(n, m) \in Nat /\ Less(m, n) \in Nat
BY SMT DEF Less

\* A commit keeps the new usage, a drop the old one; the rest is given back.
LEMMA EndStageKeeps ==
  ASSUME SInv, NEW committed \in BOOLEAN, EndStage(committed)
  PROVE  SInv'
<1> DEFINE w == StageEnds(committed)
           A == account
           B == account'
           L == LiveOf(task)
           lim == CoverLimits
<1>1. /\ AccountOK(A) /\ natural \in BOOLEAN
      /\ Books(L, CoversOf(lane), A, budget, lim) /\ LimitsOK(lim)
  BY LimitsAreNat DEF SInv
<1>2. /\ A.staged = TRUE /\ budget' = Unretained(budget, w)
      /\ B = [A EXCEPT !.usage = IF committed THEN A.next ELSE A.usage,
                       !.next = NoUsage, !.growth = NoUsage, !.staged = FALSE]
      /\ natural' = natural /\ bound' = bound /\ lane' = lane /\ task' = task
  BY <1>1 DEF EndStage, setup, AccountOK
<1>3. /\ UsageOK(A.usage) /\ UsageOK(A.next) /\ UsageOK(A.growth) /\ DOMAIN A = AccountFields
      /\ A.growth = Growth(A.next, A.usage) /\ Items(A) \in Nat /\ Size(A) \in Nat
  BY <1>1, <1>2, AccountIsNat DEF AccountOK
<1>4. /\ DOMAIN B = AccountFields /\ B.usage = (IF committed THEN A.next ELSE A.usage)
      /\ B.next = NoUsage /\ B.growth = NoUsage /\ B.staged = FALSE
  BY <1>2, <1>3 DEF AccountFields
<1>5. AccountOK(B)
  <2>1. UsageOK(NoUsage)
    BY SMT DEF UsageOK, NoUsage
  <2> QED BY <1>3, <1>4, <2>1 DEF AccountOK
<1>6. Items(B) = B.usage.items /\ Size(B) = B.usage.bytes
  <2>1. B.usage.items \in Nat /\ B.usage.bytes \in Nat /\ B.growth.items = 0 /\ B.growth.bytes = 0
    BY <1>3, <1>4, <1>5, SMT DEF AccountOK, UsageOK, NoUsage
  <2> HIDE DEF B
  <2> QED BY <2>1, SMT DEF Items, Size
<1>7. /\ UsageOK(w) /\ Items(B) = Items(A) - w.items /\ Size(B) = Size(A) - w.bytes
  <2> DEFINE u == A.usage
             n == A.next
  <2>1. /\ u.items \in Nat /\ u.bytes \in Nat /\ n.items \in Nat /\ n.bytes \in Nat
        /\ A.growth.items = Less(n.items, u.items) /\ A.growth.bytes = Less(n.bytes, u.bytes)
    <3>1. UsageOK(u) /\ UsageOK(n) /\ A.growth = Growth(n, u)
      BY <1>3
    <3> HIDE DEF u, n, A
    <3>2. Growth(n, u).items = Less(n.items, u.items) /\ Growth(n, u).bytes = Less(n.bytes, u.bytes)
      BY <3>1, GrowthIsNat
    <3> QED BY <3>1, <3>2 DEF UsageOK
  <2>2. /\ Items(A) = u.items + Less(n.items, u.items) /\ Size(A) = u.bytes + Less(n.bytes, u.bytes)
        /\ Less(n.items, u.items) \in Nat /\ Less(n.bytes, u.bytes) \in Nat
    BY <2>1, LessMeets DEF Items, Size
  <2>3. CASE committed
    <3>1. w = Growth(u, n) /\ B.usage = n
      BY <1>4, <2>3 DEF StageEnds
    <3>2. UsageOK(w) /\ w.items = Less(u.items, n.items) /\ w.bytes = Less(u.bytes, n.bytes)
      <4>1. UsageOK(u) /\ UsageOK(n) /\ w = Growth(u, n)
        BY <1>3, <3>1
      <4> HIDE DEF u, n, w
      <4>2. /\ UsageOK(Growth(u, n)) /\ Growth(u, n).items = Less(u.items, n.items)
            /\ Growth(u, n).bytes = Less(u.bytes, n.bytes)
        BY <4>1, GrowthIsNat
      <4> QED BY <4>1, <4>2
    <3>3. Items(B) = n.items /\ Size(B) = n.bytes
      BY <1>6, <3>1
    <3> HIDE DEF u, n, w, A, B
    <3>4. /\ u.items + Less(n.items, u.items) - Less(u.items, n.items) = n.items
          /\ u.bytes + Less(n.bytes, u.bytes) - Less(u.bytes, n.bytes) = n.bytes
          /\ Less(u.items, n.items) \in Nat /\ Less(u.bytes, n.bytes) \in Nat
      BY <2>1, LessMeets
    <3>5. Items(A) - w.items = Items(B)
      BY <2>1, <2>2, <3>2, <3>3, <3>4, SMT
    <3>6. Size(A) - w.bytes = Size(B)
      BY <2>1, <2>2, <3>2, <3>3, <3>4, SMT
    <3> QED BY <3>2, <3>5, <3>6
  <2>4. CASE ~committed
    <3>1. w = A.growth /\ B.usage = u
      BY <1>4, <2>4 DEF StageEnds
    <3>2. Items(B) = u.items /\ Size(B) = u.bytes /\ w.items = Less(n.items, u.items)
          /\ w.bytes = Less(n.bytes, u.bytes) /\ UsageOK(w)
      BY <1>3, <1>6, <2>1, <3>1
    <3> HIDE DEF u, n, w, A, B
    <3> QED BY <2>1, <2>2, <3>2, SMT
  <2> QED BY <2>3, <2>4
<1>8. /\ Cardinality(L) + Items(B) <= MAX_JOBS - Total(lim)
      /\ Bytes(L) + Size(B) <= MAX_BYTES - Total(lim) * COVER_BYTES
  <2>1. /\ Cardinality(L) \in Nat /\ Bytes(L) \in Nat /\ Total(lim) \in Nat /\ COVER_BYTES \in Nat
        /\ MAX_JOBS \in Nat /\ MAX_BYTES \in Nat
    BY <1>1, BooksAreNat
  <2>2. /\ Cardinality(L) + Items(A) <= MAX_JOBS - Total(lim)
        /\ Bytes(L) + Size(A) <= MAX_BYTES - Total(lim) * COVER_BYTES
    BY <1>1 DEF Books
  <2>3. w.items \in Nat /\ w.bytes \in Nat
    BY <1>7 DEF UsageOK
  <2> DEFINE x == Total(lim) * COVER_BYTES
  <2>4. x \in Nat
    BY <2>1, SMT
  <2>5. Bytes(L) + Size(A) <= MAX_BYTES - x
    BY <2>2
  <2> HIDE DEF A, B, L, lim, w, x
  <2>6. Cardinality(L) + Items(B) <= MAX_JOBS - Total(lim)
    BY <1>3, <1>7, <2>1, <2>2, <2>3, SMT
  <2>7. Bytes(L) + Size(B) <= MAX_BYTES - x
    BY <1>3, <1>7, <2>1, <2>3, <2>4, <2>5, SMT
  <2> QED BY <2>6, <2>7 DEF x
<1>9. Restated(budget, budget', A, B)
  <2>1. /\ DOMAIN budget = BudgetFields
        /\ budget.retained = [items |-> Items(A), bytes |-> Size(A)]
        /\ budget.jobs \in Nat /\ budget.bytes \in Nat
    BY <1>1, WithinLimits DEF Books
  <2>2. /\ DOMAIN budget' = BudgetFields /\ budget'.covers = budget.covers
        /\ budget'.attempts = budget.attempts
        /\ budget'.jobs = budget.jobs - w.items /\ budget'.bytes = budget.bytes - w.bytes
        /\ budget'.retained = [items |-> budget.retained.items - w.items,
                               bytes |-> budget.retained.bytes - w.bytes]
    <3> HIDE DEF w
    <3>1. budget' = Unretained(budget, w)
      BY <1>2
    <3> QED BY <2>1, <3>1, UnretainedFields
  <2>3. budget.retained.items = Items(A) /\ budget.retained.bytes = Size(A)
    BY <2>1, SMT
  <2>4. w.items \in Nat /\ w.bytes \in Nat
    BY <1>7 DEF UsageOK
  <2>5. /\ budget.jobs - w.items = budget.jobs + (Items(B) - Items(A))
        /\ budget.bytes - w.bytes = budget.bytes + (Size(B) - Size(A))
    <3> HIDE DEF A, B, w
    <3> QED BY <1>3, <1>7, <2>1, <2>4, SMT
  <2> QED BY <1>7, <2>2, <2>3, <2>5 DEF Restated
<1> QED BY <1>2, <1>5, <1>8, <1>9, AccountMoves

-----------------------------------------------------------------------------
(* The invariant and the properties *)

\* The schedulers start without lanes, tasks and reservations.
LEMMA InitKeeps == Init => SInv
<1> SUFFICES ASSUME Init PROVE SInv
  BY SMT
<1>1. /\ natural \in Profiles /\ bound \in Cases /\ lane = <<>> /\ budget = NewBudget
      /\ account = [usage |-> NoUsage, next |-> NoUsage, growth |-> NoUsage, staged |-> FALSE]
      /\ task = [j \in Jobs |-> [NewTask EXCEPT !.caller = IF j \in bound.jobs THEN "new" ELSE "done"]]
  BY DEF Init
<1>2. natural \in BOOLEAN
  BY <1>1, SchedulerAssumption
<1>3. \A j \in Jobs : DOMAIN task[j] = TaskFields /\ task[j].phase = "none" /\ task[j].sent = {}
  BY <1>1, SMT DEF NewTask, TaskFields
<1>4. TasksOK(task) /\ LiveOf(task) = {}
  <2>1. DOMAIN task = Jobs
    BY <1>1
  <2> QED BY <1>3, <2>1 DEF TasksOK, TaskOK, LiveOf
<1>5. DOMAIN lane = {} /\ lane \in Seq(Range(lane))
  BY <1>1, SMT
<1>6. LanesOK(lane) /\ Placed(lane, task)
  BY <1>5 DEF LanesOK, Placed
<1>7. AccountOK(account) /\ Items(account) = 0 /\ Size(account) = 0
  <2>1. /\ DOMAIN account = AccountFields /\ account.usage = NoUsage /\ account.next = NoUsage
        /\ account.growth = NoUsage /\ account.staged = FALSE
    BY <1>1, SMT DEF AccountFields
  <2>2. UsageOK(NoUsage) /\ NoUsage.items = 0 /\ NoUsage.bytes = 0
    BY SMT DEF UsageOK, NoUsage
  <2>3. Items(account) = 0 + 0 /\ Size(account) = 0 + 0
    BY <2>1, <2>2 DEF Items, Size
  <2>4. AccountOK(account)
    BY <2>1, <2>2 DEF AccountOK
  <2>5. Items(account) = 0 /\ Size(account) = 0
    BY <2>3, SMT
  <2> QED BY <2>4, <2>5
<1>8. /\ DOMAIN budget = BudgetFields /\ budget.jobs = 0 /\ budget.bytes = 0
      /\ budget.covers = [s \in Scopes |-> 0] /\ budget.attempts = {} /\ budget.retained = NoUsage
  BY <1>1, SMT DEF NewBudget, BudgetFields
<1>9. Attempted(natural, LiveOf(task), budget)
  BY <1>4, <1>8 DEF Attempted, Atts
<1>10. CoversOf(lane) = [s \in Scopes |-> 0]
  <2>1. ASSUME NEW s \in Scopes PROVE Cardinality(Covering(lane, s)) = 0
    <3>1. Covering(lane, s) = {}
      BY <1>5 DEF Covering
    <3> QED BY <3>1, FS_EmptySet
  <2> QED BY <2>1 DEF CoversOf
<1> DEFINE C == CoversOf(lane)
           lim == CoverLimits
<1>11. \A s \in Scopes : C[s] = 0
  BY <1>10
<1>12. Total(C) = 0 /\ Cardinality({}) = 0 /\ Bytes({}) = 0
  <2>1. Total(C) = 0
    <3> HIDE DEF C
    <3> QED BY <1>11, SumZero, SchedulerAssumption, SMT DEF Total
  <2>2. Bytes({}) = 0
    BY SumEmpty DEF Bytes
  <2> QED BY <2>1, <2>2, FS_EmptySet
<1>13. /\ LimitsOK(lim) /\ Total(lim) \in Nat /\ Total(lim) <= MAX_JOBS
       /\ Total(lim) * COVER_BYTES <= MAX_BYTES
  BY <1>2, LimitsAreNat
<1>14. MAX_JOBS \in Nat /\ MAX_BYTES \in Nat /\ COVER_BYTES \in Nat
  BY SchedulerAssumption, SMT
<1> HIDE DEF lim
<1>15. Books(LiveOf(task), C, account, budget, lim)
  <2>1. C = [s \in Scopes |-> C[s]] /\ budget.covers = C
    BY <1>8, <1>10
  <2> HIDE DEF C
  <2>2. \A s \in Scopes : C[s] \in Nat /\ C[s] <= lim[s]
    BY <1>11, <1>13, SMT DEF LimitsOK
  <2>3. /\ 0 = Cardinality({}) + Total(C) + Items(account)
        /\ 0 = Bytes({}) + COVER_BYTES * Total(C) + Size(account)
    BY <1>7, <1>12, <1>14, SMT
  <2>4. /\ Cardinality({}) + Items(account) <= MAX_JOBS - Total(lim)
        /\ Bytes({}) + Size(account) <= MAX_BYTES - Total(lim) * COVER_BYTES
    <3> DEFINE x == Total(lim) * COVER_BYTES
    <3>1. x \in Nat /\ x <= MAX_BYTES
      BY <1>13, <1>14, SMT
    <3> HIDE DEF x
    <3>2. Bytes({}) + Size(account) <= MAX_BYTES - x
      BY <1>7, <1>12, <1>14, <3>1, SMT
    <3>3. Cardinality({}) + Items(account) <= MAX_JOBS - Total(lim)
      BY <1>7, <1>12, <1>13, <1>14, SMT
    <3> QED BY <3>2, <3>3 DEF x
  <2>5. budget.retained = [items |-> Items(account), bytes |-> Size(account)]
    BY <1>7, <1>8 DEF NoUsage
  <2>6. {} \in SUBSET Jobs
    OBVIOUS
  <2> QED BY <1>4, <1>8, <2>1, <2>2, <2>3, <2>4, <2>5, <2>6 DEF Books
<1> QED BY <1>1, <1>2, <1>4, <1>6, <1>7, <1>9, <1>15 DEF SInv, lim

\* A step that changes nothing.
LEMMA StutterKeeps ==
  ASSUME SInv, UNCHANGED vars
  PROVE  SInv'
<1>1. /\ lane' = lane /\ task' = task /\ natural' = natural /\ bound' = bound
      /\ budget' = budget /\ account' = account
  BY DEF vars, setup
<1>2. TasksOK(task') /\ Mild(task, task') /\ Quiet(lane, lane')
  BY <1>1, SameTasks, SameLanes DEF SInv
<1> QED BY <1>1, <1>2, CalmStep

\* Every step of producers, workers, sending tasks and the outbox keeps the invariant.
LEMMA NextKeeps ==
  ASSUME SInv, [Next]_vars
  PROVE  SInv'
<1>1. ASSUME NEW j \in bound.jobs, Producer(j) PROVE SInv'
  BY <1>1, RouteCalm, RefusedCalm, AdmitKeeps, TouchCalm DEF Producer
<1>2. ASSUME NEW j \in bound.jobs, OpenLane(j) \/ CloseLane(j) PROVE SInv'
  BY <1>2, OpenCloseCalm
<1>3. ASSUME NEW j \in bound.jobs, Sending(j) PROVE SInv'
  BY <1>3, ResolveCalm, ProbeCalm, SendEndsCalm, AnswerCalm, TaskEndsKeeps DEF Sending
<1>4. ASSUME NEW j \in bound.jobs, Deliver(j) \/ Reconnect(j) PROVE SInv'
  BY <1>4, DeliverCalm, ReconnectCalm
<1>5. ASSUME NEW i \in DOMAIN lane, Worker(i) PROVE SInv'
  BY <1>5, WakeCalm, DispatchKeeps, CoverEndsKeeps, DrainKeeps, AbortKeeps DEF Worker
<1>6. ASSUME NEW s \in Scopes, Sweep(s) \/ Shutdown(s) PROVE SInv'
  BY <1>6, SweepCalm
<1>7. ASSUME NEW u \in bound.usages, NEW p, Stage(u, p) PROVE SInv'
  BY <1>7, StageKeeps
<1>8. ASSUME NEW c \in BOOLEAN, EndStage(c) PROVE SInv'
  BY <1>8, EndStageKeeps
<1>9. CASE UNCHANGED vars
  BY <1>9, StutterKeeps
<1>10. CASE Next
  BY <1>1, <1>2, <1>3, <1>4, <1>5, <1>6, <1>7, <1>8, <1>10 DEF Next
<1> QED BY <1>9, <1>10

\* In every reachable state of the schedulers queued jobs are on the lane their task
\* names, every live job is reserved once, and payload keeps out of the allowance of cover.
THEOREM SchedulerInvariant == Spec => []SInv
<1>1. Init => SInv
  BY InitKeeps, SMT
<1>2. SInv /\ [Next]_vars => SInv'
  BY NextKeeps, SMT
<1> QED BY <1>1, <1>2, PTL DEF Spec

\* send_request repeats an ambiguous attempt with the envelope it prepared first.
THEOREM EnvelopeSentOnce == Spec => []OneEnvelope
<1>1. SInv => OneEnvelope
  <2> SUFFICES ASSUME SInv, NEW j \in Jobs PROVE Cardinality(task[j].sent) <= 1
    BY DEF OneEnvelope
  <2>1. task[j].sent = {} \/ task[j].sent = {task[j].wire}
    BY DEF SInv, TasksOK, TaskOK
  <2>2. Cardinality(task[j].sent) \in {0, 1}
    BY <2>1, FS_EmptySet, FS_Singleton
  <2> QED BY <2>2, SMT
<1> QED BY <1>1, SchedulerInvariant, PTL

\* Two jobs that are live at once are never attempts of one ciphertext of a class.
THEOREM AttemptLiveOnce == Spec => []OneLiveAttempt
<1>1. SInv => OneLiveAttempt
  <2> SUFFICES ASSUME SInv, natural, NEW j \in Live, NEW k \in Live,
                      <<Job[j].scope, Job[j].traffic, Job[j].text>>
                        = <<Job[k].scope, Job[k].traffic, Job[k].text>>
               PROVE  j = k
    BY DEF OneLiveAttempt
  <2>1. j \in LiveOf(task) /\ k \in LiveOf(task)
    BY DEF Live, LiveOf
  <2>2. j # k => Att(natural, j) \cap Att(natural, k) = {}
    BY <2>1 DEF SInv, Attempted
  <2> QED BY <2>2 DEF Att
<1> QED BY <1>1, SchedulerInvariant, PTL

\* The counters of the shared budget are what its holders own, at every moment of
\* admission, dispatch, drain, abort, completion and checkpoint.
THEOREM BudgetIsOwned == Spec => []BudgetConserved
<1>1. SInv => BudgetConserved
  <2> SUFFICES ASSUME SInv PROVE BudgetConserved
    BY SMT
  <2> DEFINE C == CoversOf(lane)
             A == account
  <2>1. /\ Books(LiveOf(task), C, A, budget, CoverLimits) /\ LimitsOK(CoverLimits) /\ AccountOK(A)
        /\ Attempted(natural, LiveOf(task), budget)
    BY LimitsAreNat DEF SInv
  <2>2. Live = LiveOf(task) /\ C = [s \in Scopes |-> Cardinality(Covers(s))]
    BY DEF Live, LiveOf, CoversOf, Covering, Covers
  <2>3. budget.jobs <= MAX_JOBS /\ budget.bytes <= MAX_BYTES
    <3> HIDE DEF C
    <3> QED BY <2>1, WithinLimits
  <2>4. /\ budget.jobs = Cardinality(Live) + Total(C) + Items(A)
        /\ budget.bytes = Bytes(Live) + COVER_BYTES * Total(C) + Size(A)
        /\ budget.covers = C /\ budget.retained = [items |-> Items(A), bytes |-> Size(A)]
    BY <2>1, <2>2 DEF Books
  <2>5. budget.attempts = Attempts(Live)
    BY <2>1, <2>2, AttemptIsAtt DEF Attempted
  <2>6. Items(A) = account.usage.items + account.growth.items
        /\ Size(A) = account.usage.bytes + account.growth.bytes
    BY DEF Items, Size
  <2> DEFINE kept == [items |-> account.usage.items + account.growth.items,
                      bytes |-> account.usage.bytes + account.growth.bytes]
  <2>7. kept.items = Items(A) /\ kept.bytes = Size(A) /\ budget.retained = kept
    BY <2>4, <2>6
  <2>8. /\ budget.jobs = Cardinality(Live) + Total(C) + kept.items
        /\ budget.bytes = Bytes(Live) + COVER_BYTES * Total(C) + kept.bytes
    BY <2>4, <2>7
  <2> HIDE DEF kept
  <2>9. LET covers == [s \in Scopes |-> Cardinality(Covers(s))]
        IN  /\ budget.jobs = Cardinality(Live) + Total(covers) + kept.items
            /\ budget.bytes = Bytes(Live) + COVER_BYTES * Total(covers) + kept.bytes
            /\ budget.covers = covers /\ budget.retained = kept
            /\ budget.attempts = Attempts(Live)
            /\ budget.jobs <= MAX_JOBS /\ budget.bytes <= MAX_BYTES
    BY <2>2, <2>3, <2>4, <2>5, <2>7, <2>8
  <2> QED BY <2>9 DEF BudgetConserved, kept
<1> QED BY <1>1, SchedulerInvariant, PTL

\* However much payload was admitted or retained, a GC/1 scheduler below its
\* allowance can reserve a cover request.
THEOREM CoverAlwaysFits == Spec => []CoverCreditKept
<1>1. SInv => CoverCreditKept
  <2> SUFFICES ASSUME SInv, ~natural, NEW s \in Scopes, budget.covers[s] < COVER_LIMIT
               PROVE  CanReserve(budget, s, COVER_BYTES, TRUE, CoverLimits)
    BY DEF CoverCreditKept
  <2> DEFINE C == CoversOf(lane)
             lim == CoverLimits
  <2>1. /\ Books(LiveOf(task), C, account, budget, lim) /\ LimitsOK(lim) /\ AccountOK(account)
    BY LimitsAreNat DEF SInv
  <2>2. lim[s] = COVER_LIMIT
    BY DEF CoverLimits
  <2>3. budget.covers = C /\ \A z \in Scopes : C[z] \in Nat /\ lim[z] \in Nat /\ C[z] <= lim[z]
    BY <2>1 DEF Books, LimitsOK
  <2> HIDE DEF C, lim
  <2>4. budget.covers[s] < lim[s] /\ C[s] < lim[s]
    BY <2>2, <2>3
  <2>5. Total(C) + 1 <= Total(lim)
    BY <2>3, <2>4, TotalMonotone, SMT
  <2>6. /\ Total(C) \in Nat /\ Total(lim) \in Nat /\ COVER_BYTES \in Nat
        /\ MAX_JOBS \in Nat /\ MAX_BYTES \in Nat
    BY <2>1, BooksAreNat
  <2>7. /\ budget.jobs <= MAX_JOBS - Total(lim) + Total(C)
        /\ budget.bytes <= MAX_BYTES - Total(lim) * COVER_BYTES + COVER_BYTES * Total(C)
        /\ budget.jobs \in Nat /\ budget.bytes \in Nat
    BY <2>1, WithinLimits
  <2>8. budget.jobs < MAX_JOBS
    BY <2>5, <2>6, <2>7, SMT
  <2>9. COVER_BYTES <= Less(MAX_BYTES, budget.bytes)
    <3> DEFINE x == Total(lim) * COVER_BYTES
               y == COVER_BYTES * Total(C)
    <3>1. x \in Nat /\ y \in Nat /\ y + COVER_BYTES <= x
      <4> DEFINE d == Total(lim) - (Total(C) + 1)
      <4>1. d \in Nat /\ Total(lim) = d + Total(C) + 1
        BY <2>5, <2>6, SMT
      <4> DEFINE z == d * COVER_BYTES
      <4>2. z \in Nat
        BY <2>6, <4>1, SMT
      <4> HIDE DEF d
      <4>3. x = z + y + COVER_BYTES
        BY <2>6, <4>1, SMT
      <4>4. y \in Nat
        BY <2>6, SMT
      <4> HIDE DEF x, y, z
      <4> QED BY <2>6, <4>2, <4>3, <4>4, SMT
    <3>2. budget.bytes <= MAX_BYTES - x + y
      BY <2>7
    <3> HIDE DEF x, y
    <3> QED BY <2>6, <2>7, <3>1, <3>2, SMT DEF Less
  <2> QED BY <2>4, <2>8, <2>9 DEF CanReserve, lim
<1> QED BY <1>1, SchedulerInvariant, PTL
=============================================================================
