------------------------------ MODULE FiniteSums ------------------------------
(* The sums of the community modules.  SumFunctionOnSet folds a finite set in  *)
(* the order CHOOSE picks its members; these lemmas say that the order does    *)
(* not matter.  An induction is the search for a smallest counterexample.      *)
EXTENDS Integers, FiniteSets, Functions, FiniteSetTheorems, TLAPS

\* A non-empty set of natural numbers has a least element.
LEMMA LeastNatural ==
  ASSUME NEW T \in SUBSET Nat, T # {}
  PROVE  \E x \in T : \A y \in T : x <= y
<1>1. PICK x \in T : \A y \in T : ~(<<y, x>> \in OpToRel(<, Nat))
  BY NatLessThanWellFounded, WFMin, Zenon
<1>2. \A y \in T : ~(y < x)
  BY <1>1, Zenon DEF OpToRel
<1>3. \A y \in T : x <= y
  BY <1>2
<1> QED BY <1>3, Zenon

\* A set that holds 0 and the successor of each of its numbers holds all of them.
LEMMA InductiveSet ==
  ASSUME NEW G, 0 \in G, \A n \in Nat : n \in G => n + 1 \in G
  PROVE  \A n \in Nat : n \in G
<1> DEFINE Bad == Nat \ G
<1> SUFFICES ASSUME Bad # {} PROVE FALSE
  BY Zenon
<1>1. PICK n \in Bad : \A m \in Bad : n <= m
  <2>1. Bad \in SUBSET Nat
    BY Zenon
  <2> QED BY <2>1, LeastNatural, Zenon
<1>2. n \in Nat /\ n # 0 /\ n \notin G
  BY Zenon
<1>3. n - 1 \in Nat /\ ~(n <= n - 1) /\ (n - 1) + 1 = n
  BY <1>2
<1>4. n - 1 \in G
  BY <1>1, <1>3, Zenon
<1> QED BY <1>2, <1>3, <1>4, Zenon

-----------------------------------------------------------------------------
(* The recursive function of the fold, and that it exists *)

Pick(s) == CHOOSE x \in s : TRUE
Step(f, it, s) == IF s = {} THEN 0 ELSE f[Pick(s)] + it[s \ {Pick(s)}]
IsIter(f, S, it) == it = [s \in SUBSET S |-> Step(f, it, s)]

\* Pick picks, and leaves a smaller set.
LEMMA PickSmaller ==
  ASSUME NEW s, IsFiniteSet(s), s # {}
  PROVE  /\ Pick(s) \in s /\ IsFiniteSet(s \ {Pick(s)})
         /\ Cardinality(s) \in Nat \ {0} /\ Cardinality(s \ {Pick(s)}) = Cardinality(s) - 1
<1>1. Pick(s) \in s
  BY Zenon DEF Pick
<1>2. Cardinality(s) \in Nat /\ Cardinality(s) # 0
  BY FS_CardinalityType, FS_EmptySet, Zenon
<1>3. IsFiniteSet(s \ {Pick(s)}) /\ Cardinality(s \ {Pick(s)}) = Cardinality(s) - 1
  BY <1>1, FS_RemoveElement, Zenon
<1> QED BY <1>1, <1>2, <1>3, Zenon

\* SumFunctionOnSet is the value of that function at the whole set.
LEMMA SumIsIter ==
  ASSUME NEW f, NEW S
  PROVE  SumFunctionOnSet(f, S) = (CHOOSE it : IsIter(f, S, it))[S]
BY Zenon DEF SumFunctionOnSet, FoldFunctionOnSet, MapThenFoldSet, IsIter, Step, Pick

\* The recursion has a solution: one on the sets of at most n members extends to
\* those of n + 1.
LEMMA IterExists ==
  ASSUME NEW f, NEW S, IsFiniteSet(S)
  PROVE  \E it : IsIter(f, S, it)
<1> DEFINE Level(n) == {s \in SUBSET S : Cardinality(s) <= n}
           Solved(n) == \E it : it = [s \in Level(n) |-> Step(f, it, s)]
           Bad == {n \in Nat : ~Solved(n)}
<1>1. \A s \in SUBSET S : IsFiniteSet(s) /\ Cardinality(s) \in Nat
                          /\ Cardinality(s) <= Cardinality(S)
  BY FS_Subset, FS_CardinalityType, Zenon
<1>2. Solved(0)
  <2> DEFINE it == [s \in Level(0) |-> 0]
  <2>1. \A s \in Level(0) : s = {}
    <3>1. \A s \in Level(0) : IsFiniteSet(s) /\ Cardinality(s) = 0
      BY <1>1
    <3> QED BY <3>1, FS_EmptySet, Zenon
  <2>2. \A s \in Level(0) : Step(f, it, s) = 0
    BY <2>1, Zenon DEF Step
  <2> HIDE DEF Level
  <2>3. it = [s \in Level(0) |-> Step(f, it, s)]
    BY <2>2, Zenon
  <2> QED BY <2>3, Zenon
<1>3. ASSUME NEW n \in Nat, Solved(n) PROVE Solved(n + 1)
  <2>1. PICK it : it = [s \in Level(n) |-> Step(f, it, s)]
    BY <1>3, Zenon
  <2> DEFINE more == [s \in Level(n + 1) |-> IF s \in Level(n) THEN it[s] ELSE Step(f, it, s)]
  <2>2. ASSUME NEW s \in Level(n + 1), s # {}
        PROVE  s \ {Pick(s)} \in Level(n) /\ s \ {Pick(s)} \in Level(n + 1)
    <3>1. Cardinality(s \ {Pick(s)}) = Cardinality(s) - 1 /\ Cardinality(s) \in Nat
      BY <2>2, <1>1, PickSmaller, Zenon
    <3>2. Cardinality(s) <= n + 1 /\ s \ {Pick(s)} \in SUBSET S
      BY Zenon
    <3>3. Cardinality(s \ {Pick(s)}) <= n /\ Cardinality(s \ {Pick(s)}) <= n + 1
      BY <3>1, <3>2
    <3> QED BY <3>2, <3>3, Zenon
  <2> HIDE DEF Level
  <2>3. ASSUME NEW s \in Level(n + 1), s # {}
        PROVE  more[s \ {Pick(s)}] = it[s \ {Pick(s)}]
    BY <2>2, <2>3, Zenon
  <2>4. ASSUME NEW s \in Level(n + 1)
        PROVE  more[s] = Step(f, more, s)
    <3>1. more[s] = Step(f, it, s)
      BY <2>1, Zenon
    <3> HIDE DEF more
    <3>2. Step(f, more, s) = Step(f, it, s)
      BY <2>3, Zenon DEF Step
    <3> QED BY <3>1, <3>2, Zenon
  <2>5. more = [s \in Level(n + 1) |-> more[s]]
    BY Zenon
  <2> HIDE DEF more
  <2>6. more = [s \in Level(n + 1) |-> Step(f, more, s)]
    BY <2>4, <2>5, Zenon
  <2> QED BY <2>6, Zenon
<1> HIDE DEF Level, Solved
<1>4. Bad = {}
  <2> SUFFICES ASSUME Bad # {} PROVE FALSE
    BY Zenon
  <2>1. PICK n \in Bad : \A m \in Bad : n <= m
    <3>1. Bad \in SUBSET Nat
      BY Zenon
    <3> QED BY <3>1, LeastNatural, Zenon
  <2>2. n \in Nat /\ n # 0
    BY <1>2, Zenon
  <2>3. n - 1 \in Nat /\ ~(n <= n - 1) /\ (n - 1) + 1 = n
    BY <2>2
  <2>4. Solved(n - 1)
    BY <2>1, <2>3, Zenon
  <2>5. Solved((n - 1) + 1)
    BY <2>3, <2>4, <1>3, Zenon
  <2> QED BY <2>3, <2>5, Zenon
<1>5. Cardinality(S) \in Nat
  BY <1>1, Zenon
<1>6. Solved(Cardinality(S))
  BY <1>4, <1>5, Zenon
<1>7. Level(Cardinality(S)) = SUBSET S
  BY <1>1, Zenon DEF Level
<1> QED BY <1>6, <1>7, Zenon DEF Solved, IsIter

\* Solutions agree wherever the functions they sum agree.
LEMMA IterUnique ==
  ASSUME NEW f, NEW g, NEW S, NEW T, NEW a, NEW b, IsIter(f, S, a), IsIter(g, T, b),
         NEW U, U \subseteq S, U \subseteq T, IsFiniteSet(U), \A x \in U : f[x] = g[x]
  PROVE  a[U] = b[U]
<1> DEFINE Bad == {n \in Nat : \E s \in SUBSET U : Cardinality(s) = n /\ a[s] # b[s]}
<1>1. \A s \in SUBSET U : /\ IsFiniteSet(s) /\ Cardinality(s) \in Nat
                          /\ a[s] = Step(f, a, s) /\ b[s] = Step(g, b, s)
  <2>1. \A s \in SUBSET U : s \in SUBSET S /\ s \in SUBSET T
    BY Zenon
  <2>2. \A s \in SUBSET S : a[s] = Step(f, a, s)
    BY Zenon DEF IsIter
  <2>3. \A s \in SUBSET T : b[s] = Step(g, b, s)
    BY Zenon DEF IsIter
  <2> QED BY <2>1, <2>2, <2>3, FS_Subset, FS_CardinalityType, Zenon
<1>2. Bad = {}
  <2> SUFFICES ASSUME Bad # {} PROVE FALSE
    BY Zenon
  <2>1. PICK n \in Bad : \A m \in Bad : n <= m
    <3>1. Bad \in SUBSET Nat
      BY Zenon
    <3> QED BY <3>1, LeastNatural, Zenon
  <2>2. PICK s \in SUBSET U : Cardinality(s) = n /\ a[s] # b[s]
    BY <2>1, Zenon
  <2>3. s # {}
    BY <2>2, <1>1, Zenon DEF Step
  <2> DEFINE r == s \ {Pick(s)}
  <2>4. Pick(s) \in U /\ r \in SUBSET U /\ n \in Nat /\ n # 0 /\ Cardinality(r) = n - 1
    BY <2>2, <2>3, <1>1, PickSmaller, Zenon
  <2>5. a[s] = f[Pick(s)] + a[r] /\ b[s] = g[Pick(s)] + b[r]
    BY <2>3, <1>1, Zenon DEF Step
  <2> HIDE DEF r
  <2>6. n - 1 \in Nat /\ ~(n <= n - 1)
    BY <2>4
  <2>7. a[r] = b[r]
    BY <2>1, <2>4, <2>6, Zenon
  <2> QED BY <2>2, <2>4, <2>5, <2>7, Zenon
<1>3. U \in SUBSET U /\ Cardinality(U) \in Nat
  BY <1>1, Zenon
<1> QED BY <1>2, <1>3, Zenon

-----------------------------------------------------------------------------
(* Sums *)

\* The sum over no member.
LEMMA SumEmpty ==
  ASSUME NEW f
  PROVE  SumFunctionOnSet(f, {}) = 0
<1> DEFINE it == CHOOSE it : IsIter(f, {}, it)
<1>1. IsIter(f, {}, it)
  BY IterExists, FS_EmptySet, Zenon
<1> HIDE DEF it
<1>2. it[{}] = Step(f, it, {})
  BY <1>1, Zenon DEF IsIter
<1> QED BY <1>2, SumIsIter, Zenon DEF Step, it

\* The sum looks at the members of the set only.
LEMMA SumSame ==
  ASSUME NEW f, NEW g, NEW S, IsFiniteSet(S), \A x \in S : f[x] = g[x]
  PROVE  SumFunctionOnSet(f, S) = SumFunctionOnSet(g, S)
<1> DEFINE a == CHOOSE it : IsIter(f, S, it)
           b == CHOOSE it : IsIter(g, S, it)
<1>1. IsIter(f, S, a) /\ IsIter(g, S, b)
  BY IterExists, Zenon
<1>2. SumFunctionOnSet(f, S) = a[S] /\ SumFunctionOnSet(g, S) = b[S]
  BY SumIsIter, Zenon
<1> HIDE DEF a, b
<1>3. S \subseteq S
  BY Zenon
<1>4. a[S] = b[S]
  BY <1>1, <1>3, IterUnique
<1> QED BY <1>2, <1>4, Zenon

\* The step of the fold.
LEMMA SumStep ==
  ASSUME NEW f, NEW S, IsFiniteSet(S), S # {}
  PROVE  SumFunctionOnSet(f, S) = f[Pick(S)] + SumFunctionOnSet(f, S \ {Pick(S)})
<1> DEFINE r == S \ {Pick(S)}
           a == CHOOSE it : IsIter(f, S, it)
           b == CHOOSE it : IsIter(f, r, it)
<1>1. IsFiniteSet(r) /\ r \subseteq S /\ r \subseteq r
  BY PickSmaller, Zenon
<1>2. IsIter(f, S, a) /\ IsIter(f, r, b)
  BY <1>1, IterExists, Zenon
<1>3. SumFunctionOnSet(f, S) = a[S] /\ SumFunctionOnSet(f, r) = b[r]
  BY SumIsIter, Zenon
<1> HIDE DEF a, b, r
<1>4. a[S] = Step(f, a, S)
  BY <1>2, Zenon DEF IsIter
<1>5. a[r] = b[r]
  <2>1. \A x \in r : f[x] = f[x]
    BY Zenon
  <2> QED BY <2>1, <1>1, <1>2, IterUnique
<1> QED BY <1>3, <1>4, <1>5, Zenon DEF Step, r

\* A sum of natural numbers.
LEMMA SumNat ==
  ASSUME NEW f, NEW S, IsFiniteSet(S), \A x \in S : f[x] \in Nat
  PROVE  SumFunctionOnSet(f, S) \in Nat
<1> DEFINE Bad == {n \in Nat : \E s \in SUBSET S :
                     Cardinality(s) = n /\ SumFunctionOnSet(f, s) \notin Nat}
<1>1. \A s \in SUBSET S : IsFiniteSet(s) /\ Cardinality(s) \in Nat
  BY FS_Subset, FS_CardinalityType, Zenon
<1>2. Bad = {}
  <2> SUFFICES ASSUME Bad # {} PROVE FALSE
    BY Zenon
  <2>1. PICK n \in Bad : \A m \in Bad : n <= m
    <3>1. Bad \in SUBSET Nat
      BY Zenon
    <3> QED BY <3>1, LeastNatural, Zenon
  <2>2. PICK s \in SUBSET S : Cardinality(s) = n /\ SumFunctionOnSet(f, s) \notin Nat
    BY <2>1, Zenon
  <2>3. s # {}
    <3>1. 0 \in Nat
      OBVIOUS
    <3> QED BY <3>1, <2>2, SumEmpty, Zenon
  <2> DEFINE r == s \ {Pick(s)}
  <2>4. Pick(s) \in S /\ r \in SUBSET S /\ n \in Nat /\ n # 0 /\ Cardinality(r) = n - 1
    BY <2>2, <2>3, <1>1, PickSmaller, Zenon
  <2>5. SumFunctionOnSet(f, s) = f[Pick(s)] + SumFunctionOnSet(f, r)
    BY <2>3, <1>1, SumStep, Zenon
  <2> HIDE DEF r
  <2>6. n - 1 \in Nat /\ ~(n <= n - 1)
    BY <2>4
  <2>7. SumFunctionOnSet(f, r) \in Nat /\ f[Pick(s)] \in Nat
    BY <2>1, <2>4, <2>6, Zenon
  <2> QED BY <2>2, <2>5, <2>7
<1>3. S \in SUBSET S /\ Cardinality(S) \in Nat
  BY <1>1, Zenon
<1> QED BY <1>2, <1>3, Zenon

\* A sum of zeros.
LEMMA SumZero ==
  ASSUME NEW f, NEW S, IsFiniteSet(S), \A x \in S : f[x] = 0
  PROVE  SumFunctionOnSet(f, S) = 0
<1> DEFINE Bad == {n \in Nat : \E s \in SUBSET S :
                     Cardinality(s) = n /\ SumFunctionOnSet(f, s) # 0}
<1>1. \A s \in SUBSET S : IsFiniteSet(s) /\ Cardinality(s) \in Nat
  BY FS_Subset, FS_CardinalityType, Zenon
<1>2. Bad = {}
  <2> SUFFICES ASSUME Bad # {} PROVE FALSE
    BY Zenon
  <2>1. PICK n \in Bad : \A m \in Bad : n <= m
    <3>1. Bad \in SUBSET Nat
      BY Zenon
    <3> QED BY <3>1, LeastNatural, Zenon
  <2>2. PICK s \in SUBSET S : Cardinality(s) = n /\ SumFunctionOnSet(f, s) # 0
    BY <2>1, Zenon
  <2>3. s # {}
    BY <2>2, SumEmpty, Zenon
  <2> DEFINE r == s \ {Pick(s)}
  <2>4. Pick(s) \in S /\ r \in SUBSET S /\ n \in Nat /\ n # 0 /\ Cardinality(r) = n - 1
    BY <2>2, <2>3, <1>1, PickSmaller, Zenon
  <2>5. SumFunctionOnSet(f, s) = f[Pick(s)] + SumFunctionOnSet(f, r)
    BY <2>3, <1>1, SumStep, Zenon
  <2> HIDE DEF r
  <2>6. n - 1 \in Nat /\ ~(n <= n - 1)
    BY <2>4
  <2>7. SumFunctionOnSet(f, r) = 0 /\ f[Pick(s)] = 0
    BY <2>1, <2>4, <2>6, Zenon
  <2> QED BY <2>2, <2>5, <2>7
<1>3. S \in SUBSET S /\ Cardinality(S) \in Nat
  BY <1>1, Zenon
<1> QED BY <1>2, <1>3, Zenon

\* Any member may be taken first.
LEMMA SumRemove ==
  ASSUME NEW f, NEW S, IsFiniteSet(S), \A z \in S : f[z] \in Nat, NEW x \in S
  PROVE  SumFunctionOnSet(f, S) = f[x] + SumFunctionOnSet(f, S \ {x})
<1> DEFINE Good(s) == \A y \in s : SumFunctionOnSet(f, s) = f[y] + SumFunctionOnSet(f, s \ {y})
           Bad == {n \in Nat : \E s \in SUBSET S : Cardinality(s) = n /\ ~Good(s)}
<1>1. \A s \in SUBSET S : IsFiniteSet(s) /\ Cardinality(s) \in Nat
  BY FS_Subset, FS_CardinalityType, Zenon
<1>2. Bad = {}
  <2> SUFFICES ASSUME Bad # {} PROVE FALSE
    BY Zenon
  <2>1. PICK n \in Bad : \A m \in Bad : n <= m
    <3>1. Bad \in SUBSET Nat
      BY Zenon
    <3> QED BY <3>1, LeastNatural, Zenon
  <2>2. PICK s \in SUBSET S : Cardinality(s) = n /\ ~Good(s)
    BY <2>1, Zenon
  <2>3. PICK y \in s : SumFunctionOnSet(f, s) # f[y] + SumFunctionOnSet(f, s \ {y})
    BY <2>2, Zenon
  <2> DEFINE c == Pick(s)
             r == s \ {c}
             t == s \ {y}
             q == s \ {c, y}
  <2>4. /\ c \in S /\ y \in S /\ c \in s /\ r \in SUBSET S /\ t \in SUBSET S /\ q \in SUBSET S
        /\ n \in Nat /\ n # 0 /\ Cardinality(r) = n - 1
    BY <2>2, <2>3, <1>1, PickSmaller, Zenon
  <2>5. SumFunctionOnSet(f, s) = f[c] + SumFunctionOnSet(f, r)
    BY <2>3, <1>1, SumStep, Zenon
  <2>6. c # y
    BY <2>3, <2>5, Zenon
  <2>7. Cardinality(t) = n - 1
    BY <2>2, <2>3, <1>1, FS_RemoveElement, Zenon
  <2>8. y \in r /\ c \in t /\ r \ {y} = q /\ t \ {c} = q
    BY <2>3, <2>4, <2>6, Zenon
  <2> HIDE DEF c, r, t, q
  <2>9. n - 1 \in Nat /\ ~(n <= n - 1)
    BY <2>4
  <2>10. Good(r) /\ Good(t)
    BY <2>1, <2>4, <2>7, <2>9, Zenon
  <2>11. /\ SumFunctionOnSet(f, r) = f[y] + SumFunctionOnSet(f, q)
         /\ SumFunctionOnSet(f, t) = f[c] + SumFunctionOnSet(f, q)
    BY <2>8, <2>10, Zenon
  <2>12. f[c] \in Nat /\ f[y] \in Nat /\ SumFunctionOnSet(f, q) \in Nat
    <3>1. IsFiniteSet(q) /\ \A z \in q : f[z] \in Nat
      BY <1>1, <2>4, Zenon
    <3> QED BY <3>1, <2>4, SumNat, Zenon
  <2>13. SumFunctionOnSet(f, s) # f[y] + SumFunctionOnSet(f, t)
    BY <2>3, Zenon DEF t
  <2> QED BY <2>5, <2>11, <2>12, <2>13
<1>3. S \in SUBSET S /\ Cardinality(S) \in Nat
  BY <1>1, Zenon
<1>4. Good(S)
  BY <1>2, <1>3, Zenon
<1> QED BY <1>4, Zenon

\* A member more.
LEMMA SumAdd ==
  ASSUME NEW f, NEW S, IsFiniteSet(S), NEW x, x \notin S, \A z \in S \cup {x} : f[z] \in Nat
  PROVE  SumFunctionOnSet(f, S \cup {x}) = f[x] + SumFunctionOnSet(f, S)
<1> DEFINE T == S \cup {x}
<1>1. T \ {x} = S /\ x \in T /\ \A z \in T : f[z] \in Nat
  BY Zenon
<1>2. IsFiniteSet(T)
  BY FS_AddElement, Zenon
<1> HIDE DEF T
<1>3. SumFunctionOnSet(f, T) = f[x] + SumFunctionOnSet(f, T \ {x})
  BY <1>1, <1>2, SumRemove
<1> QED BY <1>1, <1>3, Zenon DEF T

\* The value of one member changes.
LEMMA SumChange ==
  ASSUME NEW f, NEW g, NEW S, IsFiniteSet(S), NEW x \in S,
         \A z \in S : f[z] \in Nat /\ g[z] \in Nat, \A z \in S : z # x => g[z] = f[z]
  PROVE  SumFunctionOnSet(g, S) = SumFunctionOnSet(f, S) - f[x] + g[x]
<1> DEFINE r == S \ {x}
<1>1. IsFiniteSet(r)
  BY FS_RemoveElement, Zenon
<1>2. SumFunctionOnSet(f, r) = SumFunctionOnSet(g, r)
  <2>1. \A z \in r : f[z] = g[z]
    BY Zenon
  <2> HIDE DEF r
  <2> QED BY <1>1, <2>1, SumSame, Zenon
<1>3. /\ SumFunctionOnSet(f, S) = f[x] + SumFunctionOnSet(f, r)
      /\ SumFunctionOnSet(g, S) = g[x] + SumFunctionOnSet(g, r)
  BY SumRemove
<1>4. SumFunctionOnSet(f, r) \in Nat
  <2>1. \A z \in r : f[z] \in Nat
    BY Zenon
  <2> HIDE DEF r
  <2> QED BY <1>1, <2>1, SumNat, Zenon
<1>5. f[x] \in Nat /\ g[x] \in Nat
  BY Zenon
<1> HIDE DEF r
<1> QED BY <1>2, <1>3, <1>4, <1>5

\* The members of a part, and the others.
LEMMA SumSplit ==
  ASSUME NEW f, NEW S, IsFiniteSet(S), \A z \in S : f[z] \in Nat, NEW T \in SUBSET S
  PROVE  SumFunctionOnSet(f, S) = SumFunctionOnSet(f, T) + SumFunctionOnSet(f, S \ T)
<1> DEFINE Good(s) == SumFunctionOnSet(f, S) = SumFunctionOnSet(f, s) + SumFunctionOnSet(f, S \ s)
           Bad == {n \in Nat : \E s \in SUBSET S : Cardinality(s) = n /\ ~Good(s)}
<1>1. \A s \in SUBSET S : /\ IsFiniteSet(s) /\ Cardinality(s) \in Nat
                          /\ SumFunctionOnSet(f, s) \in Nat
  <2>1. \A s \in SUBSET S : IsFiniteSet(s) /\ \A z \in s : f[z] \in Nat
    BY FS_Subset, Zenon
  <2> QED BY <2>1, FS_CardinalityType, SumNat, Zenon
<1>2. Bad = {}
  <2> SUFFICES ASSUME Bad # {} PROVE FALSE
    BY Zenon
  <2>1. PICK n \in Bad : \A m \in Bad : n <= m
    <3>1. Bad \in SUBSET Nat
      BY Zenon
    <3> QED BY <3>1, LeastNatural, Zenon
  <2>2. PICK s \in SUBSET S : Cardinality(s) = n /\ ~Good(s)
    BY <2>1, Zenon
  <2>3. s # {}
    <3>1. Good({})
      <4>1. S \ {} = S /\ SumFunctionOnSet(f, {}) = 0 /\ SumFunctionOnSet(f, S) \in Nat
        BY <1>1, SumEmpty, Zenon
      <4> QED BY <4>1
    <3> QED BY <3>1, <2>2, Zenon
  <2> DEFINE c == Pick(s)
             r == s \ {c}
             out == S \ s
             rest == S \ r
  <2>4. /\ c \in S /\ c \in s /\ r \in SUBSET S /\ out \in SUBSET S /\ rest \in SUBSET S
        /\ n \in Nat /\ n # 0 /\ Cardinality(r) = n - 1
    BY <2>2, <2>3, <1>1, PickSmaller, Zenon
  <2>5. c \in rest /\ rest \ {c} = out
    BY <2>4, Zenon
  <2>6. SumFunctionOnSet(f, s) = f[c] + SumFunctionOnSet(f, r)
    BY <2>3, <1>1, SumStep, Zenon
  <2>7. ~(SumFunctionOnSet(f, S) = SumFunctionOnSet(f, s) + SumFunctionOnSet(f, out))
    BY <2>2, Zenon
  <2>8. n - 1 \in Nat /\ ~(n <= n - 1)
    BY <2>4
  <2>9. Good(r)
    <3> HIDE DEF Good, r
    <3> QED BY <2>1, <2>4, <2>8, Zenon
  <2>10. SumFunctionOnSet(f, S) = SumFunctionOnSet(f, r) + SumFunctionOnSet(f, rest)
    BY <2>9, Zenon
  <2> HIDE DEF c, r, out, rest, Good
  <2>11. SumFunctionOnSet(f, rest) = f[c] + SumFunctionOnSet(f, out)
    <3>1. IsFiniteSet(rest) /\ \A z \in rest : f[z] \in Nat
      BY <1>1, <2>4, Zenon
    <3> QED BY <3>1, <2>5, SumRemove
  <2>12. f[c] \in Nat /\ SumFunctionOnSet(f, r) \in Nat /\ SumFunctionOnSet(f, out) \in Nat
    BY <1>1, <2>4, Zenon
  <2> QED BY <2>6, <2>7, <2>10, <2>11, <2>12
<1>3. Cardinality(T) \in Nat
  BY <1>1, Zenon
<1>4. Good(T)
  BY <1>2, <1>3, Zenon
<1> QED BY <1>4, Zenon

\* The first of n + 1 terms, and the n others moved down by one.
LEMMA SumShift ==
  ASSUME NEW n \in Nat, NEW f, NEW g, \A i \in 1..(n + 1) : f[i] \in Nat,
         \A i \in 1..n : g[i] = f[i + 1]
  PROVE  SumFunctionOnSet(f, 1..(n + 1)) = f[1] + SumFunctionOnSet(g, 1..n)
<1> DEFINE Good(m) == SumFunctionOnSet(f, 1..(m + 1)) = f[1] + SumFunctionOnSet(g, 1..m)
           Bad == {m \in Nat : m <= n /\ ~Good(m)}
<1>1. \A i \in 1..n : g[i] \in Nat
  <2>1. \A i \in 1..n : i + 1 \in 1..(n + 1)
    OBVIOUS
  <2> QED BY <2>1, Zenon
<1>2. Bad = {}
  <2> SUFFICES ASSUME Bad # {} PROVE FALSE
    BY Zenon
  <2>1. PICK m \in Bad : \A k \in Bad : m <= k
    <3>1. Bad \in SUBSET Nat
      BY Zenon
    <3> QED BY <3>1, LeastNatural, Zenon
  <2>2. m \in Nat /\ m <= n /\ ~Good(m)
    BY Zenon
  <2>3. m # 0
    <3>1. Good(0)
      <4>1. 1..0 = {} /\ 1..(0 + 1) = {} \cup {1} /\ 1 \in 1..(n + 1)
        OBVIOUS
      <4>2. SumFunctionOnSet(f, {} \cup {1}) = f[1] + SumFunctionOnSet(f, {})
        <5>1. \A z \in {} \cup {1} : f[z] \in Nat
          BY <4>1, Zenon
        <5> QED BY <5>1, SumAdd, FS_EmptySet, Zenon
      <4> QED BY <4>1, <4>2, SumEmpty, Zenon
    <3> QED BY <3>1, <2>2, Zenon
  <2> DEFINE A == 1..m
             B == 1..(m - 1)
  <2>4. /\ m - 1 \in Nat /\ m - 1 <= n /\ ~(m <= m - 1) /\ (m - 1) + 1 = m
        /\ 1..(m + 1) = A \cup {m + 1} /\ m + 1 \notin A /\ A = B \cup {m} /\ m \notin B
        /\ 1..(m + 1) \subseteq 1..(n + 1) /\ A \subseteq 1..n /\ m \in 1..n /\ 1 \in 1..(n + 1)
        /\ m + 1 \in 1..(n + 1)
    BY <2>2, <2>3
  <2>5. IsFiniteSet(A) /\ IsFiniteSet(B)
    <3>1. 1 \in Int /\ m \in Int /\ m - 1 \in Int
      BY <2>2
    <3> QED BY <3>1, FS_Interval, Zenon
  <2>6. Good(m - 1)
    <3> HIDE DEF Good
    <3> QED BY <2>1, <2>4, Zenon
  <2>7. SumFunctionOnSet(f, A) = f[1] + SumFunctionOnSet(g, B)
    BY <2>4, <2>6, Zenon
  <2>8. ~(SumFunctionOnSet(f, 1..(m + 1)) = f[1] + SumFunctionOnSet(g, A))
    BY <2>2, Zenon
  <2> HIDE DEF A, B, Good
  <2>9. SumFunctionOnSet(f, 1..(m + 1)) = f[m + 1] + SumFunctionOnSet(f, A)
    <3>1. \A z \in A \cup {m + 1} : f[z] \in Nat
      BY <2>4, Zenon
    <3> QED BY <3>1, <2>4, <2>5, SumAdd, Zenon
  <2>10. SumFunctionOnSet(g, A) = g[m] + SumFunctionOnSet(g, B)
    <3>1. \A z \in B \cup {m} : g[z] \in Nat
      BY <1>1, <2>4, Zenon
    <3> QED BY <3>1, <2>4, <2>5, SumAdd, Zenon
  <2>11. g[m] = f[m + 1] /\ f[m + 1] \in Nat /\ f[1] \in Nat
    BY <2>4, Zenon
  <2>12. SumFunctionOnSet(g, B) \in Nat
    <3>1. \A z \in B : g[z] \in Nat
      BY <1>1, <2>4, Zenon
    <3> QED BY <3>1, <2>5, SumNat, Zenon
  <2> QED BY <2>7, <2>8, <2>9, <2>10, <2>11, <2>12
<1>3. n <= n
  OBVIOUS
<1>4. Good(n)
  BY <1>2, <1>3, Zenon
<1> QED BY <1>4, Zenon

\* A function that is nowhere larger has no larger sum.
LEMMA SumMonotone ==
  ASSUME NEW f, NEW g, NEW S, IsFiniteSet(S),
         \A z \in S : f[z] \in Nat /\ g[z] \in Nat /\ f[z] <= g[z]
  PROVE  SumFunctionOnSet(f, S) <= SumFunctionOnSet(g, S)
<1> DEFINE Good(s) == SumFunctionOnSet(f, s) <= SumFunctionOnSet(g, s)
           G == {n \in Nat : \A s \in SUBSET S : Cardinality(s) = n => Good(s)}
<1>1. \A s \in SUBSET S : IsFiniteSet(s) /\ Cardinality(s) \in Nat
  BY FS_Subset, FS_CardinalityType, Zenon
<1>2. 0 \in G
  <2>1. ASSUME NEW s \in SUBSET S, Cardinality(s) = 0 PROVE Good(s)
    <3>1. s = {}
      BY <1>1, <2>1, FS_EmptySet, Zenon
    <3>2. SumFunctionOnSet(f, {}) = 0 /\ SumFunctionOnSet(g, {}) = 0
      BY SumEmpty, Zenon
    <3>3. SumFunctionOnSet(f, {}) <= SumFunctionOnSet(g, {})
      BY <3>2
    <3> QED BY <3>1, <3>3, Zenon
  <2> HIDE DEF Good
  <2>2. 0 \in Nat
    OBVIOUS
  <2> QED BY <2>1, <2>2, Zenon
<1>3. ASSUME NEW n \in Nat, n \in G PROVE n + 1 \in G
  <2>1. ASSUME NEW s \in SUBSET S, Cardinality(s) = n + 1 PROVE Good(s)
    <3> DEFINE x == Pick(s)
               r == s \ {x}
    <3>1. s # {}
      <4>1. n + 1 # 0
        OBVIOUS
      <4> QED BY <2>1, <4>1, FS_EmptySet, Zenon
    <3>2. x \in s /\ IsFiniteSet(r) /\ Cardinality(r) = Cardinality(s) - 1
      BY <1>1, <3>1, PickSmaller, Zenon
    <3>3. Cardinality(r) = n
      BY <2>1, <3>2
    <3>4. r \in SUBSET S
      BY Zenon
    <3>5. Good(r)
      BY <1>3, <3>3, <3>4, Zenon
    <3>6. /\ SumFunctionOnSet(f, s) = f[x] + SumFunctionOnSet(f, r)
          /\ SumFunctionOnSet(g, s) = g[x] + SumFunctionOnSet(g, r)
      BY <1>1, <3>1, SumStep, Zenon
    <3>7. SumFunctionOnSet(f, r) \in Nat /\ SumFunctionOnSet(g, r) \in Nat
      <4>1. \A z \in r : f[z] \in Nat /\ g[z] \in Nat
        BY <3>4, Zenon
      <4> QED BY <3>2, <4>1, SumNat
    <3>8. f[x] \in Nat /\ g[x] \in Nat /\ f[x] <= g[x]
      BY <3>2, Zenon
    <3> HIDE DEF x, r
    <3> QED BY <3>5, <3>6, <3>7, <3>8
  <2> HIDE DEF Good
  <2>2. n + 1 \in Nat
    OBVIOUS
  <2> QED BY <2>1, <2>2, Zenon
<1> HIDE DEF G
<1>4. \A n \in Nat : n \in G
  BY <1>2, <1>3, InductiveSet, Zenon
<1>5. S \in SUBSET S
  BY Zenon
<1> QED BY <1>1, <1>4, <1>5, Zenon DEF G

\* Smaller somewhere, a smaller sum.
LEMMA SumStrict ==
  ASSUME NEW f, NEW g, NEW S, IsFiniteSet(S),
         \A z \in S : f[z] \in Nat /\ g[z] \in Nat /\ f[z] <= g[z], NEW x \in S, f[x] < g[x]
  PROVE  SumFunctionOnSet(f, S) + 1 <= SumFunctionOnSet(g, S)
<1> DEFINE h == [z \in S |-> IF z = x THEN f[x] + 1 ELSE f[z]]
<1>1. /\ h[x] = f[x] + 1 /\ \A z \in S : z # x => h[z] = f[z]
      /\ \A z \in S : f[z] \in Nat /\ h[z] \in Nat
      /\ \A z \in S : h[z] \in Nat /\ g[z] \in Nat /\ h[z] <= g[z]
  OBVIOUS
<1> HIDE DEF h
<1>2. SumFunctionOnSet(h, S) = SumFunctionOnSet(f, S) - f[x] + h[x]
  BY <1>1, SumChange
<1>3. SumFunctionOnSet(h, S) <= SumFunctionOnSet(g, S)
  BY <1>1, SumMonotone
<1>4. SumFunctionOnSet(h, S) \in Nat /\ SumFunctionOnSet(f, S) \in Nat /\ SumFunctionOnSet(g, S) \in Nat
  BY <1>1, SumNat
<1> QED BY <1>1, <1>2, <1>3, <1>4
=============================================================================
