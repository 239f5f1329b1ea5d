-------------------------------- MODULE Sums --------------------------------
(***************************************************************************)
(* Finite sums, SumFunctionOnSet(f, S), as the balances of this project use *)
(* them.  The library's induction theorems take an operator; here each      *)
(* induction over a finite set is a least counterexample instead, which     *)
(* StrictSubsetOrdering's well-foundedness gives (LeastFailing).            *)
(***************************************************************************)
EXTENDS Integers, FiniteSetsExt, FiniteSetTheorems, WellFoundedInduction, TLAPS

\* Induction over the subsets of a finite set: a non-empty set of them has a least.
LEMMA LeastFailing ==
  ASSUME NEW S, IsFiniteSet(S), NEW Bad, Bad \subseteq SUBSET S, Bad # {}
  PROVE  \E T \in Bad : \A U \in Bad : U \subseteq T => U = T
<1>1. IsWellFoundedOn(StrictSubsetOrdering(S), SUBSET S)
  BY FS_StrictSubsetOrderingWellFounded, FS_FiniteSubsetsOfFinite
<1>2. PICK T \in Bad : \A U \in Bad : ~ (<<U, T>> \in StrictSubsetOrdering(S))
  BY <1>1, WFMin
<1> QED
  BY <1>2 DEF StrictSubsetOrdering

\* The element the fold takes first.
pick(s) == CHOOSE x \in s : TRUE

\* q sums f over every subset of T, in the order in which the fold picks.
Sums(f, q, T) ==
  q = [s \in SUBSET T |-> IF s = {} THEN 0 ELSE f[pick(s)] + q[s \ {pick(s)}]]

\* What the fold picks from a set is in it.
LEMMA Picks == \A s : s # {} => pick(s) \in s
BY DEF pick

\* Two functions that sum f agree wherever both are defined.
LEMMA SumsAgree ==
  ASSUME NEW S, IsFiniteSet(S), NEW f, NEW p, NEW q, NEW A, A \subseteq S, NEW B, B \subseteq S,
         Sums(f, p, A), Sums(f, q, B)
  PROVE  \A s \in SUBSET (A \cap B) : p[s] = q[s]
<1> DEFINE Bad == {s \in SUBSET (A \cap B) : p[s] # q[s]}
<1> SUFFICES ASSUME Bad # {} PROVE FALSE
  OBVIOUS
<1>1. PICK T \in Bad : \A U \in Bad : U \subseteq T => U = T
  <2>1. Bad \subseteq SUBSET S
    OBVIOUS
  <2> HIDE DEF Bad
  <2> QED
    BY <2>1, LeastFailing
<1>2. /\ p[T] = IF T = {} THEN 0 ELSE f[pick(T)] + p[T \ {pick(T)}]
      /\ q[T] = IF T = {} THEN 0 ELSE f[pick(T)] + q[T \ {pick(T)}]
  BY DEF Sums
<1>3. T # {} => T \ {pick(T)} \notin Bad
  BY <1>1, Picks
<1>4. T # {} => p[T \ {pick(T)}] = q[T \ {pick(T)}]
  BY <1>3
<1> QED
  BY <1>2, <1>4

\* There is a function that sums f over every subset of a finite set.
LEMMA SumsExist ==
  ASSUME NEW S, IsFiniteSet(S), NEW f
  PROVE  \E q : Sums(f, q, S)
<1> DEFINE Bad == {T \in SUBSET S : \A q : ~ Sums(f, q, T)}
<1> SUFFICES ASSUME Bad # {} PROVE FALSE
  OBVIOUS
<1>1. PICK T \in Bad : \A U \in Bad : U \subseteq T => U = T
  <2>1. Bad \subseteq SUBSET S
    OBVIOUS
  <2> HIDE DEF Bad
  <2> QED
    BY <2>1, LeastFailing
<1> DEFINE of(U) == CHOOSE q : Sums(f, q, U)
           rest(s) == s \ {pick(s)}
           g == [s \in SUBSET T |-> IF s = {} THEN 0 ELSE f[pick(s)] + of(rest(s))[rest(s)]]
<1>2. \A U \in SUBSET T : U # T => Sums(f, of(U), U)
  <2> SUFFICES ASSUME NEW U \in SUBSET T, U # T PROVE \E q : Sums(f, q, U)
    OBVIOUS
  <2> QED
    BY <1>1
<1>3. \A s \in SUBSET T : s # {} => rest(s) \in SUBSET T /\ rest(s) # T /\ rest(s) # s
  BY Picks
<1>4. \A s \in SUBSET T : s # {} => of(rest(s))[rest(s)] = g[rest(s)]
  <2> SUFFICES ASSUME NEW s \in SUBSET T, s # {} PROVE of(rest(s))[rest(s)] = g[rest(s)]
    OBVIOUS
  <2> DEFINE u == rest(s)
  <2>1. u \in SUBSET T /\ Sums(f, of(u), u)
    BY <1>2, <1>3
  <2>2. CASE u = {}
    <3>1. of(u)[u] = 0
      BY <2>1, <2>2 DEF Sums
    <3>2. g[u] = 0
      BY <2>1, <2>2
    <3> QED BY <3>1, <3>2
  <2>3. CASE u # {}
    <3>1. of(u)[u] = f[pick(u)] + of(u)[rest(u)]
      <4> HIDE DEF of
      <4> QED BY <2>1, <2>3 DEF Sums
    <3>2. g[u] = f[pick(u)] + of(rest(u))[rest(u)]
      BY <2>1, <2>3
    <3>3. rest(u) \in SUBSET T /\ rest(u) # T /\ rest(u) \subseteq u
      BY <1>3, <2>1, <2>3
    <3>4. Sums(f, of(rest(u)), rest(u))
      BY <1>2, <3>3
    <3>5. of(u)[rest(u)] = of(rest(u))[rest(u)]
      <4>1. u \subseteq S /\ rest(u) \subseteq S /\ rest(u) \in SUBSET (u \cap rest(u))
        BY <2>1, <3>3
      <4> HIDE DEF of, rest
      <4> QED BY <2>1, <3>4, <4>1, SumsAgree
    <3> QED BY <3>1, <3>2, <3>5
  <2> QED BY <2>2, <2>3
<1>5. Sums(f, g, T)
  <2>1. \A s \in SUBSET T : s # {} => g[s] = f[pick(s)] + g[s \ {pick(s)}]
    BY <1>4
  <2> DEFINE gg == [s \in SUBSET T |-> IF s = {} THEN 0 ELSE f[pick(s)] + g[s \ {pick(s)}]]
  <2>2. \A s \in SUBSET T : gg[s] = g[s]
    BY <2>1
  <2>3. g = gg
    <3>1. g = [s \in SUBSET T |-> g[s]] OBVIOUS
    <3>2. gg = [s \in SUBSET T |-> gg[s]] OBVIOUS
    <3> HIDE DEF g, gg
    <3> QED BY <2>2, <3>1, <3>2
  <2> HIDE DEF g
  <2> QED BY <2>3 DEF Sums
<1> QED
  BY <1>5

\* A sum over a finite set unfolds once: SumFunctionOnSet's recursion is well founded.
LEMMA SumStep ==
  ASSUME NEW S, IsFiniteSet(S), NEW f
  PROVE  SumFunctionOnSet(f, S) =
           IF S = {} THEN 0 ELSE f[pick(S)] + SumFunctionOnSet(f, S \ {pick(S)})
<1> DEFINE it(T) == CHOOSE q : Sums(f, q, T)
           R == S \ {pick(S)}
<1>1. \A T : SumFunctionOnSet(f, T) = it(T)[T]
  BY DEF SumFunctionOnSet, FoldFunctionOnSet, MapThenFoldSet, pick, Sums
<1>2. R \subseteq S /\ IsFiniteSet(R)
  BY FS_Subset
<1>3. Sums(f, it(S), S) /\ Sums(f, it(R), R)
  <2> HIDE DEF R
  <2> QED
    BY <1>2, SumsExist
<1> HIDE DEF it
<1>4. it(S)[S] = IF S = {} THEN 0 ELSE f[pick(S)] + it(S)[R]
  BY <1>3 DEF Sums
<1>5. it(S)[R] = it(R)[R]
  <2>1. R \in SUBSET (S \cap R)
    BY <1>2
  <2> HIDE DEF R
  <2> QED
    BY <2>1, <1>2, <1>3, SumsAgree
<1> QED
  BY <1>1, <1>4, <1>5

\* The sum over no element is 0.
LEMMA SumEmpty == \A f : SumFunctionOnSet(f, {}) = 0
BY SumStep, FS_EmptySet

\* A sum of naturals is a natural.
LEMMA SumNat ==
  ASSUME NEW S, IsFiniteSet(S), NEW f, \A x \in S : f[x] \in Nat
  PROVE  SumFunctionOnSet(f, S) \in Nat
<1> DEFINE Bad == {T \in SUBSET S : SumFunctionOnSet(f, T) \notin Nat}
<1> SUFFICES ASSUME Bad # {} PROVE FALSE
  OBVIOUS
<1>1. PICK T \in Bad : \A U \in Bad : U \subseteq T => U = T
  <2>1. Bad \subseteq SUBSET S
    OBVIOUS
  <2> HIDE DEF Bad
  <2> QED
    BY <2>1, LeastFailing
<1>2. IsFiniteSet(T)
  BY FS_Subset
<1>3. T # {} => T \ {pick(T)} \notin Bad /\ T \ {pick(T)} \subseteq S /\ pick(T) \in S
  BY <1>1, Picks
<1>4. SumFunctionOnSet(f, T) \notin Nat
  OBVIOUS
<1>5. T # {} => f[pick(T)] \in Nat /\ SumFunctionOnSet(f, T \ {pick(T)}) \in Nat
  BY <1>3
<1>6. SumFunctionOnSet(f, T) =
        IF T = {} THEN 0 ELSE f[pick(T)] + SumFunctionOnSet(f, T \ {pick(T)})
  BY <1>2, SumStep
<1> QED
  BY <1>4, <1>5, <1>6

\* A sum of zeros is 0.
LEMMA SumZero ==
  ASSUME NEW S, IsFiniteSet(S), NEW f, \A x \in S : f[x] = 0
  PROVE  SumFunctionOnSet(f, S) = 0
<1> DEFINE Bad == {T \in SUBSET S : SumFunctionOnSet(f, T) # 0}
<1> SUFFICES ASSUME Bad # {} PROVE FALSE
  OBVIOUS
<1>1. PICK T \in Bad : \A U \in Bad : U \subseteq T => U = T
  <2>1. Bad \subseteq SUBSET S
    OBVIOUS
  <2> HIDE DEF Bad
  <2> QED
    BY <2>1, LeastFailing
<1>2. IsFiniteSet(T)
  BY FS_Subset
<1>3. T # {} => T \ {pick(T)} \notin Bad /\ T \ {pick(T)} \subseteq S /\ pick(T) \in S
  BY <1>1, Picks
<1>4. SumFunctionOnSet(f, T) =
        IF T = {} THEN 0 ELSE f[pick(T)] + SumFunctionOnSet(f, T \ {pick(T)})
  BY <1>2, SumStep
<1> QED
  BY <1>3, <1>4

\* A sum depends on the function's values on the set alone.
LEMMA SumSame ==
  ASSUME NEW S, IsFiniteSet(S), NEW f, NEW g, \A x \in S : f[x] = g[x]
  PROVE  SumFunctionOnSet(f, S) = SumFunctionOnSet(g, S)
<1> DEFINE Bad == {T \in SUBSET S : SumFunctionOnSet(f, T) # SumFunctionOnSet(g, T)}
<1> SUFFICES ASSUME Bad # {} PROVE FALSE
  OBVIOUS
<1>1. PICK T \in Bad : \A U \in Bad : U \subseteq T => U = T
  <2>1. Bad \subseteq SUBSET S
    OBVIOUS
  <2> HIDE DEF Bad
  <2> QED
    BY <2>1, LeastFailing
<1>2. IsFiniteSet(T)
  BY FS_Subset
<1>3. T # {} => T \ {pick(T)} \notin Bad /\ T \ {pick(T)} \subseteq S /\ pick(T) \in S
  BY <1>1, Picks
<1> QED
  BY <1>2, <1>3, SumStep

\* Any element can be taken out of a sum, not only the one the fold picks.
LEMMA SumTake ==
  ASSUME NEW S, IsFiniteSet(S), NEW f, \A x \in S : f[x] \in Nat, NEW a \in S
  PROVE  SumFunctionOnSet(f, S) = f[a] + SumFunctionOnSet(f, S \ {a})
<1> DEFINE Sum(T) == SumFunctionOnSet(f, T)
           Bad == {T \in SUBSET S : \E b \in T : Sum(T) # f[b] + Sum(T \ {b})}
<1> SUFFICES ASSUME Bad # {} PROVE FALSE
  OBVIOUS
<1>1. PICK T \in Bad : \A U \in Bad : U \subseteq T => U = T
  <2>1. Bad \subseteq SUBSET S
    OBVIOUS
  <2> HIDE DEF Bad
  <2> QED
    BY <2>1, LeastFailing
<1>2. PICK b \in T : Sum(T) # f[b] + Sum(T \ {b})
  OBVIOUS
<1> DEFINE c == pick(T)
<1>3. c \in T /\ c # b /\ Sum(T) = f[c] + Sum(T \ {c})
  BY <1>2, Picks, SumStep, FS_Subset
<1>4. T \ {c} \notin Bad /\ T \ {b} \notin Bad /\ T \ {b} \subseteq S /\ T \ {c} \subseteq S
  BY <1>1, <1>3
<1> DEFINE m == Sum((T \ {c}) \ {b})
<1>5. Sum(T \ {c}) = f[b] + m
  BY <1>2, <1>3, <1>4
<1>6. Sum(T \ {b}) = f[c] + m
  <2>1. (T \ {c}) \ {b} = (T \ {b}) \ {c}
    OBVIOUS
  <2>2. Sum(T \ {b}) = f[c] + Sum((T \ {b}) \ {c})
    BY <1>2, <1>3, <1>4
  <2> QED
    BY <2>1, <2>2
<1>7. m \in Nat /\ f[b] \in Nat /\ f[c] \in Nat
  <2>1. (T \ {c}) \ {b} \subseteq S
    OBVIOUS
  <2> QED
    BY <2>1, <1>3, SumNat, FS_Subset
<1>8. Sum(T) = f[c] + Sum(T \ {c})
  BY <1>3
<1> HIDE DEF Sum, c, m, Bad
<1>9. Sum(T) = f[b] + Sum(T \ {b})
  BY <1>5, <1>6, <1>7, <1>8
<1> QED
  BY <1>2, <1>9

\* A sum when one element enters, leaves or changes its value.
LEMMA SumChange ==
  ASSUME NEW S, IsFiniteSet(S), NEW f, \A x \in S : f[x] \in Nat, NEW a,
         NEW T, \A x : x # a => (x \in T <=> x \in S),
         NEW g, a \in T => g[a] \in Nat, \A x \in S \ {a} : g[x] = f[x]
  PROVE  /\ SumFunctionOnSet(f, S) \in Nat /\ SumFunctionOnSet(g, T) \in Nat
         /\ SumFunctionOnSet(g, T) = SumFunctionOnSet(f, S)
              - (IF a \in S THEN f[a] ELSE 0) + (IF a \in T THEN g[a] ELSE 0)
<1> DEFINE R == S \ {a}
<1>1. IsFiniteSet(R) /\ \A x \in R : f[x] \in Nat /\ g[x] = f[x] /\ x \in T
  BY FS_Subset
<1>2. /\ a \in S => S = R \cup {a}
      /\ a \notin S => S = R
      /\ a \in T => T = R \cup {a}
      /\ a \notin T => T = R
  <2>1. \A x : x \in T <=> (x \in R \/ (x = a /\ a \in T))
    OBVIOUS
  <2>2. \A x : x \in S <=> (x \in R \/ (x = a /\ a \in S))
    OBVIOUS
  <2> HIDE DEF R
  <2>3. a \notin T => T = R
    BY <2>1, Zenon
  <2>4. a \notin S => S = R
    BY <2>2, Zenon
  <2> QED
    BY <2>1, <2>2, <2>3, <2>4
<1>3. a \notin R
  OBVIOUS
<1> HIDE DEF R
<1>4. IsFiniteSet(T) /\ \A x \in T : g[x] \in Nat
  BY <1>1, <1>2, FS_AddElement
<1>5. SumFunctionOnSet(g, R) = SumFunctionOnSet(f, R)
  BY <1>1, SumSame
<1>6. SumFunctionOnSet(f, R) \in Nat
  BY <1>1, SumNat
<1>7. a \in S => SumFunctionOnSet(f, S) = f[a] + SumFunctionOnSet(f, R) /\ f[a] \in Nat
  BY SumTake DEF R
<1>8. a \in T => SumFunctionOnSet(g, T) = g[a] + SumFunctionOnSet(g, R) /\ g[a] \in Nat
  <2> SUFFICES ASSUME a \in T PROVE SumFunctionOnSet(g, T) = g[a] + SumFunctionOnSet(g, R)
    OBVIOUS
  <2>1. T \ {a} = R
    BY <1>2, <1>3
  <2> QED
    BY <1>4, <2>1, SumTake
<1> QED
  BY <1>2, <1>5, <1>6, <1>7, <1>8

\* A part of a finite set splits its sum in two.
LEMMA SumSplit ==
  ASSUME NEW S, IsFiniteSet(S), NEW f, \A x \in S : f[x] \in Nat, NEW A, A \subseteq S
  PROVE  SumFunctionOnSet(f, S) = SumFunctionOnSet(f, A) + SumFunctionOnSet(f, S \ A)
<1> DEFINE Sum(T) == SumFunctionOnSet(f, T)
           Bad == {T \in SUBSET S : Sum(T) # Sum(T \cap A) + Sum(T \ A)}
<1> SUFFICES Bad = {}
  <2> SUFFICES S \notin Bad
    <3>1. S \cap A = A
      OBVIOUS
    <3> QED
      BY <3>1
  <2> QED
    OBVIOUS
<1> SUFFICES ASSUME Bad # {} PROVE FALSE
  OBVIOUS
<1>1. PICK T \in Bad : \A U \in Bad : U \subseteq T => U = T
  <2>1. Bad \subseteq SUBSET S
    OBVIOUS
  <2> HIDE DEF Bad
  <2> QED
    BY <2>1, LeastFailing
<1>8. Sum(T) # Sum(T \cap A) + Sum(T \ A)
  OBVIOUS
<1>2. T # {}
  <2> SUFFICES ASSUME T = {} PROVE FALSE
    OBVIOUS
  <2>1. T \cap A = {} /\ T \ A = {}
    OBVIOUS
  <2>2. Sum(T) = 0 /\ Sum(T \cap A) = 0 /\ Sum(T \ A) = 0
    BY <2>1, SumEmpty
  <2> HIDE DEF Sum, Bad
  <2> QED
    BY <1>8, <2>2
<1>3. PICK c \in T : TRUE
  BY <1>2
<1> DEFINE U == T \ {c}
<1>4. U \subseteq S /\ U # T /\ U \subseteq T /\ c \in S /\ T \subseteq S
  OBVIOUS
<1>5. Sum(U) = Sum(U \cap A) + Sum(U \ A)
  BY <1>1, <1>4
<1>6. \A V \in SUBSET S : IsFiniteSet(V) /\ Sum(V) \in Nat
  BY SumNat, FS_Subset
<1>7. Sum(T) = f[c] + Sum(U) /\ f[c] \in Nat
  BY <1>4, <1>6, SumTake
<1> DEFINE inA == Sum(U \cap A)
           outA == Sum(U \ A)
<1>9. CASE c \in A
  <2>1. T \ A = U \ A /\ (T \cap A) \ {c} = U \cap A /\ c \in T \cap A /\ T \cap A \subseteq S
    BY <1>9
  <2>2. Sum(T \cap A) = f[c] + Sum(U \cap A)
    BY <1>6, <2>1, SumTake
  <2>3. inA \in Nat /\ outA \in Nat
    BY <1>4, <1>6
  <2>4. Sum(T) = f[c] + (inA + outA) /\ Sum(T) # (f[c] + inA) + outA
    BY <1>5, <1>7, <1>8, <2>1, <2>2
  <2> HIDE DEF inA, outA, Sum
  <2> QED
    BY <1>7, <2>3, <2>4
<1>10. CASE c \notin A
  <2>1. T \cap A = U \cap A /\ (T \ A) \ {c} = U \ A /\ c \in T \ A /\ T \ A \subseteq S
    BY <1>10
  <2>2. Sum(T \ A) = f[c] + Sum(U \ A)
    BY <1>6, <2>1, SumTake
  <2>3. inA \in Nat /\ outA \in Nat
    BY <1>4, <1>6
  <2>4. Sum(T) = f[c] + (inA + outA) /\ Sum(T) # inA + (f[c] + outA)
    BY <1>5, <1>7, <1>8, <2>1, <2>2
  <2> HIDE DEF inA, outA, Sum
  <2> QED
    BY <1>7, <2>3, <2>4
<1> QED
  BY <1>9, <1>10

\* No value exceeds the sum it is part of.
LEMMA SumCovers ==
  ASSUME NEW S, IsFiniteSet(S), NEW f, \A x \in S : f[x] \in Nat, NEW a \in S
  PROVE  f[a] <= SumFunctionOnSet(f, S)
<1>1. SumFunctionOnSet(f, S) = f[a] + SumFunctionOnSet(f, S \ {a})
  BY SumTake
<1>2. SumFunctionOnSet(f, S \ {a}) \in Nat
  BY SumNat, FS_Subset
<1> QED
  BY <1>1, <1>2

\* A bound on each value, as a share of another's, bounds the sum.
LEMMA SumScaled ==
  ASSUME NEW S, IsFiniteSet(S), NEW f, NEW g, \A x \in S : f[x] \in Nat /\ g[x] \in Nat,
         NEW c \in Nat, NEW d \in Nat, \A x \in S : f[x] * d <= c * g[x]
  PROVE  SumFunctionOnSet(f, S) * d <= c * SumFunctionOnSet(g, S)
<1> DEFINE F(T) == SumFunctionOnSet(f, T)
           G(T) == SumFunctionOnSet(g, T)
           Bad == {T \in SUBSET S : ~ (F(T) * d <= c * G(T))}
<1> SUFFICES ASSUME Bad # {} PROVE FALSE
  OBVIOUS
<1>1. PICK T \in Bad : \A U \in Bad : U \subseteq T => U = T
  <2>1. Bad \subseteq SUBSET S
    OBVIOUS
  <2> HIDE DEF Bad
  <2> QED
    BY <2>1, LeastFailing
<1>2. T # {}
  <2>1. F({}) = 0 /\ G({}) = 0
    BY SumEmpty
  <2> QED
    BY <2>1
<1>3. PICK x \in T : TRUE
  BY <1>2
<1> DEFINE U == T \ {x}
<1>4. U \subseteq S /\ U \subseteq T /\ U # T /\ x \in S /\ T \subseteq S
  OBVIOUS
<1>5. F(U) * d <= c * G(U)
  BY <1>1, <1>4
<1>6. IsFiniteSet(T) /\ IsFiniteSet(U)
  BY <1>4, FS_Subset
<1>7. F(T) = f[x] + F(U) /\ G(T) = g[x] + G(U)
  BY <1>4, <1>6, SumTake
<1>8. F(U) \in Nat /\ G(U) \in Nat /\ f[x] \in Nat /\ g[x] \in Nat /\ f[x] * d <= c * g[x]
  BY <1>4, <1>6, SumNat
<1>9. ~ (F(T) * d <= c * G(T))
  OBVIOUS
<1> HIDE DEF F, G, U
<1>10. F(T) * d = f[x] * d + F(U) * d /\ c * G(T) = c * g[x] + c * G(U)
  BY <1>7, <1>8
<1>11. \A p, q, m, n \in Int : p <= m /\ q <= n => p + q <= m + n
  OBVIOUS
<1>12. f[x] * d \in Int /\ F(U) * d \in Int /\ c * g[x] \in Int /\ c * G(U) \in Int
  BY <1>8
<1> QED
  BY <1>5, <1>8, <1>9, <1>10, <1>11, <1>12

\* A sum over an interval is that over the interval moved up.
LEMMA SumShift ==
  ASSUME NEW n \in Nat, NEW k \in Nat, NEW f, NEW g, \A i \in 1..n : g[i] \in Nat /\ g[i] = f[i + k]
  PROVE  SumFunctionOnSet(g, 1..n) = SumFunctionOnSet(f, (k + 1)..(k + n))
<1> DEFINE S == 1..n
           up(T) == {i + k : i \in T}
           Bad == {T \in SUBSET S : SumFunctionOnSet(g, T) # SumFunctionOnSet(f, up(T))}
<1>1. up(S) = (k + 1)..(k + n)
  <2>1. ASSUME NEW j \in (k + 1)..(k + n) PROVE j \in up(S)
    <3>1. j - k \in S /\ j = (j - k) + k
      OBVIOUS
    <3> QED
      BY <3>1
  <2>2. ASSUME NEW i \in S PROVE i + k \in (k + 1)..(k + n)
    OBVIOUS
  <2> QED
    BY <2>1, <2>2
<1>2. IsFiniteSet(S) /\ IsFiniteSet((k + 1)..(k + n))
  BY FS_Interval
<1> SUFFICES ASSUME Bad # {} PROVE FALSE
  BY <1>1
<1>3. PICK T \in Bad : \A U \in Bad : U \subseteq T => U = T
  <2>1. Bad \subseteq SUBSET S
    OBVIOUS
  <2>2. IsFiniteSet(S)
    BY <1>2
  <2> HIDE DEF Bad, S
  <2> QED
    BY <2>1, <2>2, LeastFailing
<1>4. T \subseteq S /\ SumFunctionOnSet(g, T) # SumFunctionOnSet(f, up(T))
  OBVIOUS
<1>5. T # {}
  <2>1. up({}) = {}
    OBVIOUS
  <2> HIDE DEF up
  <2> QED
    BY <1>4, <2>1, SumEmpty
<1>6. PICK i \in T : TRUE
  BY <1>5
<1> DEFINE R == T \ {i}
<1>7. R \notin Bad /\ R \subseteq S
  BY <1>3, <1>4
<1>8. SumFunctionOnSet(g, R) = SumFunctionOnSet(f, up(R))
  BY <1>7
<1>9. up(T) \ {i + k} = up(R) /\ i + k \in up(T) /\ up(T) \subseteq up(S)
  BY <1>4
<1>10. IsFiniteSet(T) /\ IsFiniteSet(up(T))
  BY <1>1, <1>2, <1>4, <1>9, FS_Subset
<1>11. \A j \in up(T) : f[j] \in Nat
  BY <1>4
<1>12. SumFunctionOnSet(f, up(T)) = f[i + k] + SumFunctionOnSet(f, up(T) \ {i + k})
  <2> HIDE DEF up
  <2> QED
    BY <1>9, <1>10, <1>11, SumTake
<1>13. SumFunctionOnSet(g, T) = g[i] + SumFunctionOnSet(g, R)
  BY <1>4, <1>10, SumTake
<1>14. g[i] = f[i + k]
  BY <1>4
<1> HIDE DEF up, R
<1> QED
  BY <1>4, <1>8, <1>9, <1>12, <1>13, <1>14

\* A sum of n equal values is their product.
LEMMA SumConstant ==
  ASSUME NEW n \in Nat, NEW c \in Nat, NEW f, \A i \in 1..n : f[i] = c
  PROVE  SumFunctionOnSet(f, 1..n) = c * n
<1> DEFINE Good(m) == SumFunctionOnSet(f, 1..m) = c * m
           Bad == {1..m : m \in {k \in 0..n : ~ Good(k)}}
           S == 1..n
<1> SUFFICES ASSUME Bad # {} PROVE FALSE
  OBVIOUS
<1>1. PICK T \in Bad : \A U \in Bad : U \subseteq T => U = T
  <2>1. IsFiniteSet(S)
    BY FS_Interval
  <2>2. Bad \subseteq SUBSET S
    <3> SUFFICES ASSUME NEW m \in 0..n PROVE 1..m \subseteq S
      OBVIOUS
    <3> QED
      OBVIOUS
  <2> HIDE DEF Bad, S
  <2> QED
    BY <2>1, <2>2, LeastFailing
<1>2. PICK m \in 0..n : ~ Good(m) /\ T = 1..m
  OBVIOUS
<1>3. m # 0
  <2>1. 1..0 = {} /\ c * 0 = 0
    OBVIOUS
  <2> QED
    BY <1>2, <2>1, SumEmpty
<1>4. m - 1 \in 0..n /\ 1..(m - 1) \subseteq 1..m /\ m \in 1..m /\ m \notin 1..(m - 1)
  BY <1>3
<1>5. Good(m - 1)
  <2> SUFFICES ASSUME ~ Good(m - 1) PROVE FALSE
    OBVIOUS
  <2>1. 1..(m - 1) \in Bad
    BY <1>4
  <2> QED
    BY <1>1, <1>2, <1>4, <2>1
<1>6. (1..m) \ {m} = 1..(m - 1)
  BY <1>3
<1>7. IsFiniteSet(1..m)
  BY FS_Interval
<1>8. \A i \in 1..m : f[i] \in Nat
  OBVIOUS
<1>9. SumFunctionOnSet(f, 1..m) = f[m] + SumFunctionOnSet(f, 1..(m - 1))
  <2> DEFINE I == 1..m
  <2>1. IsFiniteSet(I) /\ m \in I /\ (\A i \in I : f[i] \in Nat) /\ I \ {m} = 1..(m - 1)
    BY <1>4, <1>6, <1>7, <1>8
  <2> HIDE DEF I
  <2>2. SumFunctionOnSet(f, I) = f[m] + SumFunctionOnSet(f, I \ {m})
    BY <2>1, SumTake
  <2> QED
    BY <2>1, <2>2 DEF I
<1>10. f[m] = c
  BY <1>4
<1>11. c * m = c + c * (m - 1)
  OBVIOUS
<1> QED
  BY <1>2, <1>5, <1>9, <1>10, <1>11

\* The sum of the sums of two functions is that of their sums.
LEMMA SumPlus ==
  ASSUME NEW S, IsFiniteSet(S), NEW f, NEW g, NEW h,
         \A x \in S : f[x] \in Nat /\ g[x] \in Nat /\ h[x] = f[x] + g[x]
  PROVE  SumFunctionOnSet(h, S) = SumFunctionOnSet(f, S) + SumFunctionOnSet(g, S)
<1> DEFINE F(T) == SumFunctionOnSet(f, T)
           G(T) == SumFunctionOnSet(g, T)
           H(T) == SumFunctionOnSet(h, T)
           Bad == {T \in SUBSET S : H(T) # F(T) + G(T)}
<1> SUFFICES ASSUME Bad # {} PROVE FALSE
  OBVIOUS
<1>1. PICK T \in Bad : \A U \in Bad : U \subseteq T => U = T
  <2>1. Bad \subseteq SUBSET S
    OBVIOUS
  <2> HIDE DEF Bad
  <2> QED
    BY <2>1, LeastFailing
<1>2. T \in SUBSET S /\ IsFiniteSet(T) /\ H(T) # F(T) + G(T)
  BY <1>1, FS_Subset
<1>3. T # {}
  BY <1>2, SumEmpty
<1> DEFINE a == pick(T)
           R == T \ {a}
<1>4. a \in T /\ R \subseteq T /\ R # T /\ IsFiniteSet(R)
  BY <1>2, <1>3, Picks, FS_Subset
<1>5. R \notin Bad
  BY <1>1, <1>4
<1>6. H(R) = F(R) + G(R)
  BY <1>2, <1>4, <1>5
<1>7. F(T) = f[a] + F(R) /\ G(T) = g[a] + G(R) /\ H(T) = h[a] + H(R)
  BY <1>2, <1>3, SumStep
<1>8. F(R) \in Nat /\ G(R) \in Nat /\ f[a] \in Nat /\ g[a] \in Nat /\ h[a] = f[a] + g[a]
  <2>1. \A x \in R : f[x] \in Nat /\ g[x] \in Nat
    BY <1>2, <1>4
  <2>2. F(R) \in Nat /\ G(R) \in Nat
    BY <1>4, <2>1, SumNat
  <2> QED
    BY <1>2, <1>4, <2>2
<1> HIDE DEF F, G, H, a, R, Bad
<1> QED
  BY <1>2, <1>6, <1>7, <1>8
=============================================================================
