-------------------------- MODULE ProcessTree_proofs --------------------------
(***************************************************************************)
(* Theorems about ProcessTree, for any number of processes: what is        *)
(* sampled and signalled is the tree of the target, children first, while  *)
(* processes start and exit in between.                                    *)
(***************************************************************************)
EXTENDS ProcessTree, FiniteSetTheorems, WellFoundedInduction, TLAPS

USE DEF Pids, Host

-----------------------------------------------------------------------------
(* Facts about the data. *)

\* Induction on the natural numbers, in terms of sets.
LEMMA Induction ==
    ASSUME NEW S, 0 \in S, \A n \in Nat : n \in S => n + 1 \in S
    PROVE  Nat \subseteq S
<1> DEFINE R == {ss \in Nat \X Nat : ss[1] < ss[2]}
<1>1. IsWellFoundedOn(R, Nat)
  BY NatLessThanWellFounded DEF OpToRel
<1> DEFINE T == Nat \ S
<1>2. ASSUME T # {} PROVE FALSE
  <2> HIDE DEF R
  <2>1. T \subseteq Nat
    OBVIOUS
  <2>2. PICK x \in T : \A y \in T : ~(<<y, x>> \in R)
    BY <1>1, <1>2, <2>1, WFMin
  <2>3. x # 0 /\ x \in Nat
    OBVIOUS
  <2>4. x - 1 \in Nat /\ x = (x - 1) + 1
    BY <2>3
  <2>5. x - 1 \notin S
    BY <2>4
  <2>6. <<x - 1, x>> \in R
    BY <2>3, <2>4 DEF R
  <2> QED
    BY <2>2, <2>4, <2>5, <2>6
<1> QED
  BY <1>2

\* A function on 1 .. n is a sequence.
LEMMA FunctionIsSeq ==
    ASSUME NEW T, NEW n \in Nat, NEW s \in [1 .. n -> T]
    PROVE  s \in Seq(T)
OBVIOUS

\* A set of ids is finite.
LEMMA IdsFinite ==
    ASSUME NEW S \in SUBSET Pids
    PROVE  IsFiniteSet(S) /\ Cardinality(S) \in 0 .. N
<1>1. N \in Nat /\ N \in Int /\ 1 \in Int
  BY ProcessAssumption
<1>2. IsFiniteSet(1 .. N) /\ Cardinality(1 .. N) = IF 1 > N THEN 0 ELSE N - 1 + 1
  BY <1>1, FS_Interval
<1>3. Cardinality(1 .. N) = N
  BY <1>1, <1>2
<1>4. IsFiniteSet(S) /\ Cardinality(S) <= N
  BY <1>2, <1>3, FS_Subset
<1>5. Cardinality(S) \in Nat
  BY <1>4, FS_CardinalityType
<1> QED
  BY <1>1, <1>4, <1>5

\* One that has an order has its elements in it.
LEMMA InOrderExists ==
    ASSUME NEW S \in SUBSET Pids
    PROVE  \E s \in [1 .. Cardinality(S) -> S] :
              \A i, j \in DOMAIN s : i < j => s[i] < s[j]
<1> DEFINE Ordered(T) == \E s \in [1 .. Cardinality(T) -> T] :
              \A i, j \in 1 .. Cardinality(T) : i < j => s[i] < s[j]
<1> DEFINE I == {n \in Nat : \A T \in SUBSET Pids : T \subseteq 1 .. n => Ordered(T)}
<1>1. 0 \in I
  <2> SUFFICES ASSUME NEW T \in SUBSET Pids, T \subseteq 1 .. 0 PROVE Ordered(T)
    OBVIOUS
  <2>1. T = {}
    OBVIOUS
  <2>2. Cardinality(T) = 0
    BY <2>1, FS_EmptySet
  <2>3. [i \in 1 .. 0 |-> i] \in [1 .. Cardinality(T) -> T]
    BY <2>2
  <2> QED
    BY <2>2, <2>3
<1>2. ASSUME NEW n \in Nat, n \in I PROVE n + 1 \in I
  <2>0. n + 1 \in Nat
    OBVIOUS
  <2> HIDE DEF Ordered
  <2> SUFFICES ASSUME NEW T \in SUBSET Pids, T \subseteq 1 .. n + 1 PROVE Ordered(T)
    BY <2>0
  <2> USE DEF Ordered
  <2>1. CASE n + 1 \notin T
    <3>1. T \subseteq 1 .. n
      BY <2>1
    <3> QED
      BY <1>2, <3>1
  <2>2. CASE n + 1 \in T
    <3> DEFINE U == T \ {n + 1}
    <3>1. U \in SUBSET Pids /\ U \subseteq 1 .. n
      OBVIOUS
    <3>2. PICK u \in [1 .. Cardinality(U) -> U] :
              \A i, j \in 1 .. Cardinality(U) : i < j => u[i] < u[j]
      BY <1>2, <3>1
    <3>3. IsFiniteSet(U) /\ Cardinality(U) \in Nat
      BY <3>1, IdsFinite
    <3>4. T = U \cup {n + 1} /\ n + 1 \notin U
      BY <2>2
    <3>5. Cardinality(T) = Cardinality(U) + 1
      BY <3>3, <3>4, FS_AddElement
    <3> DEFINE k == Cardinality(U)
    <3> DEFINE t == [i \in 1 .. k + 1 |-> IF i = k + 1 THEN n + 1 ELSE u[i]]
    <3>6. k \in Nat /\ u \in [1 .. k -> U]
      BY <3>2, <3>3
    <3>7. \A i, j \in 1 .. k : i < j => u[i] < u[j]
      BY <3>2
    <3>8. Cardinality(T) = k + 1
      BY <3>5
    <3> HIDE DEF k, U
    <3>9. \A i \in 1 .. k : u[i] \in 1 .. n /\ u[i] \in T
      BY <3>1, <3>4, <3>6
    <3>10. t \in [1 .. k + 1 -> T]
      <4>1. ASSUME NEW i \in 1 .. k + 1 PROVE t[i] \in T
        <5>1. CASE i = k + 1
          BY <5>1, <2>2
        <5>2. CASE i \in 1 .. k
          BY <5>2, <3>6, <3>9
        <5> QED
          BY <5>1, <5>2, <3>6
      <4> QED
        BY <4>1
    <3>11. ASSUME NEW i \in 1 .. k + 1, NEW j \in 1 .. k + 1, i < j PROVE t[i] < t[j]
      <4>1. i \in 1 .. k /\ t[i] = u[i] /\ u[i] \in 1 .. n
        BY <3>6, <3>9, <3>11
      <4>2. CASE j = k + 1
        BY <4>1, <4>2
      <4>3. CASE j \in 1 .. k
        BY <4>1, <4>3, <3>6, <3>7, <3>11
      <4> QED
        BY <4>2, <4>3, <3>6
    <3> HIDE DEF t
    <3> QED
      BY <3>8, <3>10, <3>11
  <2> QED
    BY <2>1, <2>2
<1>3. Nat \subseteq I
  <2> HIDE DEF I
  <2> QED
    BY <1>1, <1>2, Induction
<1>4. N \in I
  BY <1>3, ProcessAssumption
<1>5. Ordered(S)
  BY <1>4
<1> QED
  BY <1>5

\* The children of a process, each once.
LEMMA InOrderIs ==
    ASSUME NEW S \in SUBSET Pids
    PROVE  InOrder(S) \in Seq(Pids) /\ ToSet(InOrder(S)) = S
<1> DEFINE s == InOrder(S)
<1> DEFINE n == Cardinality(S)
<1>1. s \in [1 .. n -> S] /\ \A i, j \in DOMAIN s : i < j => s[i] < s[j]
  BY InOrderExists DEF InOrder
<1>2. IsFiniteSet(S) /\ n \in Nat
  BY IdsFinite
<1> HIDE DEF s, n
<1> DEFINE R == {s[i] : i \in 1 .. n}
<1>3. R \in SUBSET S
  BY <1>1
<1>4. s \in Injection(1 .. n, R)
  <2>1. s \in [1 .. n -> R]
    BY <1>1
  <2>2. ASSUME NEW i \in 1 .. n, NEW j \in 1 .. n, s[i] = s[j] PROVE i = j
    <3>0. s[i] \in 1 .. N
      BY <1>1
    <3>1. ~(s[i] < s[j]) /\ ~(s[j] < s[i])
      BY <2>2, <3>0, ProcessAssumption
    <3>2. ~(i < j) /\ ~(j < i)
      BY <1>1, <3>1
    <3> QED
      BY <3>2
  <2> QED
    BY <2>1, <2>2 DEF Injection, IsInjective
<1>5. s \in Surjection(1 .. n, R)
  BY <1>1 DEF Surjection
<1>6. ExistsBijection(1 .. n, R)
  BY <1>4, <1>5 DEF ExistsBijection, Bijection
<1>7. Cardinality(R) = n
  BY <1>2, <1>6, FS_CountingElements
<1>8. R = S
  BY <1>2, <1>3, <1>7, FS_Subset DEF n
<1>9. s \in Seq(Pids)
  <2>1. s \in [1 .. n -> Pids]
    BY <1>1
  <2> QED
    BY <1>2, <2>1, FunctionIsSeq
<1>10. ToSet(s) = R
  BY <1>1 DEF ToSet
<1> QED
  BY <1>8, <1>9, <1>10 DEF s

\* What is closed under the children that t has.
Closed(t, S) == \A q \in Pids : t[q] \in S => q \in S

\* Below(t, r) is the least set with r and the children of its elements.
LEMMA BelowIs ==
    ASSUME NEW t \in [Pids -> Parents], NEW r \in Pids
    PROVE  /\ r \in Below(t, r)
           /\ Below(t, r) \subseteq Pids
           /\ Closed(t, Below(t, r))
           /\ \A S : r \in S /\ Closed(t, S) => Below(t, r) \subseteq S
<1>0. N \in Nat /\ N >= 1
  BY ProcessAssumption
<1> DEFINE Grows(g, m) == g = [n \in 0 .. m |->
                            IF n = 0 THEN {r} ELSE g[n - 1] \cup {q \in Pids : t[q] \in g[n - 1]}]
<1> DEFINE I == {m \in Nat : \E g : Grows(g, m)}
<1>1. 0 \in I
  <2> DEFINE g == [n \in 0 .. 0 |-> {r}]
  <2>1. Grows(g, 0)
    OBVIOUS
  <2> QED
    BY <2>1
<1>2. ASSUME NEW m \in Nat, m \in I PROVE m + 1 \in I
  <2>1. PICK f : Grows(f, m)
    BY <1>2
  <2> DEFINE g == [n \in 0 .. m + 1 |->
                     IF n = m + 1 THEN f[m] \cup {q \in Pids : t[q] \in f[m]} ELSE f[n]]
  <2>2. \A n \in 0 .. m : g[n] = f[n]
    OBVIOUS
  <2>3. ASSUME NEW n \in 0 .. m + 1
        PROVE  g[n] = IF n = 0 THEN {r} ELSE g[n - 1] \cup {q \in Pids : t[q] \in g[n - 1]}
    <3>1. CASE n = m + 1
      <4>1. n # 0 /\ n - 1 = m /\ g[m] = f[m]
        BY <3>1, <2>2
      <4>2. g[n] = f[m] \cup {q \in Pids : t[q] \in f[m]}
        BY <3>1
      <4> HIDE DEF g
      <4> QED
        BY <4>1, <4>2
    <3>2. CASE n \in 0 .. m
      <4>1. g[n] = f[n]
        BY <3>2, <2>2
      <4>2. f[n] = IF n = 0 THEN {r} ELSE f[n - 1] \cup {q \in Pids : t[q] \in f[n - 1]}
        BY <3>2, <2>1
      <4>3. n # 0 => g[n - 1] = f[n - 1]
        BY <3>2, <2>2
      <4> HIDE DEF g
      <4> QED
        BY <4>1, <4>2, <4>3
    <3> QED
      BY <3>1, <3>2
  <2>4. Grows(g, m + 1)
    <3> DEFINE h == [n \in 0 .. m + 1 |->
                       IF n = 0 THEN {r} ELSE g[n - 1] \cup {q \in Pids : t[q] \in g[n - 1]}]
    <3>1. g = [n \in 0 .. m + 1 |-> g[n]]
      OBVIOUS
    <3>2. \A n \in 0 .. m + 1 : h[n] = g[n]
      BY <2>3
    <3> HIDE DEF g
    <3>3. h = [n \in 0 .. m + 1 |-> g[n]]
      BY <3>2
    <3> QED
      BY <3>1, <3>3
  <2> HIDE DEF Grows
  <2> QED
    BY <2>4
<1>3. N \in I
  <2>1. Nat \subseteq I
    <3> HIDE DEF I
    <3> QED
      BY <1>1, <1>2, Induction
  <2> QED
    BY <2>1, <1>0
<1> DEFINE grow == CHOOSE g : Grows(g, N)
<1>4. Grows(grow, N)
  <2>1. \E g : Grows(g, N)
    BY <1>3
  <2> HIDE DEF Grows
  <2> QED
    BY <2>1
<1>5. Below(t, r) = grow[N]
  BY DEF Below
<1>6. /\ grow[0] = {r}
      /\ \A n \in 0 .. N : n + 1 \in 0 .. N =>
            grow[n + 1] = grow[n] \cup {q \in Pids : t[q] \in grow[n]}
  <2>1. \A n \in 0 .. N : grow[n] =
            IF n = 0 THEN {r} ELSE grow[n - 1] \cup {q \in Pids : t[q] \in grow[n - 1]}
    BY <1>4
  <2> HIDE DEF grow
  <2>2. ASSUME NEW n \in 0 .. N, n + 1 \in 0 .. N
        PROVE  grow[n + 1] = grow[n] \cup {q \in Pids : t[q] \in grow[n]}
    <3>1. n + 1 # 0 /\ (n + 1) - 1 = n
      BY <1>0
    <3>2. grow[n + 1] = grow[(n + 1) - 1] \cup {q \in Pids : t[q] \in grow[(n + 1) - 1]}
      BY <2>1, <2>2, <3>1
    <3> QED
      BY <3>1, <3>2
  <2>3. grow[0] = {r}
    <3>1. 0 \in 0 .. N
      BY <1>0
    <3> QED
      BY <2>1, <3>1
  <2> QED
    BY <2>2, <2>3
<1> HIDE DEF grow
\* No element is without a reason.
<1>7. ASSUME NEW S, r \in S, Closed(t, S) PROVE \A n \in 0 .. N : grow[n] \subseteq S
  <2> DEFINE J == {n \in Nat : n \in 0 .. N => grow[n] \subseteq S}
  <2>1. 0 \in J
    BY <1>6, <1>7
  <2>2. ASSUME NEW n \in Nat, n \in J PROVE n + 1 \in J
    <3> SUFFICES ASSUME n + 1 \in 0 .. N PROVE grow[n + 1] \subseteq S
      OBVIOUS
    <3>1. n \in 0 .. N
      BY <1>0
    <3>2. grow[n] \subseteq S
      BY <2>2, <3>1
    <3> QED
      BY <1>6, <1>7, <3>1, <3>2 DEF Closed
  <2>3. Nat \subseteq J
    <3> HIDE DEF J
    <3> QED
      BY <2>1, <2>2, Induction
  <2> QED
    BY <2>3
\* As long as children are missing each step finds one, and there are only N.
<1>8. \A n \in 0 .. N : r \in grow[n] /\ grow[n] \subseteq Pids
  <2> DEFINE J == {n \in Nat : n \in 0 .. N => r \in grow[n] /\ grow[n] \subseteq Pids}
  <2>1. 0 \in J
    BY <1>6
  <2>2. ASSUME NEW n \in Nat, n \in J PROVE n + 1 \in J
    <3> SUFFICES ASSUME n + 1 \in 0 .. N PROVE r \in grow[n + 1] /\ grow[n + 1] \subseteq Pids
      OBVIOUS
    <3>1. n \in 0 .. N
      BY <1>0
    <3>2. r \in grow[n] /\ grow[n] \subseteq Pids
      BY <2>2, <3>1
    <3> QED
      BY <1>6, <3>1, <3>2
  <2>3. Nat \subseteq J
    <3> HIDE DEF J
    <3> QED
      BY <2>1, <2>2, Induction
  <2> QED
    BY <2>3
<1>9. ASSUME NEW n \in 0 .. N PROVE Closed(t, grow[n]) \/ Cardinality(grow[n]) > n
  <2> DEFINE J == {k \in Nat : k \in 0 .. N => Closed(t, grow[k]) \/ Cardinality(grow[k]) > k}
  <2>1. 0 \in J
    <3>1. Cardinality({r}) = 1
      BY FS_Singleton
    <3>2. Cardinality(grow[0]) > 0
      BY <1>6, <3>1
    <3> QED
      BY <3>2
  <2>2. ASSUME NEW k \in Nat, k \in J PROVE k + 1 \in J
    <3> SUFFICES ASSUME k + 1 \in 0 .. N, ~Closed(t, grow[k + 1])
                 PROVE  Cardinality(grow[k + 1]) > k + 1
      OBVIOUS
    <3>1. k \in 0 .. N
      BY <1>0
    <3>2. grow[k + 1] = grow[k] \cup {q \in Pids : t[q] \in grow[k]}
      BY <1>6, <3>1
    <3>3. ~Closed(t, grow[k])
      BY <3>2 DEF Closed
    <3>4. Cardinality(grow[k]) > k
      BY <2>2, <3>1, <3>3
    <3>5. PICK q \in Pids : t[q] \in grow[k] /\ q \notin grow[k]
      BY <3>3 DEF Closed
    <3>6. grow[k] \in SUBSET Pids /\ grow[k + 1] \in SUBSET Pids
      BY <1>8, <3>1
    <3>7. IsFiniteSet(grow[k + 1]) /\ Cardinality(grow[k + 1]) \in Nat /\ Cardinality(grow[k]) \in Nat
      BY <3>6, IdsFinite
    <3>8. grow[k] \in SUBSET grow[k + 1] /\ grow[k] # grow[k + 1]
      BY <3>2, <3>5
    <3>9. Cardinality(grow[k]) <= Cardinality(grow[k + 1]) /\ Cardinality(grow[k + 1]) # Cardinality(grow[k])
      BY <3>7, <3>8, FS_Subset
    <3> QED
      BY <3>4, <3>7, <3>9
  <2>3. Nat \subseteq J
    <3> HIDE DEF J
    <3> QED
      BY <2>1, <2>2, Induction
  <2> QED
    BY <2>3
<1>10. Closed(t, grow[N])
  <2>1. N \in 0 .. N
    BY <1>0
  <2>2. Cardinality(grow[N]) \in 0 .. N
    BY <1>8, <2>1, IdsFinite
  <2> QED
    BY <1>0, <1>9, <2>1, <2>2
<1>11. N \in 0 .. N
  BY <1>0
<1> QED
  BY <1>5, <1>7, <1>8, <1>10, <1>11

\* What is in a sequence.
LEMMA SetOfSeq ==
    ASSUME NEW S, NEW s \in Seq(S)
    PROVE  /\ ToSet(s) \subseteq S /\ DOMAIN s = 1 .. Len(s) /\ Len(s) \in Nat
           /\ \A i \in 1 .. Len(s) : s[i] \in S
<1>1. DOMAIN s = 1 .. Len(s) /\ Len(s) \in Nat /\ \A i \in 1 .. Len(s) : s[i] \in S
  OBVIOUS
<1> QED
  BY <1>1 DEF ToSet

\* What is in a sequence that grows or shrinks at an end.
LEMMA SetOfAppend ==
    ASSUME NEW S, NEW s \in Seq(S), NEW x \in S
    PROVE  /\ Append(s, x) \in Seq(S)
           /\ ToSet(Append(s, x)) = ToSet(s) \cup {x}
<1>1. /\ DOMAIN s = 1 .. Len(s) /\ Len(s) \in Nat
      /\ DOMAIN Append(s, x) = 1 .. Len(s) + 1
      /\ \A i \in 1 .. Len(s) : Append(s, x)[i] = s[i]
      /\ Append(s, x)[Len(s) + 1] = x
  OBVIOUS
<1>2. ToSet(Append(s, x)) \subseteq ToSet(s) \cup {x}
  <2> SUFFICES ASSUME NEW i \in 1 .. Len(s) + 1
               PROVE  Append(s, x)[i] \in ToSet(s) \cup {x}
    BY <1>1 DEF ToSet
  <2>1. CASE i = Len(s) + 1
    BY <1>1, <2>1
  <2>2. CASE i \in 1 .. Len(s)
    BY <1>1, <2>2 DEF ToSet
  <2> QED
    BY <1>1, <2>1, <2>2
<1>3. ToSet(s) \cup {x} \subseteq ToSet(Append(s, x))
  <2>1. Len(s) + 1 \in 1 .. Len(s) + 1 /\ 1 .. Len(s) \subseteq 1 .. Len(s) + 1
    BY <1>1
  <2> QED
    BY <1>1, <2>1 DEF ToSet
<1> QED
  BY <1>2, <1>3

\* What is in a concatenation is in one of its parts.
LEMMA SetOfConcat ==
    ASSUME NEW S, NEW s \in Seq(S), NEW t \in Seq(S)
    PROVE  /\ s \o t \in Seq(S)
           /\ ToSet(s \o t) = ToSet(s) \cup ToSet(t)
<1>1. /\ DOMAIN s = 1 .. Len(s) /\ Len(s) \in Nat
      /\ DOMAIN t = 1 .. Len(t) /\ Len(t) \in Nat
      /\ DOMAIN (s \o t) = 1 .. Len(s) + Len(t)
      /\ \A i \in 1 .. Len(s) + Len(t) :
            (s \o t)[i] = IF i <= Len(s) THEN s[i] ELSE t[i - Len(s)]
  OBVIOUS
<1>2. ToSet(s \o t) \subseteq ToSet(s) \cup ToSet(t)
  <2> SUFFICES ASSUME NEW i \in 1 .. Len(s) + Len(t)
               PROVE  (s \o t)[i] \in ToSet(s) \cup ToSet(t)
    BY <1>1 DEF ToSet
  <2>1. CASE i <= Len(s)
    <3>1. i \in 1 .. Len(s)
      BY <1>1, <2>1
    <3> QED
      BY <1>1, <2>1, <3>1 DEF ToSet
  <2>2. CASE ~(i <= Len(s))
    <3>1. i - Len(s) \in 1 .. Len(t)
      BY <1>1, <2>2
    <3> QED
      BY <1>1, <2>2, <3>1 DEF ToSet
  <2> QED
    BY <2>1, <2>2
<1>3. ToSet(s) \subseteq ToSet(s \o t)
  <2> SUFFICES ASSUME NEW i \in 1 .. Len(s) PROVE s[i] \in ToSet(s \o t)
    BY <1>1 DEF ToSet
  <2>1. i \in 1 .. Len(s) + Len(t) /\ i <= Len(s)
    BY <1>1
  <2> QED
    BY <1>1, <2>1 DEF ToSet
<1>4. ToSet(t) \subseteq ToSet(s \o t)
  <2> SUFFICES ASSUME NEW i \in 1 .. Len(t) PROVE t[i] \in ToSet(s \o t)
    BY <1>1 DEF ToSet
  <2>1. i + Len(s) \in 1 .. Len(s) + Len(t) /\ ~(i + Len(s) <= Len(s)) /\ (i + Len(s)) - Len(s) = i
    BY <1>1
  <2>2. (s \o t)[i + Len(s)] = t[i]
    BY <1>1, <2>1
  <2> QED
    BY <1>1, <2>1, <2>2 DEF ToSet
<1> QED
  BY <1>2, <1>3, <1>4

\* What is in a sequence is its head or in its tail.
LEMMA SetOfTail ==
    ASSUME NEW S, NEW s \in Seq(S), s # << >>
    PROVE  /\ Head(s) \in S
           /\ Tail(s) \in Seq(S)
           /\ ToSet(s) = {Head(s)} \cup ToSet(Tail(s))
<1>1. /\ Len(s) \in Nat /\ Len(s) >= 1 /\ DOMAIN s = 1 .. Len(s)
      /\ Head(s) = s[1] /\ s[1] \in S
      /\ Tail(s) \in Seq(S) /\ DOMAIN Tail(s) = 1 .. Len(s) - 1
      /\ \A i \in 1 .. Len(s) - 1 : Tail(s)[i] = s[i + 1]
  OBVIOUS
<1>2. ToSet(s) \subseteq {Head(s)} \cup ToSet(Tail(s))
  <2> SUFFICES ASSUME NEW i \in 1 .. Len(s) PROVE s[i] \in {Head(s)} \cup ToSet(Tail(s))
    BY <1>1 DEF ToSet
  <2>1. CASE i = 1
    BY <1>1, <2>1
  <2>2. CASE i # 1
    <3>1. i - 1 \in 1 .. Len(s) - 1 /\ (i - 1) + 1 = i
      BY <1>1, <2>2
    <3>2. Tail(s)[i - 1] = s[i]
      BY <1>1, <3>1
    <3> QED
      BY <1>1, <3>1, <3>2 DEF ToSet
  <2> QED
    BY <2>1, <2>2
<1>3. {Head(s)} \cup ToSet(Tail(s)) \subseteq ToSet(s)
  <2>1. Head(s) \in ToSet(s)
    <3>1. 1 \in 1 .. Len(s)
      BY <1>1
    <3> QED
      BY <1>1, <3>1 DEF ToSet
  <2>2. ASSUME NEW i \in 1 .. Len(s) - 1 PROVE Tail(s)[i] \in ToSet(s)
    <3>1. i + 1 \in 1 .. Len(s)
      BY <1>1
    <3> QED
      BY <1>1, <3>1 DEF ToSet
  <2>3. ToSet(Tail(s)) \subseteq ToSet(s)
    BY <1>1, <2>2 DEF ToSet
  <2> QED
    BY <2>1, <2>3
<1> QED
  BY <1>1, <1>2, <1>3

\* A sequence without its last element.
LEMMA FrontAndLast ==
    ASSUME NEW S, NEW s \in Seq(S), s # << >>
    PROVE  /\ Front(s) \in Seq(S) /\ Len(Front(s)) = Len(s) - 1
           /\ \A i \in 1 .. Len(s) - 1 : Front(s)[i] = s[i]
           /\ Last(s) = s[Len(s)] /\ Last(s) \in S
           /\ Len(s) \in Nat /\ Len(s) >= 1
<1>1. Len(s) \in Nat /\ Len(s) >= 1 /\ DOMAIN s = 1 .. Len(s) /\ \A i \in 1 .. Len(s) : s[i] \in S
  OBVIOUS
<1>2. /\ SubSeq(s, 1, Len(s) - 1) \in Seq(S)
      /\ Len(SubSeq(s, 1, Len(s) - 1)) = Len(s) - 1
      /\ \A i \in 1 .. Len(s) - 1 : SubSeq(s, 1, Len(s) - 1)[i] = s[i]
  BY <1>1
<1> QED
  BY <1>1, <1>2 DEF Front, Last

-----------------------------------------------------------------------------
(* The inductive invariant. *)

\* What the host's table always is: the parent of a process is alive, and what
\* is below a process of the tree has been started there.
HostInv ==
    /\ table[Root] \in {Host, Dead}
    /\ Root \in tree
    /\ \A p \in Pids : table[p] \in Pids => Alive(table[p])
    /\ \A p \in Pids : table[p] \in tree => p \in tree
    /\ \A p \in tree : table[p] # Unborn

\* The rows name parents that have been started, and who has a row below the tree
\* is of the tree.
RowsInv ==
    /\ rows[Root] \in {Host, Dead}
    /\ \A p \in Pids : rows[p] \in Pids => table[rows[p]] # Unborn
    /\ \A p \in Pids : rows[p] \in tree => p \in tree

\* Whoever is on the list or in the queue is the root or was found below one that
\* was on the list before it.
FoundInv ==
    /\ \A i \in DOMAIN visited :
          visited[i] = Root \/ \E j \in 1 .. (i - 1) : visited[j] = rows[visited[i]]
    /\ \A q \in ToSet(queue) : q = Root \/ rows[q] \in ToSet(visited)
    /\ mode = "sample" /\ ~HasRow(Root) => ToSet(visited) \cup ToSet(queue) \subseteq {Root}
    /\ rss = Cardinality({p \in ToSet(visited) : HasRow(p)})

\* They are of the tree, and below the root in the rows.
WithinInv ==
    /\ ToSet(visited) \cup ToSet(queue) \subseteq tree
    /\ ToSet(visited) \cup ToSet(queue) \subseteq Below(rows, Root)

\* And nobody is missing: the children of those on the list are on it or queued,
\* unless ps has failed.
ClosedInv ==
    /\ phase \in {"idle", "ps", "failed"} => visited = << >> /\ queue = << >>
    /\ phase = "walk" => Root \in ToSet(visited) \cup ToSet(queue) /\ cursor > N
    /\ phase \in {"TERM", "KILL", "done"} =>
          Root \in ToSet(visited) /\ queue = << >> /\ (mode = "sample" => cursor > N)
    /\ phase \notin {"idle", "ps", "failed"} /\ cursor > N =>
          \A p \in ToSet(visited) : mode = "stop" \/ HasRow(p) =>
              \A c \in Pids : rows[c] = p => c \in ToSet(visited) \cup ToSet(queue)

\* The signals still to send are for the first on the list, in its order; the
\* others have been killed in the second round.
SignalInv ==
    /\ phase \in {"TERM", "KILL"} => mode = "stop"
    /\ phase \notin {"TERM", "KILL"} => todo = << >>
    /\ Len(todo) <= Len(visited)
    /\ \A i \in 1 .. Len(todo) : todo[i] = visited[i]
    /\ phase = "KILL" => \A i \in Len(todo) + 1 .. Len(visited) : table[visited[i]] = Dead
    /\ phase = "done" /\ mode = "stop" => \A i \in 1 .. Len(visited) : table[visited[i]] = Dead

\* While ps reads, whose parent in the table of the start has not exited has that
\* parent still, and so has its row when it has been read.
StartInv ==
    /\ phase = "idle" => exits = {} /\ cursor = 1
    /\ \A p \in exits : table[p] = Dead
    /\ phase = "ps" => \A p \in Pids \ exits : start[p] \in Pids \ exits => table[p] = start[p]
    /\ phase # "idle" => \A p \in Pids \ exits :
          start[p] \in Pids \ exits /\ p < cursor => rows[p] = start[p]

IInv == TypeOK /\ HostInv /\ RowsInv /\ FoundInv /\ WithinInv /\ ClosedInv /\ SignalInv /\ StartInv

-----------------------------------------------------------------------------
(* It holds initially. *)

\* The inductive invariant holds before anything is sampled or signalled.
LEMMA InitIInv == Init => IInv
<1> SUFFICES ASSUME Init PROVE IInv
  OBVIOUS
<1>0. N \in Nat /\ Root \in 1 .. N /\ Unborn # Dead /\ Unborn \notin 0 .. N /\ Dead \notin 0 .. N
  BY ProcessAssumption
<1>1. /\ table = [p \in Pids |-> IF p = Root THEN Host ELSE Unborn]
      /\ mode \in Modes /\ phase = "idle" /\ cursor = 1 /\ rows = [p \in Pids |-> Dead]
      /\ queue = << >> /\ visited = << >> /\ rss = 0 /\ todo = << >>
      /\ tree = {Root} /\ start = table /\ exits = {}
  BY DEF Init
<1>2. ToSet(visited) = {} /\ ToSet(queue) = {}
  BY <1>1 DEF ToSet
<1>3. TypeOK
  <2>1. IsInjective(visited)
    BY <1>1 DEF IsInjective
  <2> QED
    BY <1>0, <1>1, <2>1 DEF TypeOK, Parents, Phases
<1>4. HostInv
  BY <1>0, <1>1 DEF HostInv
<1>5. RowsInv
  BY <1>0, <1>1 DEF RowsInv
<1>6. FoundInv
  <2>1. {p \in ToSet(visited) : HasRow(p)} = {}
    BY <1>2
  <2>2. rss = Cardinality({p \in ToSet(visited) : HasRow(p)})
    BY <1>1, <2>1, FS_EmptySet
  <2> QED
    BY <1>1, <1>2, <2>2 DEF FoundInv
<1>10. WithinInv
  BY <1>2 DEF WithinInv
<1>7. ClosedInv
  BY <1>1 DEF ClosedInv
<1>8. SignalInv
  BY <1>1 DEF SignalInv
<1>9. StartInv
  BY <1>1 DEF StartInv
<1> QED
  BY <1>3, <1>4, <1>5, <1>6, <1>7, <1>8, <1>9, <1>10 DEF IInv

-----------------------------------------------------------------------------
(* Every step keeps it. *)

\* A process that exits leaves its children to the host; nobody is born of it.
LEMMA WithoutIs ==
    ASSUME TypeOK, HostInv, NEW p \in Pids, Alive(p), table' = Without(p)
    PROVE  /\ table' \in [Pids -> Parents]
           /\ table'[p] = Dead
           /\ \A q \in Pids \ {p} : table'[q] = IF table[q] = p THEN Host ELSE table[q]
           /\ \A q \in Pids : table'[q] = Unborn <=> table[q] = Unborn
           /\ \A q \in Pids : table[q] = Dead => table'[q] = Dead
           /\ \A q \in Pids : table'[q] \in Pids => table'[q] = table[q] /\ table[q] # p
           /\ \A q \in Pids : table'[q] = Dead => q = p \/ table[q] = Dead
<1>0. N \in Nat /\ Unborn # Dead /\ Unborn \notin 0 .. N /\ Dead \notin 0 .. N
  BY ProcessAssumption
<1>1. table \in [Pids -> Parents] /\ p # Dead /\ p # Unborn
  BY <1>0 DEF TypeOK
<1>2. table[p] # Unborn /\ table[p] # Dead
  BY DEF Alive
<1>3. \A q \in Pids : table'[q] = IF q = p THEN Dead ELSE IF table[q] = p THEN Host ELSE table[q]
  BY DEF Without
<1>4. table' \in [Pids -> Parents]
  <2>1. \A q \in Pids : (IF q = p THEN Dead ELSE IF table[q] = p THEN Host ELSE table[q]) \in Parents
    BY <1>0, <1>1 DEF Parents
  <2> QED
    BY <2>1 DEF Without
<1>5. \A q \in Pids : table'[q] = Unborn <=> table[q] = Unborn
  BY <1>0, <1>1, <1>2, <1>3
<1> QED
  BY <1>0, <1>1, <1>2, <1>3, <1>4, <1>5

\* Kill is an exit of the last to be signalled, or changes no process.
LEMMA KillIs ==
    ASSUME TypeOK, Kill
    PROVE  /\ Last(todo) \in Pids
           /\ \/ Alive(Last(todo)) /\ table' = Without(Last(todo))
              \/ ~Alive(Last(todo)) /\ table' = table
           /\ todo' = Front(todo) /\ todo # << >> /\ phase = "KILL"
           /\ UNCHANGED <<mode, phase, cursor, rows, queue, visited, rss, tree, start, exits>>
<1>1. todo \in Seq(Pids)
  BY DEF TypeOK
<1>2. todo # << >>
  BY DEF Kill
<1>3. Last(todo) \in Pids
  BY <1>1, <1>2, FrontAndLast
<1> QED
  BY <1>2, <1>3 DEF Kill, history

\* Every step keeps what the host's table always is.
LEMMA HostStep ==
    ASSUME TypeOK, HostInv, [Next]_vars
    PROVE  table' \in [Pids -> Parents] /\ tree' \subseteq Pids /\ HostInv'
<1>0. N \in Nat /\ Root \in 1 .. N /\ Unborn # Dead /\ Unborn \notin 0 .. N /\ Dead \notin 0 .. N
  BY ProcessAssumption
<1>1. table \in [Pids -> Parents] /\ tree \subseteq Pids
  BY DEF TypeOK
<1>2. /\ table[Root] \in {Host, Dead} /\ Root \in tree
      /\ \A p \in Pids : table[p] \in Pids => table[table[p]] \notin {Unborn, Dead}
      /\ \A p \in Pids : table[p] \in tree => p \in tree
      /\ \A p \in tree : table[p] # Unborn
  BY DEF HostInv, Alive
<1>3. CASE UNCHANGED <<table, tree>>
  BY <1>1, <1>3 DEF HostInv, Alive
<1>4. ASSUME NEW p \in Pids, Alive(p), table' = Without(p), UNCHANGED tree
      PROVE  table' \in [Pids -> Parents] /\ tree' \subseteq Pids /\ HostInv'
  <2>1. /\ table' \in [Pids -> Parents]
        /\ table'[p] = Dead
        /\ \A q \in Pids \ {p} : table'[q] = IF table[q] = p THEN Host ELSE table[q]
        /\ \A q \in Pids : table'[q] = Unborn <=> table[q] = Unborn
        /\ \A q \in Pids : table[q] = Dead => table'[q] = Dead
        /\ \A q \in Pids : table'[q] \in Pids => table'[q] = table[q] /\ table[q] # p
        /\ \A q \in Pids : table'[q] = Dead => q = p \/ table[q] = Dead
    BY <1>4, WithoutIs
  <2>2. table'[Root] \in {Host, Dead}
    BY <1>0, <1>2, <2>1
  <2>3. ASSUME NEW q \in Pids, table'[q] \in Pids PROVE table'[table'[q]] \notin {Unborn, Dead}
    BY <1>2, <2>1, <2>3
  <2>4. ASSUME NEW q \in Pids, table'[q] \in tree' PROVE q \in tree'
    BY <1>1, <1>2, <1>4, <2>1, <2>4
  <2>5. ASSUME NEW q \in tree' PROVE table'[q] # Unborn
    BY <1>1, <1>2, <1>4, <2>1, <2>5
  <2> QED
    BY <1>1, <1>2, <1>4, <2>1, <2>2, <2>3, <2>4, <2>5 DEF HostInv, Alive
<1>5. ASSUME NEW p \in Pids \cup {Host}, NEW c \in Pids, Fork(p, c)
      PROVE  table' \in [Pids -> Parents] /\ tree' \subseteq Pids /\ HostInv'
  <2>1. /\ p # Host => table[p] \notin {Unborn, Dead}
        /\ table[c] = Unborn
        /\ table' = [table EXCEPT ![c] = p]
        /\ tree' = IF p \in tree THEN tree \cup {c} ELSE tree
    BY <1>5 DEF Fork, Alive
  <2>2. p \in Parents /\ p # Unborn /\ p # Dead
    BY <1>0 DEF Parents
  <2>3. /\ table' \in [Pids -> Parents]
        /\ table'[c] = p
        /\ \A q \in Pids \ {c} : table'[q] = table[q]
    BY <1>1, <2>1, <2>2
  <2>4. c # Root /\ c # p /\ c \notin tree
    BY <1>0, <1>2, <2>1
  <2>5. ASSUME NEW q \in Pids, table'[q] \in Pids PROVE table'[table'[q]] \notin {Unborn, Dead}
    <3>1. CASE q = c
      BY <2>1, <2>3, <2>4, <2>5, <3>1, <1>0
    <3>2. CASE q # c
      BY <1>2, <2>1, <2>3, <2>5, <3>2
    <3> QED
      BY <3>1, <3>2
  <2>6. ASSUME NEW q \in Pids, table'[q] \in tree' PROVE q \in tree'
    <3>1. CASE q = c
      BY <2>1, <2>3, <2>4, <2>6, <3>1
    <3>2. CASE q # c
      <4>0. table[q] = table'[q] /\ (table[q] \in tree \/ table[q] = c)
        BY <2>1, <2>3, <2>6, <3>2
      <4>1. table[q] \in Pids /\ table[q] # c
        <5>1. CASE table[q] \in tree
          BY <1>1, <2>4, <5>1
        <5>2. CASE table[q] = c
          <6>1. table[c] \notin {Unborn, Dead}
            BY <1>2, <5>2
          <6> QED
            BY <2>1, <6>1
        <5> QED
          BY <4>0, <5>1, <5>2
      <4> QED
        BY <1>2, <2>1, <2>3, <2>6, <3>2, <4>1
    <3> QED
      BY <3>1, <3>2
  <2>7. ASSUME NEW q \in tree' PROVE table'[q] # Unborn
    BY <1>1, <1>2, <2>1, <2>2, <2>3, <2>7
  <2> QED
    BY <1>0, <1>1, <1>2, <2>1, <2>3, <2>4, <2>5, <2>6, <2>7 DEF HostInv, Alive
<1>6. ASSUME Kill PROVE \/ UNCHANGED <<table, tree>>
                        \/ \E p \in Pids : Alive(p) /\ table' = Without(p) /\ UNCHANGED tree
  BY <1>6, KillIs
<1>7. ASSUME NEW p \in Pids, Exit(p) PROVE Alive(p) /\ table' = Without(p) /\ UNCHANGED tree
  BY <1>7 DEF Exit
<1>8. ASSUME Begin \/ ReadProcess \/ PsReturns \/ PsFails \/ Visit \/ WalkEnds \/ Term \/ NextSignal
      PROVE  UNCHANGED <<table, tree>>
  BY <1>8 DEF Begin, ReadProcess, PsReturns, PsFails, Visit, WalkEnds, Term, NextSignal, host
<1>9. ASSUME UNCHANGED vars PROVE UNCHANGED <<table, tree>>
  BY <1>9 DEF vars
<1> QED
  BY <1>3, <1>4, <1>5, <1>6, <1>7, <1>8, <1>9 DEF Next, Tool

\* Every step keeps what the rows read so far have to do with the table.
LEMMA RowsStep ==
    ASSUME TypeOK, HostInv, RowsInv, [Next]_vars
    PROVE  rows' \in [Pids -> 0 .. N \cup {Dead}] /\ cursor' \in 1 .. N + 1 /\ RowsInv'
<1>0. N \in Nat /\ Root \in 1 .. N /\ Unborn # Dead /\ Unborn \notin 0 .. N /\ Dead \notin 0 .. N
  BY ProcessAssumption
<1>1. /\ table \in [Pids -> Parents] /\ tree \subseteq Pids
      /\ rows \in [Pids -> 0 .. N \cup {Dead}] /\ cursor \in 1 .. N + 1
  BY DEF TypeOK
<1>2. /\ table[Root] \in {Host, Dead} /\ Root \in tree
      /\ \A p \in Pids : table[p] \in Pids => table[table[p]] \notin {Unborn, Dead}
      /\ \A p \in Pids : table[p] \in tree => p \in tree
      /\ \A p \in tree : table[p] # Unborn
  BY DEF HostInv, Alive
<1>3. /\ rows[Root] \in {Host, Dead}
      /\ \A p \in Pids : rows[p] \in Pids => table[rows[p]] # Unborn
      /\ \A p \in Pids : rows[p] \in tree => p \in tree
  BY DEF RowsInv
<1>4. CASE UNCHANGED <<table, tree, rows, cursor>>
  BY <1>1, <1>4 DEF RowsInv
<1>5. ASSUME NEW p \in Pids, Alive(p), table' = Without(p), UNCHANGED <<tree, rows, cursor>>
      PROVE  rows' \in [Pids -> 0 .. N \cup {Dead}] /\ cursor' \in 1 .. N + 1 /\ RowsInv'
  <2>1. \A q \in Pids : table'[q] = Unborn <=> table[q] = Unborn
    BY <1>5, WithoutIs
  <2> QED
    BY <1>1, <1>3, <1>5, <2>1 DEF RowsInv
<1>6. ASSUME NEW p \in Pids \cup {Host}, NEW c \in Pids, Fork(p, c)
      PROVE  rows' \in [Pids -> 0 .. N \cup {Dead}] /\ cursor' \in 1 .. N + 1 /\ RowsInv'
  <2>1. /\ table[c] = Unborn
        /\ table' = [table EXCEPT ![c] = p]
        /\ tree' = IF p \in tree THEN tree \cup {c} ELSE tree
        /\ rows' = rows /\ cursor' = cursor
    BY <1>6 DEF Fork
  <2>2. p # Unborn
    BY <1>0
  <2>3. \A q \in Pids : table[q] # Unborn => table'[q] # Unborn
    BY <1>1, <2>1, <2>2
  <2>4. \A q \in Pids : rows[q] # c
    BY <1>3, <2>1
  <2>5. \A q \in Pids : rows[q] \in tree' => q \in tree'
    BY <1>3, <2>1, <2>4
  <2> QED
    BY <1>1, <1>3, <2>1, <2>3, <2>5 DEF RowsInv
<1>7. ASSUME ReadProcess
      PROVE  rows' \in [Pids -> 0 .. N \cup {Dead}] /\ cursor' \in 1 .. N + 1 /\ RowsInv'
  <2>1. /\ cursor <= N /\ cursor' = cursor + 1
        /\ rows' = [rows EXCEPT ![cursor] = IF Alive(cursor) THEN table[cursor] ELSE Dead]
        /\ table' = table /\ tree' = tree
    BY <1>7 DEF ReadProcess, host
  <2>2. cursor \in Pids /\ cursor + 1 \in 1 .. N + 1
    BY <1>0, <1>1, <2>1
  <2>3. (IF Alive(cursor) THEN table[cursor] ELSE Dead) \in 0 .. N \cup {Dead}
    BY <1>1, <2>2 DEF Alive, Parents
  <2>4. /\ rows' \in [Pids -> 0 .. N \cup {Dead}]
        /\ \A q \in Pids \ {cursor} : rows'[q] = rows[q]
        /\ rows'[cursor] \in {table[cursor], Dead}
    BY <1>1, <2>1, <2>2, <2>3
  <2>5. rows'[Root] \in {Host, Dead}
    BY <1>0, <1>2, <1>3, <2>4
  <2>6. ASSUME NEW q \in Pids, rows'[q] \in Pids PROVE table[rows'[q]] # Unborn
    BY <1>0, <1>2, <1>3, <2>2, <2>4, <2>6
  <2>7. ASSUME NEW q \in Pids, rows'[q] \in tree PROVE q \in tree
    <3>1. Dead \notin tree
      <4>1. Dead \notin Pids
        BY <1>0
      <4> QED
        BY <1>1, <4>1
    <3>2. CASE q = cursor
      BY <1>2, <2>2, <2>4, <2>7, <3>1, <3>2
    <3>3. CASE q # cursor
      BY <1>3, <2>4, <2>7, <3>3
    <3> QED
      BY <3>2, <3>3
  <2> QED
    BY <2>1, <2>2, <2>4, <2>5, <2>6, <2>7 DEF RowsInv
<1>8. ASSUME PsFails
      PROVE  rows' \in [Pids -> 0 .. N \cup {Dead}] /\ cursor' \in 1 .. N + 1 /\ RowsInv'
  <2>1. cursor' = 1 /\ rows' = [p \in Pids |-> Dead] /\ table' = table /\ tree' = tree
    BY <1>8 DEF PsFails, host
  <2>2. \A p \in Pids : rows'[p] = Dead
    BY <2>1
  <2>0. Dead \notin Pids /\ 1 \in 1 .. N + 1
    BY <1>0
  <2>3. Dead \notin Pids /\ Dead \notin tree /\ 1 \in 1 .. N + 1
    BY <1>1, <2>0
  <2>4. rows' \in [Pids -> 0 .. N \cup {Dead}]
    BY <2>1
  <2> QED
    BY <1>0, <2>1, <2>2, <2>3, <2>4 DEF RowsInv
<1>9. ASSUME Kill PROVE \/ UNCHANGED <<table, tree, rows, cursor>>
                        \/ \E p \in Pids : Alive(p) /\ table' = Without(p) /\ UNCHANGED <<tree, rows, cursor>>
  BY <1>9, KillIs
<1>10. ASSUME NEW p \in Pids, Exit(p) PROVE Alive(p) /\ table' = Without(p) /\ UNCHANGED <<tree, rows, cursor>>
  BY <1>10 DEF Exit
<1>11. ASSUME Begin \/ PsReturns \/ Visit \/ WalkEnds \/ Term \/ NextSignal
       PROVE  UNCHANGED <<table, tree, rows, cursor>>
  BY <1>11 DEF Begin, PsReturns, Visit, WalkEnds, Term, NextSignal, host
<1>12. ASSUME UNCHANGED vars PROVE UNCHANGED <<table, tree, rows, cursor>>
  BY <1>12 DEF vars
<1> QED
  BY <1>4, <1>5, <1>6, <1>7, <1>8, <1>9, <1>10, <1>11, <1>12 DEF Next, Tool

\* What a visit does: nothing to a process visited before, else it is put on the
\* list, and the children it has in the rows into the queue.
LEMMA VisitIs ==
    ASSUME TypeOK, Visit
    PROVE  \E p \in Pids :
             /\ queue # << >> /\ p = Head(queue) /\ phase = "walk"
             /\ ToSet(queue) = {p} \cup ToSet(Tail(queue)) /\ Tail(queue) \in Seq(Pids)
             /\ UNCHANGED <<table, tree, mode, phase, cursor, rows, todo, start, exits>>
             /\ \/ /\ p \in ToSet(visited)
                   /\ queue' = Tail(queue) /\ visited' = visited /\ rss' = rss
                \/ /\ p \notin ToSet(visited)
                   /\ visited' = Append(visited, p) /\ visited' \in Seq(Pids)
                   /\ ToSet(visited') = ToSet(visited) \cup {p}
                   /\ queue' \in Seq(Pids)
                   /\ ToSet(queue') = ToSet(Tail(queue)) \cup
                         (IF mode = "sample" /\ ~HasRow(p) THEN {} ELSE {q \in Pids : rows[q] = p})
                   /\ rss' = IF HasRow(p) THEN rss + 1 ELSE rss
<1>1. queue \in Seq(Pids) /\ visited \in Seq(Pids)
  BY DEF TypeOK
<1>2. queue # << >>
  BY DEF Visit
<1> DEFINE p == Head(queue)
<1>3. p \in Pids /\ Tail(queue) \in Seq(Pids) /\ ToSet(queue) = {p} \cup ToSet(Tail(queue))
  BY <1>1, <1>2, SetOfTail
<1>4. UNCHANGED <<table, tree, mode, phase, cursor, rows, todo, start, exits>> /\ phase = "walk"
  BY DEF Visit, host, history
<1>5. CASE p \in ToSet(visited)
  <2>1. queue' = Tail(queue) /\ visited' = visited /\ rss' = rss
    BY <1>5 DEF Visit
  <2> QED
    BY <1>2, <1>3, <1>4, <1>5, <2>1
<1>6. CASE p \notin ToSet(visited)
  <2>1. /\ visited' = Append(visited, p)
        /\ queue' = Tail(queue) \o Found(p)
        /\ rss' = IF HasRow(p) THEN rss + 1 ELSE rss
    BY <1>6 DEF Visit
  <2> DEFINE S == IF mode = "sample" /\ ~HasRow(p) THEN {} ELSE {q \in Pids : rows[q] = p}
  <2>2. Found(p) \in Seq(Pids) /\ ToSet(Found(p)) = S
    <3>1. CASE mode = "sample" /\ ~HasRow(p)
      <4>1. Found(p) = << >> /\ S = {}
        BY <3>1 DEF Found
      <4>2. ToSet(<< >>) = {} /\ << >> \in Seq(Pids)
        BY DEF ToSet
      <4> HIDE DEF S, p
      <4> QED
        BY <4>1, <4>2
    <3>2. CASE ~(mode = "sample" /\ ~HasRow(p))
      <4> DEFINE C == {q \in Pids : rows[q] = p}
      <4>1. Found(p) = InOrder(C) /\ S = C
        BY <3>2 DEF Found, ChildrenOf
      <4>2. C \in SUBSET Pids
        OBVIOUS
      <4> HIDE DEF C, S, p
      <4> QED
        BY <4>1, <4>2, InOrderIs
    <3> QED
      BY <3>1, <3>2
  <2>3. visited' \in Seq(Pids) /\ ToSet(visited') = ToSet(visited) \cup {p}
    BY <1>1, <1>3, <2>1, SetOfAppend
  <2>4. queue' \in Seq(Pids) /\ ToSet(queue') = ToSet(Tail(queue)) \cup S
    <3> HIDE DEF p, S
    <3>1. PICK a, b : a = Tail(queue) /\ b = Found(p)
      OBVIOUS
    <3>2. a \in Seq(Pids) /\ b \in Seq(Pids) /\ ToSet(b) = S /\ queue' = a \o b
      BY <1>3, <2>1, <2>2, <3>1
    <3>3. a \o b \in Seq(Pids) /\ ToSet(a \o b) = ToSet(a) \cup ToSet(b)
      BY <3>2, SetOfConcat
    <3> QED
      BY <3>1, <3>2, <3>3
  <2> HIDE DEF p
  <2>5. ToSet(queue') = ToSet(Tail(queue)) \cup
                (IF mode = "sample" /\ ~HasRow(p) THEN {} ELSE {q \in Pids : rows[q] = p})
    BY <2>4
  <2> HIDE DEF S
  <2>6. p = Head(queue)
    BY DEF p
  <2> QED
    BY <1>2, <1>3, <1>4, <1>6, <2>1, <2>3, <2>4, <2>5, <2>6
<1> QED
  BY <1>5, <1>6

\* The list, the queue and the sum: what is visited has been found.
LEMMA FoundStep ==
    ASSUME TypeOK, RowsInv, FoundInv, ClosedInv, [Next]_vars
    PROVE  /\ queue' \in Seq(Pids) /\ visited' \in Seq(Pids) /\ IsInjective(visited')
           /\ mode' \in Modes /\ phase' \in Phases /\ rss' \in 0 .. N
           /\ FoundInv'
<1> DEFINE Goal == /\ queue' \in Seq(Pids) /\ visited' \in Seq(Pids) /\ IsInjective(visited')
                   /\ rss' \in 0 .. N
                   /\ FoundInv'
<1>0. N \in Nat /\ Root \in 1 .. N /\ Unborn # Dead /\ Unborn \notin 0 .. N /\ Dead \notin 0 .. N
  BY ProcessAssumption
<1>1. /\ rows \in [Pids -> 0 .. N \cup {Dead}] /\ mode \in Modes /\ phase \in Phases
      /\ queue \in Seq(Pids) /\ visited \in Seq(Pids) /\ IsInjective(visited) /\ rss \in 0 .. N
  BY DEF TypeOK
<1>2. /\ \A i \in DOMAIN visited :
            visited[i] = Root \/ \E j \in 1 .. (i - 1) : visited[j] = rows[visited[i]]
      /\ \A q \in ToSet(queue) : q = Root \/ rows[q] \in ToSet(visited)
      /\ mode = "sample" /\ rows[Root] = Dead => ToSet(visited) \cup ToSet(queue) \subseteq {Root}
      /\ rss = Cardinality({p \in ToSet(visited) : rows[p] # Dead})
  BY DEF FoundInv, HasRow
<1>3. rows[Root] \in {Host, Dead}
  BY DEF RowsInv
<1>4. ASSUME UNCHANGED <<queue, visited, rss, rows, mode>> PROVE Goal
  <2>1. queue' = queue /\ visited' = visited /\ rss' = rss /\ rows' = rows /\ mode' = mode
    BY <1>4
  <2>2. {p \in ToSet(visited') : rows'[p] # Dead} = {p \in ToSet(visited) : rows[p] # Dead}
    BY <2>1
  <2>3. FoundInv'
    BY <1>2, <2>1, <2>2 DEF FoundInv, HasRow
  <2> QED
    BY <1>1, <2>1, <2>3
<1>5. ToSet(<< >>) = {} /\ ToSet(<<Root>>) = {Root} /\ << >> \in Seq(Pids) /\ <<Root>> \in Seq(Pids)
  BY <1>0 DEF ToSet
<1>6. ASSUME Visit PROVE Goal
  <2>0. ToSet(visited) \subseteq Pids /\ DOMAIN visited = 1 .. Len(visited) /\ Len(visited) \in Nat
    BY <1>1, SetOfSeq
  <2>1. PICK p \in Pids :
             /\ p \in ToSet(queue) /\ ToSet(Tail(queue)) \subseteq ToSet(queue) /\ Tail(queue) \in Seq(Pids)
             /\ UNCHANGED <<mode, rows>>
             /\ \/ /\ p \in ToSet(visited)
                   /\ queue' = Tail(queue) /\ visited' = visited /\ rss' = rss
                \/ /\ p \notin ToSet(visited)
                   /\ visited' = Append(visited, p) /\ visited' \in Seq(Pids)
                   /\ ToSet(visited') = ToSet(visited) \cup {p}
                   /\ queue' \in Seq(Pids)
                   /\ ToSet(queue') = ToSet(Tail(queue)) \cup
                         (IF mode = "sample" /\ rows[p] = Dead THEN {} ELSE {q \in Pids : rows[q] = p})
                   /\ rss' = IF rows[p] # Dead THEN rss + 1 ELSE rss
    BY <1>6, VisitIs DEF HasRow
  <2>2. CASE p \in ToSet(visited)
    <3>1. queue' = Tail(queue) /\ visited' = visited /\ rss' = rss /\ rows' = rows /\ mode' = mode
      BY <2>1, <2>2
    <3>2. ToSet(queue') \subseteq ToSet(queue)
      BY <2>1, <3>1
    <3> QED
      BY <1>1, <1>2, <2>1, <3>1, <3>2 DEF FoundInv, HasRow
  <2>3. CASE p \notin ToSet(visited)
    <3>1. /\ visited' = Append(visited, p) /\ visited' \in Seq(Pids)
          /\ ToSet(visited') = ToSet(visited) \cup {p}
          /\ queue' \in Seq(Pids)
          /\ ToSet(queue') = ToSet(Tail(queue)) \cup
                (IF mode = "sample" /\ rows[p] = Dead THEN {} ELSE {q \in Pids : rows[q] = p})
          /\ rss' = IF rows[p] # Dead THEN rss + 1 ELSE rss
          /\ rows' = rows /\ mode' = mode
      BY <2>1, <2>3
    <3>2. /\ DOMAIN visited' = 1 .. Len(visited) + 1
          /\ \A i \in 1 .. Len(visited) : visited'[i] = visited[i]
          /\ visited'[Len(visited) + 1] = p
      BY <1>1, <3>1
    <3>3. \A i \in 1 .. Len(visited) : visited[i] \in ToSet(visited)
      BY <2>0 DEF ToSet
    <3>4. IsInjective(visited')
      <4> SUFFICES ASSUME NEW i \in 1 .. Len(visited) + 1, NEW j \in 1 .. Len(visited) + 1,
                          visited'[i] = visited'[j]
                   PROVE  i = j
        BY <3>2 DEF IsInjective
      <4>1. CASE i \in 1 .. Len(visited) /\ j \in 1 .. Len(visited)
        BY <1>1, <2>0, <3>2, <4>1 DEF IsInjective
      <4>2. CASE i = Len(visited) + 1 /\ j \in 1 .. Len(visited)
        BY <2>3, <3>2, <3>3, <4>2
      <4>3. CASE j = Len(visited) + 1 /\ i \in 1 .. Len(visited)
        BY <2>3, <3>2, <3>3, <4>3
      <4> QED
        BY <2>0, <4>1, <4>2, <4>3
    <3>5. ASSUME NEW i \in 1 .. Len(visited) + 1
          PROVE  visited'[i] = Root \/ \E j \in 1 .. (i - 1) : visited'[j] = rows[visited'[i]]
      <4>1. CASE i = Len(visited) + 1
        <5>1. visited'[i] = p /\ i - 1 = Len(visited)
          BY <2>0, <3>2, <4>1
        <5>2. CASE p = Root
          BY <5>1, <5>2
        <5>3. CASE rows[p] \in ToSet(visited)
          <6>1. PICK j \in 1 .. Len(visited) : visited[j] = rows[p]
            BY <2>0, <5>3 DEF ToSet
          <6>2. visited'[j] = rows[visited'[i]]
            BY <3>2, <5>1, <6>1
          <6> QED
            BY <5>1, <6>2
        <5> QED
          BY <1>2, <2>1, <5>2, <5>3
      <4>2. CASE i \in 1 .. Len(visited)
        <5>1. visited'[i] = visited[i]
          BY <3>2, <4>2
        <5>2. CASE visited[i] # Root
          <6>1. PICK j \in 1 .. (i - 1) : visited[j] = rows[visited[i]]
            BY <1>2, <2>0, <4>2, <5>2
          <6>2. j \in 1 .. Len(visited)
            BY <2>0, <4>2, <6>1
          <6>3. visited'[j] = rows[visited'[i]]
            BY <3>2, <5>1, <6>1, <6>2
          <6> QED
            BY <6>3
        <5> QED
          BY <5>1, <5>2
      <4> QED
        BY <2>0, <4>1, <4>2
    <3>6. ASSUME NEW q \in ToSet(queue') PROVE q = Root \/ rows[q] \in ToSet(visited')
      <4>1. CASE q \in ToSet(Tail(queue))
        BY <1>2, <2>1, <3>1, <4>1
      <4>2. CASE q \in Pids /\ rows[q] = p
        BY <3>1, <4>2
      <4> QED
        BY <3>1, <4>1, <4>2
    <3>7. ASSUME mode = "sample", rows[Root] = Dead
          PROVE  ToSet(visited') \cup ToSet(queue') \subseteq {Root}
      <4>1. p = Root
        BY <1>2, <2>1, <3>7
      <4>2. ToSet(queue') = ToSet(Tail(queue))
        BY <3>1, <3>7, <4>1
      <4> QED
        BY <1>2, <2>1, <3>1, <3>7, <4>1, <4>2
    <3>8. rss' = Cardinality({q \in ToSet(visited') : rows[q] # Dead}) /\ rss' \in 0 .. N
      <4> DEFINE A == {q \in ToSet(visited) : rows[q] # Dead}
      <4> DEFINE B == {q \in ToSet(visited') : rows[q] # Dead}
      <4>1. A \in SUBSET Pids /\ p \notin A
        BY <2>0, <2>3
      <4>2. B = IF rows[p] # Dead THEN A \cup {p} ELSE A
        BY <3>1
      <4>3. B \in SUBSET Pids
        BY <4>1, <4>2
      <4>4. rss = Cardinality(A)
        BY <1>2
      <4> HIDE DEF A, B
      <4>5. IsFiniteSet(A) /\ Cardinality(B) \in 0 .. N
        BY <4>1, <4>3, IdsFinite
      <4>6. Cardinality(A \cup {p}) = Cardinality(A) + 1
        BY <4>1, <4>5, FS_AddElement
      <4>7. rss' = Cardinality(B)
        BY <3>1, <4>2, <4>4, <4>6
      <4> QED
        BY <4>5, <4>7 DEF B
    <3>9. FoundInv'
      BY <3>1, <3>2, <3>5, <3>6, <3>7, <3>8 DEF FoundInv, HasRow
    <3> QED
      BY <3>1, <3>4, <3>8, <3>9
  <2> QED
    BY <2>2, <2>3
<1>7. ASSUME ReadProcess \/ PsReturns \/ PsFails PROVE Goal
  <2>0. phase = "ps"
    BY <1>7 DEF ReadProcess, PsReturns, PsFails
  <2>1. visited = << >> /\ queue = << >>
    BY <2>0 DEF ClosedInv
  <2>2. /\ visited' = << >> \/ (visited' = <<Root>> /\ rows' = [p \in Pids |-> Dead])
        /\ queue' = << >> \/ queue' = <<Root>>
        /\ rss' = rss
    <3>1. CASE ReadProcess
      <4>1. visited' = visited /\ queue' = queue /\ rss' = rss
        BY <3>1 DEF ReadProcess
      <4> QED
        BY <2>1, <4>1
    <3>2. CASE PsReturns
      <4>1. visited' = visited /\ queue' = <<Root>> /\ rss' = rss
        BY <3>2 DEF PsReturns
      <4> QED
        BY <2>1, <4>1
    <3>3. CASE PsFails
      <4>1. visited' = visited \/ visited' = <<Root>>
        BY <3>3 DEF PsFails
      <4>2. queue' = queue /\ rss' = rss /\ rows' = [p \in Pids |-> Dead]
        BY <3>3 DEF PsFails
      <4> QED
        BY <2>1, <4>1, <4>2
    <3> QED
      BY <1>7, <3>1, <3>2, <3>3
  <2>3. rss = 0
    <3>1. {p \in ToSet(visited) : rows[p] # Dead} = {}
      BY <1>5, <2>1
    <3> QED
      BY <1>2, <3>1, FS_EmptySet
  <2>4. {p \in ToSet(visited') : rows'[p] # Dead} = {}
    <3>1. CASE visited' = << >>
      BY <1>5, <3>1
    <3>2. CASE visited' = <<Root>> /\ rows' = [p \in Pids |-> Dead]
      <4>1. rows'[Root] = Dead
        BY <1>0, <3>2
      <4> QED
        BY <1>5, <3>2, <4>1
    <3> QED
      BY <2>2, <3>1, <3>2
  <2>5. rss' = Cardinality({p \in ToSet(visited') : rows'[p] # Dead}) /\ rss' \in 0 .. N
    <3>1. Cardinality({p \in ToSet(visited') : rows'[p] # Dead}) = 0
      BY <2>4, FS_EmptySet
    <3> QED
      BY <1>0, <2>2, <2>3, <3>1
  <2>6. ToSet(visited') \subseteq {Root} /\ ToSet(queue') \subseteq {Root}
    BY <1>5, <2>2
  <2>7. \A i \in DOMAIN visited' : visited'[i] = Root
    BY <2>6 DEF ToSet
  <2>8. visited' \in Seq(Pids) /\ queue' \in Seq(Pids)
    BY <1>5, <2>2
  <2>9. IsInjective(visited')
    <3>1. \A i, j \in DOMAIN visited' : i = j
      BY <2>2
    <3> QED
      BY <3>1 DEF IsInjective
  <2> QED
    BY <2>5, <2>6, <2>7, <2>8, <2>9 DEF FoundInv, HasRow
<1>8. ASSUME NEW p \in Pids \cup {Host}, NEW c \in Pids, Fork(p, c)
      PROVE  UNCHANGED <<queue, visited, rss, rows, mode>>
  BY <1>8 DEF Fork
<1>9. ASSUME NEW p \in Pids, Exit(p) PROVE UNCHANGED <<queue, visited, rss, rows, mode>>
  BY <1>9 DEF Exit
<1>10. ASSUME Begin \/ WalkEnds \/ Term \/ Kill \/ NextSignal
       PROVE  UNCHANGED <<queue, visited, rss, rows, mode>>
  BY <1>10 DEF Begin, WalkEnds, Term, Kill, NextSignal
<1>11. ASSUME UNCHANGED vars PROVE UNCHANGED <<queue, visited, rss, rows, mode>>
  BY <1>11 DEF vars
<1>12. Goal
  <2> HIDE DEF Goal
  <2>1. UNCHANGED <<queue, visited, rss, rows, mode>> => Goal
    BY <1>4 DEF Goal
  <2> QED
    BY <2>1, <1>6, <1>7, <1>8, <1>9, <1>10, <1>11 DEF Next, Tool
<1>13. mode' = mode
  BY DEF Next, Tool, vars, Fork, Exit, Begin, ReadProcess, PsReturns, PsFails, Visit, WalkEnds,
         Term, Kill, NextSignal
<1>14. phase' \in Phases
  <2>1. phase' \in {phase, "ps", "walk", "TERM", "KILL", "failed", "done"}
    BY DEF Next, Tool, vars, Fork, Exit, Begin, ReadProcess, PsReturns, PsFails, Visit, WalkEnds,
           Term, Kill, NextSignal
  <2> QED
    BY <1>1, <2>1 DEF Phases
<1> QED
  BY <1>1, <1>12, <1>13, <1>14

\* The list and the queue stay within the tree.
LEMMA WithinStep ==
    ASSUME TypeOK, HostInv, RowsInv, WithinInv, ClosedInv, [Next]_vars
    PROVE  WithinInv'
<1>0. Root \in Pids /\ Dead \in Parents
  BY ProcessAssumption DEF Parents
<1>1. rows \in [Pids -> Parents] /\ tree \subseteq Pids
  BY DEF TypeOK, Parents
<1>2. Root \in Below(rows, Root) /\ \A q \in Pids : rows[q] \in Below(rows, Root) => q \in Below(rows, Root)
  BY <1>0, <1>1, BelowIs DEF Closed
<1>3. /\ ToSet(visited) \subseteq tree /\ ToSet(queue) \subseteq tree
      /\ ToSet(visited) \subseteq Below(rows, Root) /\ ToSet(queue) \subseteq Below(rows, Root)
  BY DEF WithinInv
<1>4. Root \in tree /\ \A q \in Pids : rows[q] \in tree => q \in tree
  BY DEF HostInv, RowsInv
<1>5. tree \subseteq tree'
  BY DEF Next, Tool, vars, host, Fork, Exit, Begin, ReadProcess, PsReturns, PsFails, Visit, WalkEnds,
         Term, Kill, NextSignal
<1>6. ToSet(<< >>) = {} /\ ToSet(<<Root>>) = {Root}
  BY DEF ToSet
<1>7. ASSUME UNCHANGED <<visited, queue, rows>> PROVE WithinInv'
  <2>1. visited' = visited /\ queue' = queue /\ rows' = rows
    BY <1>7
  <2>2. /\ ToSet(visited') = ToSet(visited) /\ ToSet(queue') = ToSet(queue)
        /\ Below(rows', Root) = Below(rows, Root)
    BY <2>1
  <2> QED
    BY <1>3, <1>5, <2>2 DEF WithinInv
<1>8. ASSUME Visit PROVE WithinInv'
  <2>1. PICK p \in Pids :
             /\ rows' = rows
             /\ ToSet(queue) = {p} \cup ToSet(Tail(queue))
             /\ \/ queue' = Tail(queue) /\ visited' = visited
                \/ /\ ToSet(visited') = ToSet(visited) \cup {p}
                   /\ ToSet(queue') = ToSet(Tail(queue)) \cup
                         (IF mode = "sample" /\ ~HasRow(p) THEN {} ELSE {q \in Pids : rows[q] = p})
    BY <1>8, VisitIs
  <2>2. ToSet(visited') \cup ToSet(queue') \subseteq ToSet(visited) \cup ToSet(queue) \cup {q \in Pids : rows[q] = p}
    <3>1. CASE queue' = Tail(queue) /\ visited' = visited
      <4>1. ToSet(queue') = ToSet(Tail(queue)) /\ ToSet(visited') = ToSet(visited)
        BY <3>1
      <4> QED
        BY <2>1, <4>1
    <3>2. CASE queue' # Tail(queue) \/ visited' # visited
      BY <2>1, <3>2
    <3> QED
      BY <3>1, <3>2
  <2>3. Below(rows', Root) = Below(rows, Root)
    BY <2>1
  <2>4. p \in ToSet(queue)
    BY <2>1
  <2>5. p \in tree /\ p \in Below(rows, Root)
    BY <1>3, <2>4
  <2>6. {q \in Pids : rows[q] = p} \subseteq tree /\ {q \in Pids : rows[q] = p} \subseteq Below(rows, Root)
    BY <1>2, <1>4, <2>5
  <2> QED
    BY <1>3, <1>5, <2>2, <2>3, <2>6 DEF WithinInv
<1>9. ASSUME ReadProcess \/ PsReturns \/ PsFails PROVE WithinInv'
  <2>1. phase = "ps" /\ (visited' = visited \/ visited' = <<Root>>) /\ (queue' = queue \/ queue' = <<Root>>)
    BY <1>9 DEF ReadProcess, PsReturns, PsFails
  <2>2. visited = << >> /\ queue = << >>
    BY <2>1 DEF ClosedInv
  <2>3. ToSet(visited') \subseteq {Root} /\ ToSet(queue') \subseteq {Root}
    BY <1>6, <2>1, <2>2
  <2>4. rows' \in [Pids -> 0 .. N \cup {Dead}]
    BY RowsStep
  <2>5. rows' \in [Pids -> Parents]
    BY <2>4 DEF Parents
  <2>6. Root \in Below(rows', Root)
    <3>1. PICK t : t = rows'
      OBVIOUS
    <3>2. Root \in Below(t, Root)
      BY <1>0, <2>5, <3>1, BelowIs
    <3> QED
      BY <3>1, <3>2
  <2> QED
    BY <1>4, <1>5, <2>3, <2>6 DEF WithinInv
<1>10. ASSUME NEW p \in Pids \cup {Host}, NEW c \in Pids, Fork(p, c) PROVE UNCHANGED <<visited, queue, rows>>
  BY <1>10 DEF Fork
<1>11. ASSUME NEW p \in Pids, Exit(p) PROVE UNCHANGED <<visited, queue, rows>>
  BY <1>11 DEF Exit
<1>12. ASSUME Begin \/ WalkEnds \/ Term \/ Kill \/ NextSignal PROVE UNCHANGED <<visited, queue, rows>>
  BY <1>12 DEF Begin, WalkEnds, Term, Kill, NextSignal
<1>13. ASSUME UNCHANGED vars PROVE UNCHANGED <<visited, queue, rows>>
  BY <1>13 DEF vars
<1> QED
  BY <1>7, <1>8, <1>9, <1>10, <1>11, <1>12, <1>13 DEF Next, Tool

\* And nobody is missing.
LEMMA ClosedStep ==
    ASSUME TypeOK, ClosedInv, [Next]_vars
    PROVE  ClosedInv'
<1>0. N \in Nat /\ Root \in 1 .. N /\ N >= 1
  BY ProcessAssumption
<1>1. /\ mode \in {"stop", "sample"} /\ phase \in Phases /\ cursor \in 1 .. N + 1
      /\ queue \in Seq(Pids) /\ visited \in Seq(Pids)
  BY ModesAssumption DEF TypeOK
<1>2. /\ phase \in {"idle", "ps", "failed"} => visited = << >> /\ queue = << >>
      /\ phase = "walk" => Root \in ToSet(visited) \cup ToSet(queue) /\ cursor > N
      /\ phase \in {"TERM", "KILL", "done"} =>
            Root \in ToSet(visited) /\ queue = << >> /\ (mode = "sample" => cursor > N)
      /\ phase \notin {"idle", "ps", "failed"} /\ cursor > N =>
            \A p \in ToSet(visited) : mode = "stop" \/ rows[p] # Dead =>
                \A c \in Pids : rows[c] = p => c \in ToSet(visited) \cup ToSet(queue)
  BY DEF ClosedInv, HasRow
<1>3. ToSet(<< >>) = {} /\ ToSet(<<Root>>) = {Root}
  BY DEF ToSet
<1>4. ASSUME UNCHANGED <<phase, queue, visited, cursor, rows, mode>> PROVE ClosedInv'
  <2>1. phase' = phase /\ queue' = queue /\ visited' = visited /\ cursor' = cursor /\ rows' = rows /\ mode' = mode
    BY <1>4
  <2> QED
    BY <1>2, <2>1 DEF ClosedInv, HasRow
<1>5. ASSUME Visit PROVE ClosedInv'
  <2>1. PICK p \in Pids :
             /\ phase = "walk" /\ phase' = "walk" /\ cursor' = cursor /\ rows' = rows /\ mode' = mode
             /\ ToSet(queue) = {p} \cup ToSet(Tail(queue))
             /\ \/ /\ p \in ToSet(visited)
                   /\ queue' = Tail(queue) /\ visited' = visited
                \/ /\ ToSet(visited') = ToSet(visited) \cup {p}
                   /\ ToSet(queue') = ToSet(Tail(queue)) \cup
                         (IF mode = "sample" /\ rows[p] = Dead THEN {} ELSE {q \in Pids : rows[q] = p})
    BY <1>5, VisitIs DEF HasRow
  <2> DEFINE known == ToSet(visited) \cup ToSet(queue)
  <2> DEFINE known2 == ToSet(visited') \cup ToSet(queue')
  <2>2. known \subseteq known2 /\ p \in ToSet(visited')
    <3>1. CASE p \in ToSet(visited) /\ queue' = Tail(queue) /\ visited' = visited
      <4>1. ToSet(queue') = ToSet(Tail(queue)) /\ ToSet(visited') = ToSet(visited)
        BY <3>1
      <4> QED
        BY <2>1, <3>1, <4>1
    <3>2. CASE ToSet(visited') = ToSet(visited) \cup {p} /\ ToSet(Tail(queue)) \subseteq ToSet(queue')
      BY <2>1, <3>2
    <3> QED
      BY <2>1, <3>1, <3>2
  <2>3. Root \in known2
    BY <1>2, <2>1, <2>2
  <2>4. ASSUME NEW x \in ToSet(visited'), mode = "stop" \/ rows[x] # Dead, NEW c \in Pids, rows[c] = x
        PROVE  c \in known2
    <3>1. CASE x \in ToSet(visited)
      <4>1. c \in known
        BY <1>2, <2>1, <2>4, <3>1
      <4> QED
        BY <2>2, <4>1
    <3>2. CASE x \notin ToSet(visited)
      <4>1. /\ ToSet(visited') = ToSet(visited) \cup {p}
            /\ ToSet(queue') = ToSet(Tail(queue)) \cup
                  (IF mode = "sample" /\ rows[p] = Dead THEN {} ELSE {q \in Pids : rows[q] = p})
        BY <2>1, <2>4, <3>2
      <4>2. x = p
        BY <2>4, <3>2, <4>1
      <4>3. ~(mode = "sample" /\ rows[p] = Dead)
        BY <2>4, <4>2
      <4> QED
        BY <2>4, <4>1, <4>2, <4>3
    <3> QED
      BY <3>1, <3>2
  <2>5. cursor' > N
    BY <1>2, <2>1
  <2> QED
    BY <2>1, <2>3, <2>4, <2>5 DEF ClosedInv, HasRow
<1>6. ASSUME PsReturns PROVE ClosedInv'
  <2>1. phase = "ps" /\ phase' = "walk" /\ cursor > N /\ cursor' = cursor /\ queue' = <<Root>> /\ visited' = visited
    BY <1>6 DEF PsReturns
  <2>2. ToSet(visited') = {} /\ ToSet(queue') = {Root}
    BY <1>2, <1>3, <2>1
  <2> QED
    BY <2>1, <2>2 DEF ClosedInv
<1>7. ASSUME PsFails PROVE ClosedInv'
  <2>1. phase = "ps" /\ queue' = queue /\ cursor' = 1 /\ mode' = mode
    BY <1>7 DEF PsFails
  <2>2. queue' = << >> /\ visited = << >> /\ ~(cursor' > N)
    BY <1>0, <1>2, <2>1
  <2>3. CASE mode = "stop"
    <3>1. phase' = "TERM" /\ visited' = <<Root>> /\ mode' # "sample"
      BY <1>7, <2>1, <2>3 DEF PsFails
    <3>2. Root \in ToSet(visited')
      BY <1>3, <3>1
    <3> QED
      BY <2>2, <3>1, <3>2 DEF ClosedInv
  <2>4. CASE mode # "stop"
    <3>1. phase' = "failed" /\ visited' = visited
      BY <1>7, <2>4 DEF PsFails
    <3> QED
      BY <2>2, <3>1 DEF ClosedInv
  <2> QED
    BY <2>3, <2>4
<1>8. ASSUME Begin \/ ReadProcess PROVE ClosedInv'
  <2>1. phase \in {"idle", "ps"} /\ phase' = "ps" /\ queue' = queue /\ visited' = visited
    BY <1>8 DEF Begin, ReadProcess
  <2> QED
    BY <1>2, <2>1 DEF ClosedInv
<1>9. ASSUME WalkEnds \/ NextSignal PROVE ClosedInv'
  <2>1. /\ phase \in {"walk", "TERM", "KILL"} /\ phase' \in {"TERM", "KILL", "done"} /\ queue = << >>
        /\ queue' = queue /\ visited' = visited /\ cursor' = cursor /\ rows' = rows /\ mode' = mode
    <3>1. CASE WalkEnds
      BY <3>1 DEF WalkEnds
    <3>2. CASE NextSignal
      BY <1>2, <3>2 DEF NextSignal
    <3> QED
      BY <1>9, <3>1, <3>2
  <2>2. Root \in ToSet(visited) /\ (mode = "sample" => cursor > N)
    BY <1>2, <1>3, <2>1
  <2>3. queue' = << >> /\ Root \in ToSet(visited') /\ (mode' = "sample" => cursor' > N)
    BY <2>1, <2>2
  <2>4. cursor > N => \A p \in ToSet(visited) : mode = "stop" \/ rows[p] # Dead =>
                \A c \in Pids : rows[c] = p => c \in ToSet(visited) \cup ToSet(queue)
    BY <1>2, <2>1
  <2>5. cursor' > N => \A p \in ToSet(visited') : mode' = "stop" \/ rows'[p] # Dead =>
                \A c \in Pids : rows'[c] = p => c \in ToSet(visited') \cup ToSet(queue')
    BY <2>1, <2>4
  <2> QED
    BY <2>1, <2>3, <2>5 DEF ClosedInv, HasRow
<1>10. ASSUME NEW p \in Pids \cup {Host}, NEW c \in Pids, Fork(p, c)
      PROVE  UNCHANGED <<phase, queue, visited, cursor, rows, mode>>
  BY <1>10 DEF Fork
<1>11. ASSUME NEW p \in Pids, Exit(p) PROVE UNCHANGED <<phase, queue, visited, cursor, rows, mode>>
  BY <1>11 DEF Exit
<1>12. ASSUME Term \/ Kill PROVE UNCHANGED <<phase, queue, visited, cursor, rows, mode>>
  BY <1>12 DEF Term, Kill
<1>13. ASSUME UNCHANGED vars PROVE UNCHANGED <<phase, queue, visited, cursor, rows, mode>>
  BY <1>13 DEF vars
<1> QED
  BY <1>4, <1>5, <1>6, <1>7, <1>8, <1>9, <1>10, <1>11, <1>12, <1>13 DEF Next, Tool

\* The signals go backwards over the list, and who has been killed stays dead.
LEMMA SignalStep ==
    ASSUME TypeOK, HostInv, WithinInv, ClosedInv, SignalInv, visited' \in Seq(Pids), [Next]_vars
    PROVE  todo' \in Seq(Pids) /\ SignalInv'
<1> DEFINE Goal == todo' \in Seq(Pids) /\ SignalInv'
<1>1. /\ table \in [Pids -> Parents] /\ mode \in {"stop", "sample"} /\ phase \in Phases
      /\ visited \in Seq(Pids) /\ todo \in Seq(Pids)
  BY ModesAssumption DEF TypeOK
<1>2. /\ phase \in {"TERM", "KILL"} => mode = "stop"
      /\ phase \notin {"TERM", "KILL"} => todo = << >>
      /\ Len(todo) <= Len(visited)
      /\ \A i \in 1 .. Len(todo) : todo[i] = visited[i]
      /\ phase = "KILL" => \A i \in Len(todo) + 1 .. Len(visited) : table[visited[i]] = Dead
      /\ phase = "done" /\ mode = "stop" => \A i \in 1 .. Len(visited) : table[visited[i]] = Dead
  BY DEF SignalInv
<1>3. Len(todo) \in Nat /\ Len(visited) \in Nat /\ \A i \in 1 .. Len(visited) : visited[i] \in Pids
  BY <1>1, SetOfSeq
<1>4. Root \in Pids /\ <<Root>> \in Seq(Pids) /\ Len(<<Root>>) = 1 /\ << >> \in Seq(Pids) /\ Len(<< >>) = 0
  BY ProcessAssumption
<1>5. ASSUME UNCHANGED <<phase, visited, todo, mode>>,
             \A p \in Pids : table[p] = Dead => table'[p] = Dead
      PROVE  Goal
  <2>1. phase' = phase /\ visited' = visited /\ todo' = todo /\ mode' = mode
    BY <1>5
  <2>2. phase = "KILL" => \A i \in Len(todo) + 1 .. Len(visited) : table'[visited[i]] = Dead
    BY <1>2, <1>3, <1>5
  <2>3. phase = "done" /\ mode = "stop" => \A i \in 1 .. Len(visited) : table'[visited[i]] = Dead
    BY <1>2, <1>3, <1>5
  <2> QED
    BY <1>1, <1>2, <2>1, <2>2, <2>3 DEF SignalInv
<1>6. ASSUME NEW p \in Pids \cup {Host}, NEW c \in Pids, Fork(p, c) PROVE Goal
  <2>1. table[c] = Unborn /\ table' = [table EXCEPT ![c] = p] /\ UNCHANGED <<phase, visited, todo, mode>>
    BY <1>6 DEF Fork
  <2>2. \A q \in Pids : table[q] = Dead => table'[q] = Dead
    BY <1>1, <2>1, ProcessAssumption
  <2> HIDE DEF Goal
  <2> QED
    BY <1>5, <2>1, <2>2
<1>7. ASSUME NEW p \in Pids, Exit(p) PROVE Goal
  <2>1. Alive(p) /\ table' = Without(p) /\ UNCHANGED <<phase, visited, todo, mode>>
    BY <1>7 DEF Exit
  <2>2. \A q \in Pids : table[q] = Dead => table'[q] = Dead
    BY <2>1, WithoutIs
  <2> HIDE DEF Goal
  <2> QED
    BY <1>5, <2>1, <2>2
<1>8. ASSUME todo # << >>, todo' = Front(todo)
      PROVE  /\ todo' \in Seq(Pids) /\ Len(todo') = Len(todo) - 1 /\ Len(todo) >= 1
             /\ Len(todo') <= Len(visited)
             /\ \A i \in 1 .. Len(todo') : todo'[i] = visited[i]
             /\ Last(todo) = visited[Len(todo)]
  <2>1. /\ todo' \in Seq(Pids) /\ Len(todo') = Len(todo) - 1
        /\ \A i \in 1 .. Len(todo) - 1 : todo'[i] = todo[i]
        /\ Last(todo) = todo[Len(todo)] /\ Len(todo) >= 1
    BY <1>1, <1>8, FrontAndLast
  <2> QED
    BY <1>2, <1>3, <2>1
<1>9. ASSUME Term PROVE Goal
  <2>1. phase = "TERM" /\ todo # << >> /\ todo' = Front(todo) /\ phase' = phase /\ visited' = visited /\ mode' = mode
    BY <1>9 DEF Term
  <2>2. /\ todo' \in Seq(Pids) /\ Len(todo') <= Len(visited)
        /\ \A i \in 1 .. Len(todo') : todo'[i] = visited[i]
    BY <1>8, <2>1
  <2> QED
    BY <1>2, <2>1, <2>2 DEF SignalInv
<1>10. ASSUME Kill PROVE Goal
  <2>1. /\ phase = "KILL" /\ todo # << >> /\ todo' = Front(todo)
        /\ phase' = phase /\ visited' = visited /\ mode' = mode /\ Last(todo) \in Pids
        /\ \/ Alive(Last(todo)) /\ table' = Without(Last(todo))
           \/ ~Alive(Last(todo)) /\ table' = table
    BY <1>10, KillIs
  <2>2. /\ todo' \in Seq(Pids) /\ Len(todo') <= Len(visited)
        /\ \A i \in 1 .. Len(todo') : todo'[i] = visited[i]
        /\ Len(todo') = Len(todo) - 1 /\ Len(todo) >= 1
        /\ Last(todo) = visited[Len(todo)]
    BY <1>8, <2>1
  <2>3. table'[Last(todo)] = Dead /\ \A q \in Pids : table[q] = Dead => table'[q] = Dead
    <3>1. CASE Alive(Last(todo)) /\ table' = Without(Last(todo))
      BY <2>1, <3>1, WithoutIs
    <3>2. CASE ~Alive(Last(todo)) /\ table' = table
      <4>1. Last(todo) \in ToSet(visited)
        <5>1. Len(todo) \in 1 .. Len(visited)
          BY <1>2, <1>3, <2>2
        <5>2. DOMAIN visited = 1 .. Len(visited)
          BY <1>1
        <5> QED
          BY <2>2, <5>1, <5>2 DEF ToSet
      <4>2. table[Last(todo)] # Unborn
        BY <4>1 DEF HostInv, WithinInv
      <4> QED
        BY <3>2, <4>2 DEF Alive
    <3> QED
      BY <2>1, <3>1, <3>2
  <2>4. ASSUME NEW i \in Len(todo') + 1 .. Len(visited) PROVE table'[visited[i]] = Dead
    <3>1. i = Len(todo) \/ i \in Len(todo) + 1 .. Len(visited)
      BY <1>3, <2>2
    <3>2. i \in 1 .. Len(visited)
      BY <1>3, <2>2
    <3>3. CASE i = Len(todo)
      BY <2>2, <2>3, <3>3
    <3>4. CASE i \in Len(todo) + 1 .. Len(visited)
      BY <1>2, <1>3, <2>1, <2>3, <3>2, <3>4
    <3> QED
      BY <3>1, <3>3, <3>4
  <2> QED
    BY <1>2, <2>1, <2>2, <2>4 DEF SignalInv
<1>11. ASSUME WalkEnds PROVE Goal
  <2>1. phase = "walk" /\ visited' = visited /\ mode' = mode
    BY <1>11 DEF WalkEnds
  <2>2. todo = << >>
    BY <1>2, <2>1
  <2>3. CASE mode = "stop"
    <3>1. phase' = "TERM" /\ todo' = visited
      BY <1>11, <2>3 DEF WalkEnds
    <3> QED
      BY <1>1, <1>3, <2>1, <2>3, <3>1 DEF SignalInv
  <2>4. CASE mode = "sample"
    <3>1. phase' = "done" /\ todo' = todo
      BY <1>11, <2>4 DEF WalkEnds
    <3>2. todo' = << >> /\ Len(todo') = 0 /\ mode' = "sample"
      BY <1>4, <2>1, <2>2, <2>4, <3>1
    <3> QED
      BY <1>3, <1>4, <2>1, <3>1, <3>2 DEF SignalInv
  <2> QED
    BY <1>1, <2>3, <2>4
<1>12. ASSUME NextSignal PROVE Goal
  <2>1. /\ phase \in {"TERM", "KILL"} /\ todo = << >> /\ visited' = visited /\ mode' = mode /\ table' = table
        /\ mode = "stop"
    BY <1>2, <1>12 DEF NextSignal, host
  <2>2. CASE phase = "TERM"
    <3>1. phase' = "KILL" /\ todo' = visited
      BY <1>12, <2>2 DEF NextSignal
    <3>2. Len(todo') = Len(visited) /\ todo' \in Seq(Pids)
      BY <1>1, <3>1
    <3>3. \A i \in Len(todo') + 1 .. Len(visited) : FALSE
      BY <1>3, <3>2
    <3> QED
      BY <1>1, <1>3, <2>1, <3>1, <3>2, <3>3 DEF SignalInv
  <2>3. CASE phase = "KILL"
    <3>1. phase' = "done" /\ todo' = todo
      BY <1>12, <2>3 DEF NextSignal
    <3>2. todo' = << >> /\ Len(todo) = 0 /\ Len(todo') = 0
      BY <1>4, <2>1, <3>1
    <3>3. \A i \in 1 .. Len(visited) : table[visited[i]] = Dead
      BY <1>2, <2>3, <3>2
    <3> QED
      BY <1>3, <1>4, <2>1, <3>1, <3>2, <3>3 DEF SignalInv
  <2> QED
    BY <2>1, <2>2, <2>3
<1>13. ASSUME Begin \/ ReadProcess \/ PsReturns \/ Visit PROVE Goal
  <2>1. /\ phase \in {"idle", "ps", "walk"} /\ phase' \in {"ps", "walk"} /\ todo' = todo
    BY <1>13 DEF Begin, ReadProcess, PsReturns, Visit
  <2>2. todo' = << >> /\ Len(todo') = 0
    BY <1>2, <1>4, <2>1
  <2>3. Len(visited') \in Nat
    OBVIOUS
  <2> QED
    BY <1>4, <2>1, <2>2, <2>3 DEF SignalInv
<1>14. ASSUME PsFails PROVE Goal
  <2>1. phase = "ps" /\ mode' = mode
    BY <1>14 DEF PsFails
  <2>2. todo = << >>
    BY <1>2, <2>1
  <2>3. CASE mode = "stop"
    <3>1. phase' = "TERM" /\ visited' = <<Root>> /\ todo' = <<Root>>
      BY <1>14, <2>3 DEF PsFails
    <3> QED
      BY <1>4, <2>1, <2>3, <3>1 DEF SignalInv
  <2>4. CASE mode = "sample"
    <3>1. phase' = "failed" /\ todo' = todo
      BY <1>14, <2>4 DEF PsFails
    <3>2. todo' = << >> /\ Len(todo') = 0
      BY <1>4, <2>2, <3>1
    <3>3. Len(visited') \in Nat
      OBVIOUS
    <3> QED
      BY <1>4, <3>1, <3>2, <3>3 DEF SignalInv
  <2> QED
    BY <1>1, <2>3, <2>4
<1>15. ASSUME UNCHANGED vars PROVE Goal
  <2>1. UNCHANGED <<phase, visited, todo, mode>> /\ table' = table
    BY <1>15 DEF vars
  <2> HIDE DEF Goal
  <2> QED
    BY <1>5, <2>1
<1> HIDE DEF Goal
<1>16. Goal
  BY <1>6, <1>7, <1>9, <1>10, <1>11, <1>12, <1>13, <1>14, <1>15 DEF Next, Tool
<1> QED
  BY <1>16 DEF Goal

\* Who has exited is dead, and the rows have the parents of the start where these
\* and their children live on.
LEMMA StartStep ==
    ASSUME TypeOK, HostInv, StartInv, [Next]_vars
    PROVE  start' \in [Pids -> Parents] /\ exits' \subseteq Pids /\ StartInv'
<1> DEFINE Goal == start' \in [Pids -> Parents] /\ exits' \subseteq Pids /\ StartInv'
<1>0. N \in Nat /\ Unborn # Dead /\ Unborn \notin 0 .. N /\ Dead \notin 0 .. N
  BY ProcessAssumption
<1>1. /\ table \in [Pids -> Parents] /\ start \in [Pids -> Parents] /\ exits \subseteq Pids
      /\ rows \in [Pids -> 0 .. N \cup {Dead}] /\ cursor \in 1 .. N + 1
  BY DEF TypeOK
<1>2. /\ phase = "idle" => exits = {} /\ cursor = 1
      /\ \A p \in exits : table[p] = Dead
      /\ phase = "ps" => \A p \in Pids \ exits : start[p] \in Pids \ exits => table[p] = start[p]
      /\ phase # "idle" => \A p \in Pids \ exits :
            start[p] \in Pids \ exits /\ p < cursor => rows[p] = start[p]
  BY DEF StartInv
<1>3. \A p \in Pids : table[p] \in Pids => table[table[p]] \notin {Unborn, Dead}
  BY DEF HostInv, Alive
<1>4. ASSUME NEW p \in Pids \cup {Host}, NEW c \in Pids, Fork(p, c) PROVE Goal
  <2>1. /\ table[c] = Unborn /\ table' = [table EXCEPT ![c] = p]
        /\ phase' = phase /\ cursor' = cursor /\ rows' = rows /\ start' = start /\ exits' = exits
    BY <1>4 DEF Fork, history
  <2>2. \A q \in Pids \ {c} : table'[q] = table[q]
    BY <1>1, <2>1
  <2>3. c \notin exits
    BY <1>0, <1>2, <2>1
  <2>4. \A q \in exits' : table'[q] = Dead
    BY <1>1, <1>2, <2>1, <2>2, <2>3
  <2>5. ASSUME phase = "ps", NEW q \in Pids \ exits, start[q] \in Pids \ exits PROVE table'[q] = start[q]
    <3>1. table[q] = start[q]
      BY <1>2, <2>5
    <3>2. q # c
      BY <1>0, <2>1, <2>5, <3>1
    <3> QED
      BY <2>2, <3>1, <3>2
  <2> QED
    BY <1>1, <1>2, <2>1, <2>4, <2>5 DEF StartInv
<1>5. ASSUME NEW p \in Pids, Alive(p), table' = Without(p), UNCHANGED <<phase, cursor, rows, start>>,
             exits' = IF phase = "ps" THEN exits \cup {p} ELSE exits
      PROVE  Goal
  <2>1. /\ table'[p] = Dead
        /\ \A q \in Pids \ {p} : table'[q] = IF table[q] = p THEN Host ELSE table[q]
        /\ \A q \in Pids : table[q] = Dead => table'[q] = Dead
    BY <1>5, WithoutIs
  <2>2. phase' = phase /\ cursor' = cursor /\ rows' = rows /\ start' = start /\ exits \subseteq exits'
    BY <1>5
  <2>3. \A q \in exits' : table'[q] = Dead
    BY <1>1, <1>2, <1>5, <2>1
  <2>4. ASSUME phase = "ps", NEW q \in Pids \ exits', start[q] \in Pids \ exits' PROVE table'[q] = start[q]
    <3>1. exits' = exits \cup {p}
      BY <1>5, <2>4
    <3>2. table[q] = start[q] /\ q # p /\ start[q] # p
      BY <1>2, <2>4, <3>1
    <3> QED
      BY <2>1, <3>2
  <2>5. phase' = "idle" => exits' = {} /\ cursor' = 1
    BY <1>2, <1>5, <2>2
  <2>6. exits' \subseteq Pids
    BY <1>1, <1>5
  <2>7. phase # "idle" => \A q \in Pids \ exits' :
            start[q] \in Pids \ exits' /\ q < cursor => rows[q] = start[q]
    BY <1>2, <2>2
  <2> QED
    BY <1>1, <2>2, <2>3, <2>4, <2>5, <2>6, <2>7 DEF StartInv
<1>6. ASSUME NEW p \in Pids, Exit(p) PROVE Goal
  <2>1. /\ Alive(p) /\ table' = Without(p) /\ UNCHANGED <<phase, cursor, rows, start>>
        /\ exits' = IF phase = "ps" THEN exits \cup {p} ELSE exits
    BY <1>6 DEF Exit
  <2> HIDE DEF Goal
  <2> QED
    BY <1>5, <2>1
<1>7. ASSUME UNCHANGED <<table, cursor, rows, start, exits>>, phase \notin {"idle", "ps"} \/ phase' = phase,
             phase' \in {"idle", "ps"} => phase' = phase
      PROVE  Goal
  <2>1. table' = table /\ cursor' = cursor /\ rows' = rows /\ start' = start /\ exits' = exits
    BY <1>7
  <2>2. phase' = "idle" => phase = "idle"
    BY <1>7
  <2>3. phase' # "idle" => phase # "idle"
    BY <1>7
  <2>4. phase' = "ps" => phase = "ps"
    BY <1>7
  <2> QED
    BY <1>1, <1>2, <2>1, <2>2, <2>3, <2>4 DEF StartInv
<1>8. ASSUME Kill PROVE Goal
  <2>1. /\ Last(todo) \in Pids /\ phase = "KILL"
        /\ \/ Alive(Last(todo)) /\ table' = Without(Last(todo))
           \/ ~Alive(Last(todo)) /\ table' = table
        /\ UNCHANGED <<phase, cursor, rows, start, exits>>
    BY <1>8, KillIs
  <2>2. exits' = IF phase = "ps" THEN exits \cup {Last(todo)} ELSE exits
    BY <2>1
  <2>3. CASE Alive(Last(todo)) /\ table' = Without(Last(todo))
    <3> HIDE DEF Goal
    <3>1. UNCHANGED <<phase, cursor, rows, start>>
      BY <2>1
    <3> QED
      BY <1>5, <2>1, <2>2, <2>3, <3>1
  <2>4. CASE table' = table
    <3>1. UNCHANGED <<table, cursor, rows, start, exits>> /\ phase' = phase
      BY <2>1, <2>4
    <3> HIDE DEF Goal
    <3> QED
      BY <1>7, <3>1
  <2> QED
    BY <2>1, <2>3, <2>4
<1>9. ASSUME Begin PROVE Goal
  <2>1. /\ phase = "idle" /\ phase' = "ps" /\ start' = table /\ table' = table
        /\ cursor' = cursor /\ rows' = rows /\ exits' = exits
    BY <1>9 DEF Begin, host
  <2>2. exits = {} /\ cursor = 1
    BY <1>2, <2>1
  <2>3. \A p \in Pids : ~(p < 1)
    BY <1>0
  <2> QED
    BY <1>1, <2>1, <2>2, <2>3 DEF StartInv
<1>10. ASSUME ReadProcess PROVE Goal
  <2>1. /\ phase = "ps" /\ phase' = "ps" /\ cursor <= N /\ cursor' = cursor + 1
        /\ rows' = [rows EXCEPT ![cursor] = IF Alive(cursor) THEN table[cursor] ELSE Dead]
        /\ table' = table /\ start' = start /\ exits' = exits
    BY <1>10 DEF ReadProcess, host, history
  <2>2. cursor \in Pids
    BY <1>1, <2>1
  <2>3. /\ \A q \in Pids \ {cursor} : rows'[q] = rows[q]
        /\ table[cursor] \notin {Unborn, Dead} => rows'[cursor] = table[cursor]
    BY <1>1, <2>1, <2>2 DEF Alive
  <2>4. ASSUME NEW p \in Pids \ exits, start[p] \in Pids \ exits, p < cursor + 1 PROVE rows'[p] = start[p]
    <3>1. table[p] = start[p] /\ table[p] \in Pids
      BY <1>2, <2>1, <2>4
    <3>2. CASE p = cursor
      BY <1>0, <2>3, <3>1, <3>2
    <3>3. CASE p # cursor
      <4>1. p < cursor
        BY <1>0, <1>1, <2>4, <3>3
      <4> QED
        BY <1>2, <2>1, <2>3, <2>4, <3>3, <4>1
    <3> QED
      BY <3>2, <3>3
  <2> QED
    BY <1>1, <1>2, <2>1, <2>4 DEF StartInv
<1>11. ASSUME PsReturns PROVE Goal
  <2>1. /\ phase = "ps" /\ phase' = "walk" /\ table' = table /\ cursor' = cursor /\ rows' = rows
        /\ start' = start /\ exits' = exits
    BY <1>11 DEF PsReturns, host, history
  <2> QED
    BY <1>1, <1>2, <2>1 DEF StartInv
<1>12. ASSUME PsFails PROVE Goal
  <2>1. /\ phase' \in {"TERM", "failed"} /\ table' = table /\ cursor' = 1
        /\ start' = start /\ exits' = exits
    BY <1>12 DEF PsFails, host, history
  <2>2. \A p \in Pids : ~(p < 1)
    BY <1>0
  <2> QED
    BY <1>1, <1>2, <2>1, <2>2 DEF StartInv
<1>13. ASSUME Visit \/ WalkEnds \/ Term \/ NextSignal PROVE Goal
  <2>1. /\ UNCHANGED <<table, cursor, rows, start, exits>> /\ phase \notin {"idle", "ps"}
        /\ phase' \notin {"idle", "ps"}
    BY <1>13 DEF Visit, WalkEnds, Term, NextSignal, host, history
  <2> HIDE DEF Goal
  <2> QED
    BY <1>7, <2>1
<1>14. ASSUME UNCHANGED vars PROVE Goal
  <2>1. UNCHANGED <<table, cursor, rows, start, exits>> /\ phase' = phase
    BY <1>14 DEF vars
  <2> HIDE DEF Goal
  <2> QED
    BY <1>7, <2>1
<1> HIDE DEF Goal
<1>15. Goal
  BY <1>4, <1>6, <1>8, <1>9, <1>10, <1>11, <1>12, <1>13, <1>14 DEF Next, Tool
<1> QED
  BY <1>15 DEF Goal

\* Every step keeps the inductive invariant.
LEMMA StepIInv == IInv /\ [Next]_vars => IInv'
<1> SUFFICES ASSUME IInv, [Next]_vars PROVE IInv'
  OBVIOUS
<1>1. TypeOK /\ HostInv /\ RowsInv /\ FoundInv /\ WithinInv /\ ClosedInv /\ SignalInv /\ StartInv
  BY DEF IInv
<1>2. table' \in [Pids -> Parents] /\ tree' \subseteq Pids /\ HostInv'
  BY <1>1, HostStep
<1>3. rows' \in [Pids -> 0 .. N \cup {Dead}] /\ cursor' \in 1 .. N + 1 /\ RowsInv'
  BY <1>1, RowsStep
<1>4. /\ queue' \in Seq(Pids) /\ visited' \in Seq(Pids) /\ IsInjective(visited')
      /\ mode' \in Modes /\ phase' \in Phases /\ rss' \in 0 .. N
      /\ FoundInv'
  BY <1>1, FoundStep
<1>5. WithinInv' /\ ClosedInv'
  BY <1>1, WithinStep, ClosedStep
<1>6. todo' \in Seq(Pids) /\ SignalInv'
  BY <1>1, <1>4, SignalStep
<1>7. start' \in [Pids -> Parents] /\ exits' \subseteq Pids /\ StartInv'
  BY <1>1, StartStep
<1>8. TypeOK'
  BY <1>2, <1>3, <1>4, <1>6, <1>7 DEF TypeOK
<1> QED
  BY <1>2, <1>3, <1>4, <1>5, <1>6, <1>7, <1>8 DEF IInv

\* The inductive invariant: whatever the processes do while ps reads them.
THEOREM Invariance == Spec => []IInv
<1>1. Init => IInv
  BY InitIInv
<1>2. IInv /\ [Next]_vars => IInv'
  BY StepIInv
<1> QED
  BY <1>1, <1>2, PTL DEF Spec

-----------------------------------------------------------------------------
(* What follows from it. *)

\* Every variable has its type, and no process is visited twice.
THEOREM TypeCorrect == Spec => []TypeOK
<1>1. IInv => TypeOK
  BY DEF IInv
<1> QED
  BY <1>1, Invariance, PTL

\* Only the root and what was started below it is on the list or signalled, whoever
\* forks and exits while ps reads the table (listUnixProcessTree).
THEOREM SignalsOnlyTheTree == Spec => []OnlyTreeSignalled
<1>1. ASSUME IInv PROVE OnlyTreeSignalled
  <2>1. visited \in Seq(Pids) /\ todo \in Seq(Pids) /\ ToSet(visited) \subseteq tree
    BY <1>1 DEF IInv, TypeOK, WithinInv
  <2>2. Len(todo) <= Len(visited) /\ \A i \in 1 .. Len(todo) : todo[i] = visited[i]
    BY <1>1 DEF IInv, SignalInv
  <2>3. DOMAIN todo = 1 .. Len(todo) /\ DOMAIN visited = 1 .. Len(visited)
        /\ Len(todo) \in Nat /\ Len(visited) \in Nat
    BY <2>1, SetOfSeq
  <2>4. 1 .. Len(todo) \subseteq 1 .. Len(visited)
    BY <2>2, <2>3
  <2>5. ToSet(todo) \subseteq ToSet(visited)
    BY <2>2, <2>3, <2>4 DEF ToSet
  <2> QED
    BY <2>1, <2>5 DEF OnlyTreeSignalled
<1> QED
  BY <1>1, Invariance, PTL

\* A process is signalled only after those that the table has below it
\* (stopProcessTree).
THEOREM SignalsChildrenFirst == Spec => []ChildrenFirst
<1>1. ASSUME IInv PROVE ChildrenFirst
  <2> SUFFICES ASSUME NEW p \in ToSet(visited), NEW q \in ToSet(visited),
                      rows[p] = q, p \in ToSet(todo)
               PROVE  q \in ToSet(todo)
    BY DEF ChildrenFirst
  <2>1. visited \in Seq(Pids) /\ todo \in Seq(Pids)
    BY <1>1 DEF IInv, TypeOK
  <2>2. Len(todo) <= Len(visited) /\ \A i \in 1 .. Len(todo) : todo[i] = visited[i]
    BY <1>1 DEF IInv, SignalInv
  <2>3. /\ DOMAIN todo = 1 .. Len(todo) /\ DOMAIN visited = 1 .. Len(visited)
        /\ Len(todo) \in Nat /\ Len(visited) \in Nat
        /\ ToSet(visited) \subseteq Pids
    BY <2>1, SetOfSeq
  <2>4. PICK i \in 1 .. Len(todo) : p = todo[i]
    BY <2>3 DEF ToSet
  <2>5. i \in 1 .. Len(visited) /\ p = visited[i]
    BY <2>2, <2>3, <2>4
  <2>6. p # Root
    <3>1. rows[Root] \notin Pids
      BY <1>1, ProcessAssumption DEF IInv, RowsInv
    <3> QED
      BY <2>3, <3>1
  <2>7. PICK j \in 1 .. (i - 1) : visited[j] = q
    BY <1>1, <2>3, <2>5, <2>6 DEF IInv, FoundInv
  <2>8. j \in 1 .. Len(todo) /\ todo[j] = q
    BY <2>2, <2>3, <2>4, <2>7
  <2> QED
    BY <2>3, <2>8 DEF ToSet
<1> QED
  BY <1>1, Invariance, PTL

\* When stopProcessTree returns, all on the list are dead, and what was below the
\* root when it was called is dead or has lost an ancestor while ps was reading.
THEOREM LetsNoneEscape == Spec => []NoneEscapes
<1>1. ASSUME IInv PROVE NoneEscapes
  <2> SUFFICES ASSUME phase = "done", mode = "stop"
               PROVE  /\ \A p \in ToSet(visited) : ~Alive(p)
                      /\ cursor > N =>
                            \A p \in Below(start, Root) :
                               Alive(p) => \E a \in exits \ {p} : p \in Below(start, a)
    BY DEF NoneEscapes
  <2>0. Root \in Pids /\ N \in Nat
    BY ProcessAssumption
  <2>1. /\ visited \in Seq(Pids) /\ start \in [Pids -> Parents] /\ exits \subseteq Pids
        /\ cursor \in 1 .. N + 1
    BY <1>1 DEF IInv, TypeOK
  <2>2. \A p \in ToSet(visited) : table[p] = Dead
    <3>1. DOMAIN visited = 1 .. Len(visited)
      BY <2>1, SetOfSeq
    <3> QED
      BY <1>1, <3>1 DEF IInv, SignalInv, ToSet
  <2>3. ASSUME cursor > N, NEW p \in Below(start, Root), Alive(p),
               \A a \in exits \ {p} : p \notin Below(start, a)
        PROVE  FALSE
    <3>1. p \in Pids
      BY <2>0, <2>1, BelowIs
    <3>2. p \notin exits
      BY <1>1, <2>3 DEF IInv, StartInv, Alive
    \* Whoever is above p in the table of the start is on the list.
    <3> DEFINE V == {x \in Pids : p \in Below(start, x) => x \in ToSet(visited)}
    <3>3. Root \in V
      <4>1. Root \in ToSet(visited)
        BY <1>1 DEF IInv, ClosedInv
      <4> QED
        BY <2>0, <4>1
    <3>4. ASSUME NEW x \in Pids, start[x] \in V PROVE x \in V
      <4> SUFFICES ASSUME p \in Below(start, x) PROVE x \in ToSet(visited)
        OBVIOUS
      <4> DEFINE y == start[x]
      <4>1. y \in Pids /\ (p \in Below(start, y) => y \in ToSet(visited))
        BY <3>4
      <4>2. y \in Below(start, y) /\ Closed(start, Below(start, y))
        BY <2>1, <4>1, BelowIs
      <4>3. x \in Below(start, y)
        BY <4>2 DEF Closed
      <4>4. Below(start, x) \subseteq Below(start, y)
        <5> HIDE DEF y
        <5> QED
          BY <2>1, <4>2, <4>3, BelowIs
      <4>5. y \in ToSet(visited) /\ p \in Below(start, y)
        BY <4>1, <4>4
      <4>6. y \notin exits /\ x \notin exits
        BY <2>3, <3>2, <4>5
      <4>7. rows[x] = y
        <5>1. x < cursor
          BY <2>0, <2>1, <2>3
        <5> QED
          BY <1>1, <4>1, <4>6, <5>1 DEF IInv, StartInv
      <4>8. queue = << >> /\ x \in ToSet(visited) \cup ToSet(queue)
        BY <1>1, <2>3, <4>5, <4>7 DEF IInv, ClosedInv
      <4>9. ToSet(<< >>) = {}
        BY DEF ToSet
      <4> QED
        BY <4>8, <4>9
    <3>5. Closed(start, V)
      <4> HIDE DEF V
      <4> QED
        BY <3>4 DEF Closed
    <3>6. p \in V
      <4> HIDE DEF V
      <4> QED
        BY <2>0, <2>1, <2>3, <3>3, <3>5, BelowIs
    <3>7. p \in Below(start, p)
      BY <2>1, <3>1, BelowIs
    <3>8. p \in ToSet(visited)
      BY <3>6, <3>7
    <3> QED
      BY <2>2, <2>3, <3>8 DEF Alive
  <2> QED
    BY <2>2, <2>3 DEF Alive
<1> QED
  BY <1>1, Invariance, PTL

\* A sample counts every process below the root in the table once, and none
\* without a row of the root (aggregateProcessTree).
THEOREM SamplesTheTree == Spec => []SampleIsTheTree
<1>1. ASSUME IInv PROVE SampleIsTheTree
  <2> SUFFICES ASSUME phase = "done", mode = "sample"
               PROVE  LET counted == IF HasRow(Root) THEN Below(rows, Root) ELSE {}
                      IN  /\ rss = Cardinality(counted)
                          /\ ToSet(visited) = counted \cup {Root}
    BY DEF SampleIsTheTree
  <2>0. Root \in Pids /\ N \in Nat /\ Dead \notin 0 .. N
    BY ProcessAssumption
  <2>1. visited \in Seq(Pids) /\ rows \in [Pids -> 0 .. N \cup {Dead}] /\ rows \in [Pids -> Parents]
    BY <1>1 DEF IInv, TypeOK, Parents
  <2>2. /\ rss = Cardinality({p \in ToSet(visited) : HasRow(p)})
        /\ ~HasRow(Root) => ToSet(visited) \subseteq {Root}
        /\ Root \in ToSet(visited) /\ queue = << >>
        /\ ToSet(visited) \subseteq Below(rows, Root)
    BY <1>1 DEF IInv, FoundInv, ClosedInv, WithinInv
  <2>3. CASE ~HasRow(Root)
    <3>1. ToSet(visited) = {Root}
      BY <2>2, <2>3
    <3>2. {p \in ToSet(visited) : HasRow(p)} = {}
      BY <2>3, <3>1
    <3> QED
      BY <2>2, <2>3, <3>1, <3>2, FS_EmptySet
  <2>4. CASE HasRow(Root)
    <3>1. DOMAIN visited = 1 .. Len(visited) /\ ToSet(visited) \subseteq Pids /\ Len(visited) \in Nat
      BY <2>1, SetOfSeq
    <3>2. ASSUME NEW p \in ToSet(visited) PROVE HasRow(p)
      <4>1. PICK i \in 1 .. Len(visited) : p = visited[i]
        BY <3>1 DEF ToSet
      <4>2. CASE p # Root
        <5>1. PICK j \in 1 .. (i - 1) : visited[j] = rows[p]
          BY <1>1, <3>1, <4>1, <4>2 DEF IInv, FoundInv
        <5>2. j \in 1 .. Len(visited)
          BY <3>1, <5>1
        <5>3. rows[p] \in Pids
          BY <2>1, <5>1, <5>2, SetOfSeq
        <5> QED
          BY <2>0, <5>3 DEF HasRow
      <4> QED
        BY <2>4, <4>2
    <3>3. {p \in ToSet(visited) : HasRow(p)} = ToSet(visited)
      BY <3>2
    <3>4. cursor > N
      BY <1>1 DEF IInv, ClosedInv
    <3>5. ToSet(<< >>) = {}
      BY DEF ToSet
    <3>6. Closed(rows, ToSet(visited))
      BY <1>1, <2>2, <3>2, <3>4, <3>5 DEF IInv, ClosedInv, Closed
    <3>7. Below(rows, Root) \subseteq ToSet(visited)
      BY <2>0, <2>1, <2>2, <3>6, BelowIs
    <3> QED
      BY <2>2, <2>4, <3>3, <3>7
  <2> QED
    BY <2>3, <2>4
<1> QED
  BY <1>1, Invariance, PTL

-----------------------------------------------------------------------------
(* How long a call takes. *)

\* Rows whose parent has not been visited, and so is still to find them.
Unfound == {q \in Pids : rows[q] \in Pids \ ToSet(visited)}

StepsToGo ==
    CASE phase = "ps"   -> (N + 1 - cursor) + 3 * N + 5
      [] phase = "walk" -> Cardinality(Unfound) + Len(queue) + 2 * N + 3
      [] phase = "TERM" -> Len(todo) + Len(visited) + 2
      [] phase = "KILL" -> Len(todo) + 1
      [] OTHER          -> 0

\* What a step does to it.
Shorter ==
    /\ Begin => StepsToGo' <= 4 * N + 5
    /\ Tool => StepsToGo' < StepsToGo
    /\ ~Begin /\ ~Tool => StepsToGo' = StepsToGo

CallShrinks == [][Shorter]_vars

\* As many children are found as there are rows of them.
LEMMA InOrderLength ==
    ASSUME NEW S \in SUBSET Pids
    PROVE  InOrder(S) \in Seq(Pids) /\ Len(InOrder(S)) = Cardinality(S)
<1>1. InOrder(S) \in [1 .. Cardinality(S) -> S]
  BY InOrderExists DEF InOrder
<1>2. Cardinality(S) \in Nat
  BY IdsFinite
<1>3. InOrder(S) \in Seq(Pids)
  BY InOrderIs
<1>4. PICK s : s = InOrder(S)
  OBVIOUS
<1>5. s \in Seq(Pids) /\ DOMAIN s = 1 .. Cardinality(S)
  BY <1>1, <1>3, <1>4
<1>6. Len(s) = Cardinality(S)
  BY <1>2, <1>5
<1> QED
  BY <1>3, <1>4, <1>6

\* A list without repetitions is not longer than there are processes.
LEMMA ListIsShort ==
    ASSUME NEW s \in Seq(Pids), IsInjective(s)
    PROVE  Len(s) \in 0 .. N
<1>1. Len(s) \in Nat /\ DOMAIN s = 1 .. Len(s)
      /\ \A i \in 1 .. Len(s) : s[i] \in Pids
  BY SetOfSeq
<1>2. \A i, j \in 1 .. Len(s) : s[i] = s[j] => i = j
  BY <1>1 DEF IsInjective
<1>3. PICK f : f = [i \in 1 .. Len(s) |-> s[i]]
  OBVIOUS
<1>4. f \in Injection(1 .. Len(s), Pids)
  BY <1>1, <1>2, <1>3 DEF Injection, IsInjective
<1>5. IsFiniteSet(Pids) /\ Cardinality(Pids) \in 0 .. N
  BY IdsFinite
<1>6. Cardinality(1 .. Len(s)) <= Cardinality(Pids)
  BY <1>4, <1>5, FS_Injection
<1>7. Cardinality(1 .. Len(s)) = Len(s)
  <2>1. 1 \in Int /\ Len(s) \in Int
    BY <1>1
  <2>2. Cardinality(1 .. Len(s)) = IF 1 > Len(s) THEN 0 ELSE Len(s) - 1 + 1
    BY <2>1, FS_Interval
  <2> QED
    BY <1>1, <2>2
<1>8. N \in Nat
  BY ProcessAssumption
<1> QED
  BY <1>1, <1>5, <1>6, <1>7, <1>8

LEMMA SizesAre ==
    ASSUME IInv
    PROVE  /\ N \in Nat /\ cursor \in 1 .. N + 1
           /\ Len(queue) \in Nat /\ Len(todo) \in Nat /\ Len(visited) \in 0 .. N
           /\ Cardinality(Unfound) \in 0 .. N /\ IsFiniteSet(Unfound)
           /\ StepsToGo \in Nat
<1>1. N \in Nat /\ cursor \in 1 .. N + 1 /\ Len(queue) \in Nat /\ Len(todo) \in Nat
  BY ProcessAssumption, SetOfSeq DEF IInv, TypeOK
<1>2. Len(visited) \in 0 .. N
  BY ListIsShort DEF IInv, TypeOK
<1>3. Cardinality(Unfound) \in 0 .. N /\ IsFiniteSet(Unfound)
  BY IdsFinite DEF Unfound
<1>4. phase \in Phases
  BY DEF IInv, TypeOK
<1>5. StepsToGo \in Nat
  <2>1. CASE phase = "ps"
    <3>1. StepsToGo = (N + 1 - cursor) + 3 * N + 5
      BY <2>1 DEF StepsToGo
    <3> QED
      BY <1>1, <3>1
  <2>2. CASE phase = "walk"
    <3>1. StepsToGo = Cardinality(Unfound) + Len(queue) + 2 * N + 3
      BY <2>2 DEF StepsToGo
    <3> QED
      BY <1>1, <1>3, <3>1
  <2>3. CASE phase = "TERM"
    <3>1. StepsToGo = Len(todo) + Len(visited) + 2
      BY <2>3 DEF StepsToGo
    <3> QED
      BY <1>1, <1>2, <3>1
  <2>4. CASE phase = "KILL"
    <3>1. StepsToGo = Len(todo) + 1
      BY <2>4 DEF StepsToGo
    <3> QED
      BY <1>1, <3>1
  <2>5. CASE phase \in {"idle", "failed", "done"}
    BY <2>5 DEF StepsToGo
  <2> QED
    BY <1>4, <2>1, <2>2, <2>3, <2>4, <2>5 DEF Phases
<1> QED
  BY <1>1, <1>2, <1>3, <1>5

\* A visit takes one id from the queue and puts there only what it finds.
LEMMA VisitShrinks ==
    ASSUME IInv, IInv', Visit
    PROVE  StepsToGo' < StepsToGo
<1>1. queue \in Seq(Pids) /\ visited \in Seq(Pids) /\ queue # << >> /\ phase = "walk" /\ phase' = phase
      /\ rows' = rows /\ rows \in [Pids -> 0 .. N \cup {Dead}]
  BY DEF IInv, TypeOK, Visit
<1>2. PICK p \in Pids, rest \in Seq(Pids) : p = Head(queue) /\ rest = Tail(queue) /\ Len(rest) = Len(queue) - 1
  <2>1. Head(queue) \in Pids /\ Tail(queue) \in Seq(Pids)
    BY <1>1, SetOfTail
  <2>2. Len(Tail(queue)) = Len(queue) - 1
    BY <1>1
  <2> QED
    BY <2>1, <2>2
<1>3. /\ N \in Nat /\ Len(queue) \in Nat /\ Cardinality(Unfound) \in Nat /\ IsFiniteSet(Unfound)
      /\ Len(queue') \in Nat /\ Cardinality(Unfound') \in Nat /\ IsFiniteSet(Unfound')
  <2>1. Unfound' \in SUBSET Pids
    BY DEF Unfound
  <2> QED
    BY SizesAre, <2>1, IdsFinite DEF IInv, TypeOK
<1>4. Cardinality(Unfound') + Len(queue') < Cardinality(Unfound) + Len(queue)
  <2>1. CASE p \in ToSet(visited)
    <3>1. queue' = rest /\ visited' = visited
      BY <1>2, <2>1 DEF Visit
    <3>2. Unfound' = Unfound
      BY <1>1, <3>1 DEF Unfound
    <3> QED
      BY <1>2, <1>3, <3>1, <3>2
  <2>2. CASE p \notin ToSet(visited)
    <3>1. visited' = Append(visited, p) /\ queue' = rest \o Found(p)
      BY <1>2, <2>2 DEF Visit
    <3> DEFINE C == {q \in Pids : rows[q] = p}
    <3>2. C \in SUBSET Pids /\ IsFiniteSet(C) /\ Cardinality(C) \in Nat
      BY IdsFinite
    <3>3. ToSet(visited') = ToSet(visited) \cup {p}
      BY <1>1, <1>2, <3>1, SetOfAppend
    <3>4. Unfound = Unfound' \cup C /\ Unfound' \cap C = {}
      <4>1. Unfound' = {q \in Pids : rows[q] \in Pids \ (ToSet(visited) \cup {p})}
        BY <1>1, <3>3 DEF Unfound
      <4> QED
        BY <2>2, <4>1 DEF Unfound
    <3> HIDE DEF C
    <3>5. Cardinality(Unfound) = Cardinality(Unfound') + Cardinality(C)
      <4>1. PICK U, W : U = Unfound' /\ W = Unfound
        OBVIOUS
      <4>2. IsFiniteSet(U) /\ Cardinality(U) \in Nat /\ W = U \cup C /\ U \cap C = {}
        BY <1>3, <3>4, <4>1
      <4>3. Cardinality(U \cup C) = Cardinality(U) + Cardinality(C) - Cardinality(U \cap C)
        BY <3>2, <4>2, FS_Union
      <4>4. Cardinality({}) = 0
        BY FS_EmptySet
      <4>5. Cardinality(W) = Cardinality(U) + Cardinality(C) - 0
        BY <4>2, <4>3, <4>4
      <4>6. Cardinality(W) = Cardinality(U) + Cardinality(C)
        BY <3>2, <4>2, <4>5
      <4> QED
        BY <4>1, <4>6
    <3>6. PICK found : found = Found(p)
      OBVIOUS
    <3>7. found \in Seq(Pids) /\ Len(found) \in Nat /\ Len(found) <= Cardinality(C)
      <4>1. CASE mode = "sample" /\ ~HasRow(p)
        <5>1. found = << >>
          BY <3>6, <4>1 DEF Found
        <5>2. << >> \in Seq(Pids) /\ Len(<< >>) = 0
          OBVIOUS
        <5> QED
          BY <3>2, <5>1, <5>2
      <4>2. CASE ~(mode = "sample" /\ ~HasRow(p))
        <5>1. found = InOrder(C)
          BY <3>6, <4>2 DEF Found, ChildrenOf, C
        <5> QED
          BY <3>2, <5>1, InOrderLength
      <4> QED
        BY <4>1, <4>2
    <3>8. Len(queue') = Len(rest) + Len(found)
      BY <3>1, <3>6, <3>7
    <3>9. PICK u \in Nat, v \in Nat : u = Cardinality(Unfound) /\ v = Cardinality(Unfound')
      BY <1>3
    <3> QED
      BY <1>2, <1>3, <3>2, <3>5, <3>7, <3>8, <3>9
  <2> QED
    BY <2>1, <2>2
<1>5. /\ StepsToGo = Cardinality(Unfound) + Len(queue) + 2 * N + 3
      /\ StepsToGo' = Cardinality(Unfound') + Len(queue') + 2 * N + 3
  BY <1>1 DEF StepsToGo
<1>6. \A a \in Nat, b \in Nat, c \in Nat, d \in Nat : a + b < c + d => a + b + 2 * N + 3 < c + d + 2 * N + 3
  BY <1>3
<1> QED
  BY <1>3, <1>4, <1>5, <1>6

\* The steps before the walk, at its end and behind it.
LEMMA SignalsShrink ==
    ASSUME IInv, IInv', ReadProcess \/ PsReturns \/ PsFails \/ WalkEnds \/ Term \/ Kill \/ NextSignal
    PROVE  StepsToGo' < StepsToGo
<1>1. /\ N \in Nat /\ cursor \in 1 .. N + 1
      /\ Len(queue) \in Nat /\ Len(todo) \in Nat /\ Len(visited) \in 0 .. N /\ Cardinality(Unfound) \in 0 .. N
  BY SizesAre
<1>2. Len(visited') \in 0 .. N
  BY ListIsShort DEF IInv, TypeOK
<1>3. CASE ReadProcess
  <2>1. phase = "ps" /\ phase' = "ps" /\ cursor' = cursor + 1
    BY <1>3 DEF ReadProcess
  <2>2. StepsToGo = (N + 1 - cursor) + 3 * N + 5 /\ StepsToGo' = (N + 1 - (cursor + 1)) + 3 * N + 5
    BY <2>1 DEF StepsToGo
  <2> QED
    BY <1>1, <2>2
<1>4. CASE PsReturns
  <2>1. phase = "ps" /\ phase' = "walk" /\ queue' = <<Root>> /\ Unfound' = Unfound
    BY <1>4 DEF PsReturns, Unfound
  <2>2. StepsToGo = (N + 1 - cursor) + 3 * N + 5
    BY <2>1 DEF StepsToGo
  <2>3. StepsToGo' = Cardinality(Unfound) + 1 + 2 * N + 3
    <3>1. Len(<<Root>>) = 1
      OBVIOUS
    <3> QED
      BY <2>1, <3>1 DEF StepsToGo
  <2> QED
    BY <1>1, <2>2, <2>3
<1>5. CASE PsFails
  <2>1. phase = "ps" /\ ((phase' = "TERM" /\ visited' = <<Root>> /\ todo' = <<Root>>) \/ phase' = "failed")
    BY <1>5 DEF PsFails
  <2>2. StepsToGo = (N + 1 - cursor) + 3 * N + 5
    BY <2>1 DEF StepsToGo
  <2>3. StepsToGo' = 4 \/ StepsToGo' = 0
    <3>1. Len(<<Root>>) = 1 /\ 1 + 1 + 2 = 4
      OBVIOUS
    <3>2. CASE phase' = "TERM"
      <4>1. StepsToGo' = Len(todo') + Len(visited') + 2
        BY <3>2 DEF StepsToGo
      <4>2. todo' = <<Root>> /\ visited' = <<Root>>
        BY <2>1, <3>2
      <4> QED
        BY <3>1, <4>1, <4>2
    <3>3. CASE phase' = "failed"
      BY <3>3 DEF StepsToGo
    <3> QED
      BY <2>1, <3>2, <3>3
  <2> QED
    BY <1>1, <2>2, <2>3
<1>6. CASE WalkEnds
  <2>1. phase = "walk" /\ ((phase' = "TERM" /\ visited' = visited /\ todo' = visited) \/ phase' = "done")
    BY <1>6 DEF WalkEnds
  <2>2. StepsToGo = Cardinality(Unfound) + Len(queue) + 2 * N + 3
    BY <2>1 DEF StepsToGo
  <2>3. StepsToGo' = Len(visited) + Len(visited) + 2 \/ StepsToGo' = 0
    BY <2>1 DEF StepsToGo
  <2> QED
    BY <1>1, <2>2, <2>3
<1>7. CASE Term \/ Kill
  <2>1. /\ phase \in {"TERM", "KILL"} /\ phase' = phase /\ visited' = visited /\ todo # << >> /\ todo' = Front(todo)
    BY <1>7 DEF Term, Kill
  <2>2. Len(todo') = Len(todo) - 1
    BY <2>1, FrontAndLast DEF IInv, TypeOK
  <2>3. CASE phase = "TERM"
    <3>1. StepsToGo = Len(todo) + Len(visited) + 2 /\ StepsToGo' = Len(todo') + Len(visited) + 2
      BY <2>1, <2>3 DEF StepsToGo
    <3> QED
      BY <1>1, <2>2, <3>1
  <2>4. CASE phase = "KILL"
    <3>1. StepsToGo = Len(todo) + 1 /\ StepsToGo' = Len(todo') + 1
      BY <2>1, <2>4 DEF StepsToGo
    <3> QED
      BY <1>1, <2>2, <3>1
  <2> QED
    BY <2>1, <2>3, <2>4
<1>8. CASE NextSignal
  <2>1. /\ todo = << >> /\ (\/ phase = "TERM" /\ phase' = "KILL" /\ todo' = visited
                            \/ phase = "KILL" /\ phase' = "done")
    BY <1>8 DEF NextSignal
  <2>2. Len(<< >>) = 0
    OBVIOUS
  <2>3. CASE phase = "TERM"
    <3>1. StepsToGo = Len(todo) + Len(visited) + 2 /\ StepsToGo' = Len(visited) + 1
      BY <2>1, <2>3 DEF StepsToGo
    <3> QED
      BY <1>1, <3>1
  <2>4. CASE phase = "KILL"
    <3>1. StepsToGo = Len(todo) + 1 /\ StepsToGo' = 0
      BY <2>1, <2>4 DEF StepsToGo
    <3> QED
      BY <1>1, <3>1
  <2> QED
    BY <2>1, <2>3, <2>4
<1> QED
  BY <1>3, <1>4, <1>5, <1>6, <1>7, <1>8

\* A sample or a stop takes at most four steps for each process and five more,
\* whatever the processes do meanwhile: the walk takes each row once, and the list
\* that is signalled does not grow (listUnixProcessTree, aggregateProcessTree,
\* stopProcessTree).
THEOREM CallIsBounded == Spec => [](StepsToGo \in Nat) /\ CallShrinks
<1>1. IInv => StepsToGo \in Nat
  BY SizesAre
<1>2. IInv /\ IInv' /\ [Next]_vars => [Shorter]_vars
  <2> SUFFICES ASSUME IInv, IInv', Next PROVE Shorter
    OBVIOUS
  <2>1. ASSUME Begin PROVE StepsToGo' <= 4 * N + 5
    <3>1. phase' = "ps" /\ cursor' = cursor
      BY <2>1 DEF Begin
    <3>2. StepsToGo' = (N + 1 - cursor) + 3 * N + 5
      BY <3>1 DEF StepsToGo
    <3> QED
      BY <3>2, SizesAre
  <2>2. ASSUME Tool PROVE StepsToGo' < StepsToGo
    BY <2>2, VisitShrinks, SignalsShrink DEF Tool
  <2>3. ASSUME ~Begin, ~Tool PROVE StepsToGo' = StepsToGo
    <3>1. UNCHANGED <<phase, cursor, rows, queue, visited, todo>>
      BY <2>3 DEF Next, Fork, Exit
    <3> QED
      BY <3>1 DEF StepsToGo, Unfound
  <2> QED
    BY <2>1, <2>2, <2>3 DEF Shorter
<1> QED
  BY <1>1, <1>2, Invariance, PTL DEF Spec, CallShrinks
====================
