------------------------ MODULE RouterDispatch_proofs -----------------------
(***************************************************************************)
(* Theorems about RouterDispatch, for any routers, tables and requests and *)
(* any number of calls a middleware makes: what the context has while a    *)
(* request goes through nested routers, that it has nothing of them        *)
(* afterwards, and that whoever answers a request is the one that the      *)
(* resolution has next.                                                    *)
(***************************************************************************)
EXTENDS RouterDispatch, WellFoundedInduction, FiniteSetTheorems, SequenceTheorems, TLAPS

-----------------------------------------------------------------------------
(* Facts about the data. *)

\* Induction on the natural numbers, in terms of sets.
LEMMA Induction ==
    ASSUME NEW S, 0 \in S, \A n \in Nat : n \in S => n + 1 \in S
    PROVE  Nat \subseteq S
<1> DEFINE R == {ss \in Nat \X Nat : ss[1] < ss[2]}
<1>1. IsWellFoundedOn(R, Nat)
  BY NatLessThanWellFounded DEF OpToRel
<1> DEFINE T == Nat \ S
<1>2. ASSUME T # {} PROVE FALSE
  <2> HIDE DEF R
  <2>1. T \subseteq Nat
    OBVIOUS
  <2>2. PICK x \in T : \A y \in T : ~(<<y, x>> \in R)
    BY <1>1, <1>2, <2>1, WFMin
  <2>3. x # 0 /\ x \in Nat
    OBVIOUS
  <2>4. x - 1 \in Nat /\ x = (x - 1) + 1
    BY <2>3
  <2>5. x - 1 \notin S
    BY <2>4
  <2>6. <<x - 1, x>> \in R
    BY <2>3, <2>4 DEF R
  <2> QED
    BY <2>2, <2>4, <2>5, <2>6
<1> QED
  BY <1>2

\* A function on 1 .. n is a sequence.
LEMMA FunctionIsSeq ==
    ASSUME NEW T, NEW n \in Nat, NEW s \in [1 .. n -> T]
    PROVE  s \in Seq(T)
OBVIOUS

\* The last element of an interval, and of a set of numbers with a last one.
LEMMA MaxIsLast ==
    ASSUME NEW n \in Nat, NEW S \in SUBSET (1 .. n), n \in S
    PROVE  Max(S) = n
<1>1. \A x \in S : x \in Nat /\ x <= n
  OBVIOUS
<1>2. n \in S /\ \A y \in S : n >= y
  BY <1>1
<1>3. Max(S) \in S /\ \A y \in S : Max(S) >= y
  BY <1>2 DEF Max
<1>4. Max(S) >= n /\ Max(S) <= n /\ Max(S) \in Nat
  BY <1>1, <1>3
<1> QED
  BY <1>4

\* The last index of an interval is its maximum.
LEMMA MaxOfInterval ==
    ASSUME NEW m \in Nat
    PROVE  Max(1 .. m + 1) = m + 1
<1>1. m + 1 \in Nat /\ 1 .. m + 1 \in SUBSET (1 .. m + 1) /\ m + 1 \in 1 .. m + 1
  OBVIOUS
<1> QED
  BY <1>1, MaxIsLast

\* A set of numbers below a bound has a greatest one.
LEMMA GreatestOf ==
    ASSUME NEW k \in Nat, NEW S \in SUBSET (0 .. k), S # {}
    PROVE  \E n \in S : \A i \in S : i <= n
<1> DEFINE I == {j \in Nat : \A R \in SUBSET (0 .. j) : R # {} => \E n \in R : \A i \in R : i <= n}
<1>1. 0 \in I
  <2>1. 0 .. 0 = {0}
    OBVIOUS
  <2>2. \A R \in SUBSET {0} : R # {} => R = {0}
    OBVIOUS
  <2> QED
    BY <2>1, <2>2
<1>2. ASSUME NEW j \in Nat, j \in I PROVE j + 1 \in I
  <2> SUFFICES ASSUME NEW R \in SUBSET (0 .. j + 1), R # {}
               PROVE  \E n \in R : \A i \in R : i <= n
    BY <1>2
  <2>1. CASE j + 1 \in R
    <3>1. \A i \in R : i <= j + 1
      OBVIOUS
    <3> QED
      BY <2>1, <3>1
  <2>2. CASE j + 1 \notin R
    <3>1. R \in SUBSET (0 .. j)
      BY <2>2
    <3> QED
      BY <1>2, <3>1
  <2> QED
    BY <2>1, <2>2
<1>3. Nat \subseteq I
  <2> HIDE DEF I
  <2> QED
    BY <1>1, <1>2, Induction
<1> QED
  BY <1>3

\* How many literal segments a pattern has.
LEMMA LiteralCountIs ==
    ASSUME NEW T, NEW pattern \in Seq(T)
    PROVE  LiteralCount(pattern) \in Nat
<1> DEFINE S == {i \in DOMAIN pattern : pattern[i] \notin Params}
<1>1. Len(pattern) \in Nat /\ S \subseteq 1 .. Len(pattern)
  OBVIOUS
<1>2. IsFiniteSet(1 .. Len(pattern))
  BY <1>1, FS_Interval
<1>3. IsFiniteSet(S)
  <2> HIDE DEF S
  <2> QED
    BY <1>1, <1>2, FS_Subset
<1>4. Cardinality(S) \in Nat
  <2> HIDE DEF S
  <2> QED
    BY <1>3, FS_CardinalityType
<1> QED
  BY <1>4 DEF LiteralCount

\* b is the first of those with most literals among the first m patterns that
\* match, or 0 if none of them matches.
IsBest(patterns, p, m, b) ==
    IF b = 0
    THEN \A j \in 1 .. m : ~MatchesPattern(patterns[j], p)
    ELSE /\ b \in 1 .. m /\ MatchesPattern(patterns[b], p)
         /\ \A j \in 1 .. m : MatchesPattern(patterns[j], p) =>
               \/ LiteralCount(patterns[b]) > LiteralCount(patterns[j])
               \/ LiteralCount(patterns[b]) = LiteralCount(patterns[j]) /\ b <= j

\* The loop of route_tail_for ends with it.
LEMMA BestDynamicIs ==
    ASSUME NEW patterns, NEW n \in Nat, DOMAIN patterns = 1 .. n, NEW p,
           \A i \in 1 .. n : LiteralCount(patterns[i]) \in Nat
    PROVE  IsBest(patterns, p, n, BestDynamic(patterns, p))
<1> DEFINE op(best, i) ==
        IF /\ MatchesPattern(patterns[i], p)
           /\ best # 0 => LiteralCount(patterns[i]) > LiteralCount(patterns[best])
        THEN i ELSE best
<1> DEFINE indices == [i \in 1 .. n |-> i]
<1> DEFINE Folds(f, S) == f = [s \in SUBSET S |->
              IF s = {} THEN 0 ELSE op(f[s \ {Max(s)}], indices[Max(s)])]
\* Whatever function solves the recursion has only such values.
<1>1. ASSUME NEW f, Folds(f, 1 .. n) PROVE IsBest(patterns, p, n, f[1 .. n])
  <2>1. \A s \in SUBSET (1 .. n) : f[s] =
              IF s = {} THEN 0 ELSE op(f[s \ {Max(s)}], indices[Max(s)])
    BY <1>1
  <2> DEFINE I == {m \in Nat : m <= n => IsBest(patterns, p, m, f[1 .. m])}
  <2>2. 0 \in I
    <3>1. 1 .. 0 = {}
      OBVIOUS
    <3>2. f[1 .. 0] = 0
      BY <2>1, <3>1
    <3> QED
      BY <3>2 DEF IsBest
  <2>3. ASSUME NEW m \in Nat, m \in I PROVE m + 1 \in I
    <3> SUFFICES ASSUME m + 1 <= n PROVE IsBest(patterns, p, m + 1, f[1 .. m + 1])
      OBVIOUS
    <3>0. m + 1 \in 1 .. n /\ m + 1 \in 1 .. m + 1
      OBVIOUS
    <3>a. \A x \in 1 .. m + 1 : x \in 1 .. n
      BY <3>0
    <3>1. 1 .. m + 1 \in SUBSET (1 .. n) /\ 1 .. m + 1 # {} /\ m + 1 \in 1 .. n
      BY <3>0, <3>a
    <3>2. Max(1 .. m + 1) = m + 1
      BY MaxOfInterval
    <3>3. (1 .. m + 1) \ {m + 1} = 1 .. m
      OBVIOUS
    <3>4. indices[m + 1] = m + 1
      BY <3>1
    <3>5. f[1 .. m + 1] = op(f[1 .. m], m + 1)
      <4> HIDE DEF op, indices
      <4> QED
        BY <2>1, <3>1, <3>2, <3>3, <3>4
    <3>6. IsBest(patterns, p, m, f[1 .. m])
      BY <2>3
    <3> HIDE DEF indices
    <3> DEFINE b == f[1 .. m]
    <3>7. PICK c : c = f[1 .. m + 1]
      OBVIOUS
    <3>8. c = op(b, m + 1)
      BY <3>5, <3>7
    <3>9. IsBest(patterns, p, m, b) /\ (b = 0 \/ b \in 1 .. m)
      BY <3>6 DEF IsBest
    <3> HIDE DEF b, I
    <3>10. IsBest(patterns, p, m + 1, c)
      <4>1. \A j \in 1 .. m + 1 : j \in 1 .. m \/ j = m + 1
        OBVIOUS
      <4>2. \A j \in 1 .. m + 1 : LiteralCount(patterns[j]) \in Nat
        BY <3>a
      <4>3. CASE b = 0
        <5>1. c = IF MatchesPattern(patterns[m + 1], p) THEN m + 1 ELSE 0
          BY <3>8, <4>3
        <5>2. \A j \in 1 .. m : ~MatchesPattern(patterns[j], p)
          BY <3>9, <4>3 DEF IsBest
        <5> QED
          BY <3>0, <4>1, <4>2, <5>1, <5>2 DEF IsBest
      <4>4. CASE b # 0
        <5>1. /\ b \in 1 .. m /\ b \in 1 .. m + 1 /\ MatchesPattern(patterns[b], p)
              /\ \A j \in 1 .. m : MatchesPattern(patterns[j], p) =>
                    \/ LiteralCount(patterns[b]) > LiteralCount(patterns[j])
                    \/ LiteralCount(patterns[b]) = LiteralCount(patterns[j]) /\ b <= j
          BY <3>9, <4>4 DEF IsBest
        <5>2. CASE MatchesPattern(patterns[m + 1], p) /\ LiteralCount(patterns[m + 1]) > LiteralCount(patterns[b])
          <6>1. c = m + 1 /\ c # 0
            <7>1. c = m + 1
              <8> HIDE DEF indices
              <8> QED
                BY <3>8, <5>2, Zenon
            <7> QED
              BY <7>1
          <6>2. ASSUME NEW j \in 1 .. m, MatchesPattern(patterns[j], p)
                PROVE  LiteralCount(patterns[m + 1]) > LiteralCount(patterns[j])
            <7>1. /\ LiteralCount(patterns[b]) \in Nat /\ LiteralCount(patterns[j]) \in Nat
                  /\ LiteralCount(patterns[m + 1]) \in Nat
              BY <3>0, <4>2, <5>1
            <7>2. LiteralCount(patterns[b]) >= LiteralCount(patterns[j])
              BY <5>1, <6>2, <7>1
            <7> QED
              BY <5>2, <7>1, <7>2
          <6> QED
            BY <3>0, <4>1, <5>2, <6>1, <6>2 DEF IsBest
        <5>3. CASE ~(MatchesPattern(patterns[m + 1], p) /\ LiteralCount(patterns[m + 1]) > LiteralCount(patterns[b]))
          <6>1. c = b
            BY <3>8, <4>4, <5>3
          <6>2. MatchesPattern(patterns[m + 1], p) =>
                   \/ LiteralCount(patterns[b]) > LiteralCount(patterns[m + 1])
                   \/ LiteralCount(patterns[b]) = LiteralCount(patterns[m + 1]) /\ b <= m + 1
            <7>1. LiteralCount(patterns[b]) \in Nat /\ LiteralCount(patterns[m + 1]) \in Nat
              BY <3>0, <4>2, <5>1
            <7> QED
              BY <5>1, <5>3, <7>1
          <6> QED
            BY <4>1, <4>4, <5>1, <6>1, <6>2 DEF IsBest
        <5> QED
          BY <5>2, <5>3
      <4> QED
        BY <4>3, <4>4
    <3> QED
      BY <3>7, <3>10
  <2>4. Nat \subseteq I
    <3> HIDE DEF I
    <3> QED
      BY <2>2, <2>3, Induction
  <2> QED
    BY <2>4
\* And there is one.
<1>2. \E f : Folds(f, 1 .. n)
  <2> DEFINE I == {m \in Nat : m <= n => \E f : Folds(f, 1 .. m)}
  <2>1. 0 \in I
    <3> DEFINE f == [s \in SUBSET {} |-> 0]
    <3>1. 1 .. 0 = {}
      OBVIOUS
    <3>2. \A s \in SUBSET {} : s = {}
      OBVIOUS
    <3>3. f = [s \in SUBSET {} |-> IF s = {} THEN 0 ELSE op(f[s \ {Max(s)}], indices[Max(s)])]
      BY <3>2
    <3>4. Folds(f, 1 .. 0)
      <4> HIDE DEF op, indices
      <4> QED
        BY <3>1, <3>3
    <3> QED
      BY <3>4
  <2>2. ASSUME NEW m \in Nat, m \in I PROVE m + 1 \in I
    <3> HIDE DEF Folds
    <3> SUFFICES ASSUME m + 1 <= n PROVE \E f : Folds(f, 1 .. m + 1)
      OBVIOUS
    <3>0. m <= n
      OBVIOUS
    <3>1. PICK g : Folds(g, 1 .. m)
      BY <2>2, <3>0
    <3> USE DEF Folds
    <3> DEFINE f == [s \in SUBSET (1 .. m + 1) |->
                       IF m + 1 \in s THEN op(g[s \ {m + 1}], indices[m + 1]) ELSE g[s]]
    <3>2. ASSUME NEW s \in SUBSET (1 .. m + 1)
          PROVE  f[s] = IF s = {} THEN 0 ELSE op(f[s \ {Max(s)}], indices[Max(s)])
      <4> HIDE DEF op, indices
      <4>1. CASE m + 1 \in s
        <5>1. Max(s) = m + 1
          BY <4>1, MaxIsLast
        <5>2. s \ {m + 1} \in SUBSET (1 .. m + 1) /\ m + 1 \notin s \ {m + 1}
          OBVIOUS
        <5>3. f[s] = op(g[s \ {m + 1}], indices[m + 1]) /\ f[s \ {m + 1}] = g[s \ {m + 1}]
          BY <4>1, <5>2
        <5> HIDE DEF f
        <5> QED
          BY <4>1, <5>1, <5>3
      <4>2. CASE m + 1 \notin s
        <5>1. s \in SUBSET (1 .. m)
          BY <4>2
        <5>2. s \ {Max(s)} \in SUBSET (1 .. m + 1) /\ m + 1 \notin s \ {Max(s)}
          BY <4>2
        <5>3. f[s] = g[s] /\ f[s \ {Max(s)}] = g[s \ {Max(s)}]
          BY <4>2, <5>2
        <5>4. g[s] = IF s = {} THEN 0 ELSE op(g[s \ {Max(s)}], indices[Max(s)])
          BY <3>1, <5>1
        <5> HIDE DEF f
        <5> QED
          BY <5>3, <5>4
      <4> QED
        BY <4>1, <4>2
    <3>3. Folds(f, 1 .. m + 1)
      <4> HIDE DEF op, indices
      <4>1. f = [s \in SUBSET (1 .. m + 1) |-> f[s]]
        OBVIOUS
      <4> HIDE DEF f
      <4>2. [s \in SUBSET (1 .. m + 1) |-> IF s = {} THEN 0 ELSE op(f[s \ {Max(s)}], indices[Max(s)])]
              = [s \in SUBSET (1 .. m + 1) |-> f[s]]
        BY <3>2
      <4> QED
        BY <4>1, <4>2
    <3> HIDE DEF f, Folds
    <3> QED
      BY <3>3
  <2>3. Nat \subseteq I
    <3> HIDE DEF I
    <3> QED
      BY <2>1, <2>2, Induction
  <2>4. n \in I
    BY <2>3
  <2> HIDE DEF Folds
  <2> QED
    BY <2>4
<1> DEFINE iter == CHOOSE f : Folds(f, 1 .. n)
<1>3. Folds(iter, 1 .. n)
  <2> HIDE DEF Folds
  <2> QED
    BY <1>2
<1>4. BestDynamic(patterns, p) = iter[1 .. n]
  BY DEF BestDynamic, FoldLeftDomain, FoldLeft, MapThenFoldSet
<1>5. IsBest(patterns, p, n, BestDynamic(patterns, p))
  <2> HIDE DEF iter, Folds
  <2> QED
    BY <1>1, <1>3, <1>4
<1> QED
  BY <1>5

\* One of the members is appended.
LEMMA ToSetAppend ==
    ASSUME NEW T, NEW s \in Seq(T), NEW x \in T
    PROVE  ToSet(Append(s, x)) = ToSet(s) \cup {x}
<1>1. /\ Len(s) \in Nat /\ DOMAIN s = 1 .. Len(s)
      /\ DOMAIN Append(s, x) = 1 .. Len(s) + 1
      /\ \A i \in 1 .. Len(s) : Append(s, x)[i] = s[i] /\ i \in 1 .. Len(s) + 1
      /\ Append(s, x)[Len(s) + 1] = x /\ Len(s) + 1 \in 1 .. Len(s) + 1
  OBVIOUS
<1>2. \A i \in 1 .. Len(s) + 1 : i \in 1 .. Len(s) \/ i = Len(s) + 1
  BY <1>1
<1> QED
  BY <1>1, <1>2 DEF ToSet

\* allow_header_value lists the methods of a bucket, and all of them.
LEMMA AllowHeaderIs ==
    ASSUME NEW bucket, bucket.methods \subseteq ToSet(MethodOrder)
    PROVE  ToSet(AllowHeaderValue(bucket)) = bucket.methods
<1> DEFINE M == ToSet(MethodOrder)
<1> DEFINE n == Len(MethodOrder)
<1> DEFINE op(allow, m) == IF m \in bucket.methods THEN Append(allow, m) ELSE allow
<1> DEFINE Folds(f, S) == f = [s \in SUBSET S |->
              IF s = {} THEN << >> ELSE op(f[s \ {Max(s)}], MethodOrder[Max(s)])]
<1> DEFINE Listed(m) == {MethodOrder[i] : i \in 1 .. m} \cap bucket.methods
<1>0. n \in Nat /\ DOMAIN MethodOrder = 1 .. n /\ \A i \in 1 .. n : MethodOrder[i] \in M
  BY MethodOrderAssumption DEF ToSet
<1> HIDE DEF M, n
\* Whatever function solves the recursion lists them.
<1>1. ASSUME NEW f, Folds(f, 1 .. n) PROVE f[1 .. n] \in Seq(M) /\ ToSet(f[1 .. n]) = Listed(n)
  <2>1. \A s \in SUBSET (1 .. n) : f[s] =
              IF s = {} THEN << >> ELSE op(f[s \ {Max(s)}], MethodOrder[Max(s)])
    BY <1>1
  <2> DEFINE I == {m \in Nat : m <= n => f[1 .. m] \in Seq(M) /\ ToSet(f[1 .. m]) = Listed(m)}
  <2>2. 0 \in I
    <3>1. 1 .. 0 = {}
      OBVIOUS
    <3>2. f[1 .. 0] = << >>
      BY <2>1, <3>1
    <3>3. << >> \in Seq(M) /\ ToSet(<< >>) = {} /\ Listed(0) = {}
      BY <3>1 DEF ToSet
    <3> HIDE DEF Listed
    <3> QED
      BY <3>2, <3>3
  <2>3. ASSUME NEW m \in Nat, m \in I PROVE m + 1 \in I
    <3> SUFFICES ASSUME m + 1 <= n
                 PROVE  f[1 .. m + 1] \in Seq(M) /\ ToSet(f[1 .. m + 1]) = Listed(m + 1)
      OBVIOUS
    <3>0. m + 1 \in 1 .. n /\ m + 1 \in 1 .. m + 1 /\ m <= n
      BY <1>0
    <3>a. \A x \in 1 .. m + 1 : x \in 1 .. n
      BY <1>0, <3>0
    <3>1. 1 .. m + 1 \in SUBSET (1 .. n) /\ 1 .. m + 1 # {} /\ m + 1 \in 1 .. n
      BY <3>0, <3>a
    <3>2. Max(1 .. m + 1) = m + 1
      BY MaxOfInterval
    <3>3. (1 .. m + 1) \ {m + 1} = 1 .. m
      OBVIOUS
    <3>5. f[1 .. m + 1] = op(f[1 .. m], MethodOrder[m + 1])
      <4> HIDE DEF op
      <4> QED
        BY <2>1, <3>1, <3>2, <3>3
    <3>6. PICK b \in Seq(M) : b = f[1 .. m] /\ ToSet(b) = Listed(m)
      BY <2>3, <3>0
    <3>7. PICK x \in M : x = MethodOrder[m + 1]
      BY <1>0, <3>1
    <3>8. Listed(m + 1) = IF x \in bucket.methods THEN Listed(m) \cup {x} ELSE Listed(m)
      <4>1. \A j \in 1 .. m + 1 : j \in 1 .. m \/ j = m + 1
        OBVIOUS
      <4>2. \A j \in 1 .. m : j \in 1 .. m + 1
        OBVIOUS
      <4> QED
        BY <3>0, <3>7, <4>1, <4>2
    <3>9. PICK c : c = f[1 .. m + 1]
      OBVIOUS
    <3>10. c = IF x \in bucket.methods THEN Append(b, x) ELSE b
      BY <3>5, <3>6, <3>7, <3>9
    <3> HIDE DEF Listed, op, I, Folds
    <3>11. Append(b, x) \in Seq(M) /\ ToSet(Append(b, x)) = ToSet(b) \cup {x}
      BY ToSetAppend
    <3> QED
      BY <3>6, <3>8, <3>9, <3>10, <3>11
  <2>4. Nat \subseteq I
    <3> HIDE DEF I
    <3> QED
      BY <2>2, <2>3, Induction
  <2> HIDE DEF Listed
  <2> QED
    BY <1>0, <2>4
\* And there is one.
<1>2. \E f : Folds(f, 1 .. n)
  <2> DEFINE I == {m \in Nat : m <= n => \E f : Folds(f, 1 .. m)}
  <2>1. 0 \in I
    <3> DEFINE f == [s \in SUBSET {} |-> << >>]
    <3>1. 1 .. 0 = {}
      OBVIOUS
    <3>2. \A s \in SUBSET {} : s = {}
      OBVIOUS
    <3>3. f = [s \in SUBSET {} |-> IF s = {} THEN << >> ELSE op(f[s \ {Max(s)}], MethodOrder[Max(s)])]
      BY <3>2
    <3>4. Folds(f, 1 .. 0)
      <4> HIDE DEF op
      <4> QED
        BY <3>1, <3>3
    <3> QED
      BY <3>4
  <2>2. ASSUME NEW m \in Nat, m \in I PROVE m + 1 \in I
    <3> HIDE DEF Folds
    <3> SUFFICES ASSUME m + 1 <= n PROVE \E f : Folds(f, 1 .. m + 1)
      OBVIOUS
    <3>0. m <= n
      BY <1>0
    <3>1. PICK g : Folds(g, 1 .. m)
      BY <2>2, <3>0
    <3> USE DEF Folds
    <3> DEFINE f == [s \in SUBSET (1 .. m + 1) |->
                       IF m + 1 \in s THEN op(g[s \ {m + 1}], MethodOrder[m + 1]) ELSE g[s]]
    <3>2. ASSUME NEW s \in SUBSET (1 .. m + 1)
          PROVE  f[s] = IF s = {} THEN << >> ELSE op(f[s \ {Max(s)}], MethodOrder[Max(s)])
      <4> HIDE DEF op
      <4>1. CASE m + 1 \in s
        <5>1. Max(s) = m + 1
          BY <4>1, MaxIsLast
        <5>2. s \ {m + 1} \in SUBSET (1 .. m + 1) /\ m + 1 \notin s \ {m + 1}
          OBVIOUS
        <5>3. f[s] = op(g[s \ {m + 1}], MethodOrder[m + 1]) /\ f[s \ {m + 1}] = g[s \ {m + 1}]
          BY <4>1, <5>2
        <5> HIDE DEF f
        <5> QED
          BY <4>1, <5>1, <5>3
      <4>2. CASE m + 1 \notin s
        <5>1. s \in SUBSET (1 .. m)
          BY <4>2
        <5>2. s \ {Max(s)} \in SUBSET (1 .. m + 1) /\ m + 1 \notin s \ {Max(s)}
          BY <4>2
        <5>3. f[s] = g[s] /\ f[s \ {Max(s)}] = g[s \ {Max(s)}]
          BY <4>2, <5>2
        <5>4. g[s] = IF s = {} THEN << >> ELSE op(g[s \ {Max(s)}], MethodOrder[Max(s)])
          BY <3>1, <5>1
        <5> HIDE DEF f
        <5> QED
          BY <5>3, <5>4
      <4> QED
        BY <4>1, <4>2
    <3>3. Folds(f, 1 .. m + 1)
      <4> HIDE DEF op
      <4>1. f = [s \in SUBSET (1 .. m + 1) |-> f[s]]
        OBVIOUS
      <4> HIDE DEF f
      <4>2. [s \in SUBSET (1 .. m + 1) |-> IF s = {} THEN << >> ELSE op(f[s \ {Max(s)}], MethodOrder[Max(s)])]
              = [s \in SUBSET (1 .. m + 1) |-> f[s]]
        BY <3>2
      <4> QED
        BY <4>1, <4>2
    <3> HIDE DEF f, Folds
    <3> QED
      BY <3>3
  <2>3. Nat \subseteq I
    <3> HIDE DEF I
    <3> QED
      BY <2>1, <2>2, Induction
  <2>4. n \in I
    BY <1>0, <2>3
  <2> HIDE DEF Folds
  <2> QED
    BY <2>4
<1> DEFINE iter == CHOOSE f : Folds(f, 1 .. n)
<1>3. Folds(iter, 1 .. n)
  <2> HIDE DEF Folds
  <2> QED
    BY <1>2
<1>4. AllowHeaderValue(bucket) = iter[1 .. n]
  BY <1>0 DEF AllowHeaderValue, FoldLeft, MapThenFoldSet
<1>5. ToSet(AllowHeaderValue(bucket)) = Listed(n)
  <2> HIDE DEF Listed, iter, Folds
  <2> QED
    BY <1>1, <1>3, <1>4
<1>6. {MethodOrder[i] : i \in 1 .. n} = M
  BY <1>0 DEF ToSet, M
<1> QED
  BY <1>5, <1>6 DEF M

\* f flattens the first n members of s one after the other.
Flattens(f, s, n) == f = [i \in 1..n |-> IF i = 1 THEN s[i] ELSE f[i-1] \o s[i]]

\* Such a function exists.
LEMMA FlattensExists ==
    ASSUME NEW s, NEW n \in Nat
    PROVE  \E f : Flattens(f, s, n)
<1> DEFINE I == {m \in Nat : \E f : Flattens(f, s, m)}
<1>1. 0 \in I
  <2> DEFINE f == [i \in 1..0 |-> s]
  <2>1. f = [i \in 1..0 |-> IF i = 1 THEN s[i] ELSE f[i-1] \o s[i]]
    OBVIOUS
  <2>2. Flattens(f, s, 0)
    BY <2>1 DEF Flattens
  <2> HIDE DEF f
  <2> QED
    BY <2>2
<1>2. ASSUME NEW m \in Nat, m \in I PROVE m + 1 \in I
  <2>1. PICK g : Flattens(g, s, m)
    BY <1>2
  <2>2. \A i \in 1..m : g[i] = IF i = 1 THEN s[i] ELSE g[i-1] \o s[i]
    BY <2>1 DEF Flattens
  <2> DEFINE f == [i \in 1..(m+1) |-> IF i = m + 1
                                      THEN IF i = 1 THEN s[i] ELSE g[i-1] \o s[i]
                                      ELSE g[i]]
  <2>3. ASSUME NEW i \in 1..(m+1)
        PROVE  f[i] = IF i = 1 THEN s[i] ELSE f[i-1] \o s[i]
    <3>1. CASE i = 1
      BY <2>2, <3>1
    <3>2. CASE i # 1
      <4>1. i - 1 \in 1..(m+1) /\ i - 1 # m + 1 /\ (i - 1) \in 1..m
        BY <3>2
      <4>2. f[i-1] = g[i-1]
        BY <4>1
      <4>3. f[i] = g[i-1] \o s[i]
        <5>1. CASE i = m + 1
          BY <3>2, <5>1
        <5>2. CASE i # m + 1
          <6>1. i \in 1..m /\ f[i] = g[i]
            BY <5>2
          <6> HIDE DEF f
          <6> QED
            BY <2>2, <3>2, <6>1
        <5> QED
          BY <5>1, <5>2
      <4> HIDE DEF f
      <4> QED
        BY <3>2, <4>2, <4>3
    <3> QED
      BY <3>1, <3>2
  <2>4. f = [i \in 1..(m+1) |-> f[i]]
    OBVIOUS
  <2> HIDE DEF f
  <2>5. Flattens(f, s, m + 1)
    BY <2>3, <2>4 DEF Flattens
  <2> QED
    BY <2>5
<1>3. Nat \subseteq I
  <2> HIDE DEF I
  <2> QED
    BY <1>1, <1>2, Induction
<1> QED
  BY <1>3

\* FlattenSeq is the last value of one.
LEMMA FlattenSeqIs ==
    ASSUME NEW s, Len(s) \in Nat \ {0}
    PROVE  \E f : Flattens(f, s, Len(s)) /\ FlattenSeq(s) = f[Len(s)]
<1> DEFINE f == CHOOSE g : g = [i \in 1..Len(s) |-> IF i = 1 THEN s[i] ELSE g[i-1] \o s[i]]
<1>1. FlattenSeq(s) = f[Len(s)]
  BY DEF FlattenSeq
<1>2. f = CHOOSE g : Flattens(g, s, Len(s))
  BY DEF Flattens
<1> HIDE DEF f
<1>3. Flattens(f, s, Len(s))
  BY <1>2, FlattensExists
<1> QED
  BY <1>1, <1>3

\* It depends on these members alone.
Agree(s, t, n) == \A i \in 1..n : s[i] = t[i]

\* Sequences that agree are flattened to values that agree.
LEMMA FlattensUnique ==
    ASSUME NEW s, NEW t, NEW m \in Nat, NEW n \in Nat, n <= m,
           Agree(s, t, n),
           NEW f, Flattens(f, s, m), NEW g, Flattens(g, t, n)
    PROVE  Agree(f, g, n)
<1>0. \A i \in 1..n : s[i] = t[i]
  BY DEF Agree
<1>1. \A i \in 1..m : f[i] = IF i = 1 THEN s[i] ELSE f[i-1] \o s[i]
  BY DEF Flattens
<1>2. \A i \in 1..n : g[i] = IF i = 1 THEN t[i] ELSE g[i-1] \o t[i]
  BY DEF Flattens
<1> DEFINE I == {i \in Nat : i \in 1..n => f[i] = g[i]}
<1>3. 0 \in I
  OBVIOUS
<1>4. ASSUME NEW i \in Nat, i \in I PROVE i + 1 \in I
  <2> SUFFICES ASSUME i + 1 \in 1..n PROVE f[i+1] = g[i+1]
    OBVIOUS
  <2>1. i + 1 \in 1..m /\ (i + 1) - 1 = i
    OBVIOUS
  <2>2. CASE i = 0
    BY <1>0, <1>1, <1>2, <2>1, <2>2
  <2>3. CASE i # 0
    <3>1. i \in 1..n
      BY <2>3
    <3>2. f[i] = g[i]
      BY <1>4, <3>1
    <3>3. f[i+1] = f[i] \o s[i+1] /\ g[i+1] = g[i] \o t[i+1]
      <4>1. i + 1 # 1
        BY <2>3
      <4>2. f[i+1] = f[(i+1)-1] \o s[i+1]
        BY <1>1, <2>1, <4>1
      <4>3. g[i+1] = g[(i+1)-1] \o t[i+1]
        BY <1>2, <4>1
      <4> QED
        BY <2>1, <4>2, <4>3
    <3> QED
      BY <1>0, <3>2, <3>3
  <2> QED
    BY <2>2, <2>3
<1>5. Nat \subseteq I
  <2> HIDE DEF I
  <2> QED
    BY <1>3, <1>4, Induction
<1> QED
  BY <1>5 DEF Agree

\* Nothing is flattened to nothing.
LEMMA FlattenEmpty == FlattenSeq(<< >>) = << >>
BY DEF FlattenSeq

\* What is flattened has the members of the parts,
LEMMA FlattenTyped ==
    ASSUME NEW S, NEW s \in Seq(Seq(S))
    PROVE  FlattenSeq(s) \in Seq(S)
<1>1. CASE s = << >>
  BY <1>1, FlattenEmpty, EmptySeq
<1>2. CASE s # << >>
  <2>1. Len(s) \in Nat \ {0}
    BY <1>2, EmptySeq
  <2>2. PICK f : Flattens(f, s, Len(s)) /\ FlattenSeq(s) = f[Len(s)]
    BY <2>1, FlattenSeqIs
  <2>3. \A i \in 1..Len(s) : f[i] = IF i = 1 THEN s[i] ELSE f[i-1] \o s[i]
    BY <2>2 DEF Flattens
  <2> DEFINE I == {i \in Nat : i \in 1..Len(s) => f[i] \in Seq(S)}
  <2>4. 0 \in I
    OBVIOUS
  <2>5. ASSUME NEW i \in Nat, i \in I PROVE i + 1 \in I
    <3> SUFFICES ASSUME i + 1 \in 1..Len(s) PROVE f[i+1] \in Seq(S)
      OBVIOUS
    <3>0. s[i+1] \in Seq(S)
      BY ElementOfSeq
    <3>1. CASE i = 0
      BY <2>3, <3>0, <3>1
    <3>2. CASE i # 0
      <4>1. i \in 1..Len(s) /\ (i + 1) - 1 = i
        BY <2>1, <3>2
      <4>2. f[i] \in Seq(S)
        BY <2>5, <4>1
      <4>3. f[i+1] = f[i] \o s[i+1]
        <5>1. i + 1 # 1
          BY <3>2
        <5>2. f[i+1] = f[(i+1)-1] \o s[i+1]
          BY <2>3, <5>1
        <5> QED
          BY <4>1, <5>2
      <4> QED
        BY <3>0, <4>2, <4>3, ConcatProperties
    <3> QED
      BY <3>1, <3>2
  <2>6. Nat \subseteq I
    <3> HIDE DEF I
    <3> QED
      BY <2>4, <2>5, Induction
  <2> QED
    BY <2>1, <2>2, <2>6
<1> QED
  BY <1>1, <1>2

\* and a part that is appended comes last.
LEMMA FlattenAppend ==
    ASSUME NEW S, NEW s \in Seq(Seq(S)), NEW x \in Seq(S)
    PROVE  FlattenSeq(Append(s, x)) = FlattenSeq(s) \o x
<1> DEFINE t == Append(s, x)
<1>1. /\ t \in Seq(Seq(S))
      /\ Len(t) = Len(s) + 1
      /\ \A i \in 1..Len(s) : s[i] = t[i]
      /\ t[Len(s) + 1] = x
      /\ Len(s) \in Nat
  BY AppendProperties
<1> HIDE DEF t
<1>2. PICK f : Flattens(f, t, Len(t)) /\ FlattenSeq(t) = f[Len(t)]
  <2>1. Len(t) \in Nat \ {0}
    BY <1>1
  <2> QED
    BY <2>1, FlattenSeqIs
<1>3. \A i \in 1..Len(t) : f[i] = IF i = 1 THEN t[i] ELSE f[i-1] \o t[i]
  BY <1>2 DEF Flattens
<1>4. CASE s = << >>
  <2>1. FlattenSeq(t) = x
    BY <1>1, <1>2, <1>3, <1>4
  <2> QED
    BY <1>4, <2>1, FlattenEmpty, ConcatEmptySeq DEF t
<1>5. CASE s # << >>
  <2>1. Len(s) \in Nat \ {0}
    BY <1>5, EmptySeq
  <2>2. PICK g : Flattens(g, s, Len(s)) /\ FlattenSeq(s) = g[Len(s)]
    BY <2>1, FlattenSeqIs
  <2>3. \A i \in 1..Len(s) : g[i] = f[i]
    <3>1. Len(t) \in Nat /\ Len(s) <= Len(t) /\ Agree(t, s, Len(s))
      BY <1>1 DEF Agree
    <3>2. Flattens(f, t, Len(t)) /\ Flattens(g, s, Len(s))
      BY <1>2, <2>2
    <3>3. Len(s) \in Nat
      BY <1>1
    <3>4. Agree(f, g, Len(s))
      BY <3>1, <3>2, <3>3, FlattensUnique
    <3> QED
      BY <3>4 DEF Agree
  <2>4. f[Len(s) + 1] = f[Len(s)] \o x
    <3>1. Len(s) + 1 \in 1..Len(t) /\ Len(s) + 1 # 1 /\ (Len(s) + 1) - 1 = Len(s)
      BY <1>1, <2>1
    <3>2. f[Len(s) + 1] = f[(Len(s) + 1) - 1] \o t[Len(s) + 1]
      BY <1>3, <3>1
    <3> QED
      BY <1>1, <3>1, <3>2
  <2>5. f[Len(s)] = g[Len(s)]
    BY <2>1, <2>3
  <2>6. FlattenSeq(t) = FlattenSeq(s) \o x
    BY <1>1, <1>2, <2>2, <2>4, <2>5
  <2> QED
    BY <2>6 DEF t
<1> QED
  BY <1>4, <1>5

\* Flattening a sequence with one more in front.
LEMMA FlattenPrepend ==
    ASSUME NEW S, NEW x \in Seq(S), NEW s \in Seq(Seq(S))
    PROVE  FlattenSeq(<<x>> \o s) = x \o FlattenSeq(s)
<1> DEFINE I == {n \in Nat : \A u \in Seq(Seq(S)) :
                     Len(u) = n => FlattenSeq(<<x>> \o u) = x \o FlattenSeq(u)}
<1>0. <<x>> \in Seq(Seq(S)) /\ << >> \in Seq(Seq(S))
  OBVIOUS
<1>1. 0 \in I
  <2> SUFFICES ASSUME NEW u \in Seq(Seq(S)), Len(u) = 0
               PROVE  FlattenSeq(<<x>> \o u) = x \o FlattenSeq(u)
    OBVIOUS
  <2>1. u = << >>
    OBVIOUS
  <2>2. <<x>> \o u = Append(<< >>, x)
    BY <2>1
  <2>3. FlattenSeq(<<x>> \o u) = << >> \o x
    BY <1>0, <2>2, FlattenAppend, FlattenEmpty
  <2> QED
    BY <2>1, <2>3, FlattenEmpty, ConcatEmptySeq
<1>2. ASSUME NEW n \in Nat, n \in I PROVE n + 1 \in I
  <2> SUFFICES ASSUME NEW u \in Seq(Seq(S)), Len(u) = n + 1
               PROVE  FlattenSeq(<<x>> \o u) = x \o FlattenSeq(u)
    <3>1. n + 1 \in Nat
      OBVIOUS
    <3> QED
      BY <3>1
  <2>1. u # << >>
    OBVIOUS
  <2>2. PICK v \in Seq(Seq(S)), y \in Seq(S) : u = Append(v, y)
    BY <2>1, SequenceEmptyOrAppend
  <2>3. Len(v) = n
    BY <2>2, AppendProperties
  <2>4. FlattenSeq(<<x>> \o v) = x \o FlattenSeq(v)
    BY <1>2, <2>3
  <2>5. <<x>> \o u = Append(<<x>> \o v, y)
    <3>1. u = v \o <<y>> /\ Append(<<x>> \o v, y) = (<<x>> \o v) \o <<y>>
      BY <1>0, <2>2, AppendIsConcat, ConcatProperties
    <3>2. <<y>> \in Seq(Seq(S))
      OBVIOUS
    <3> QED
      BY <1>0, <3>1, <3>2, ConcatAssociative
  <2>6. <<x>> \o v \in Seq(Seq(S))
    BY <1>0, ConcatProperties
  <2>7. FlattenSeq(<<x>> \o u) = (x \o FlattenSeq(v)) \o y
    BY <2>4, <2>5, <2>6, FlattenAppend
  <2>8. FlattenSeq(u) = FlattenSeq(v) \o y
    BY <2>2, FlattenAppend
  <2>9. FlattenSeq(v) \in Seq(S)
    BY FlattenTyped
  <2>10. (x \o FlattenSeq(v)) \o y = x \o (FlattenSeq(v) \o y)
    <3>1. PICK z \in Seq(S) : z = FlattenSeq(v)
      BY <2>9
    <3>2. (x \o z) \o y = x \o (z \o y)
      BY <2>2, <3>1, ConcatAssociative
    <3> QED
      BY <3>1, <3>2
  <2> QED
    BY <2>7, <2>8, <2>10
<1>3. Nat \subseteq I
  <2> HIDE DEF I
  <2> QED
    BY <1>1, <1>2, Induction
<1>4. Len(s) \in I
  BY <1>3, LenProperties
<1> QED
  BY <1>4

\* The names that a pattern binds.
BoundNames(pattern) == {NameOf(pattern[i]) : i \in {j \in DOMAIN pattern : pattern[j] \in Params}}

\* Every parameter of a matching pattern is bound, to the last segment that stands
\* for its name.
LEMMA BindingsAre ==
    ASSUME NEW pattern, NEW n \in Nat, DOMAIN pattern = 1 .. n, NEW p
    PROVE  /\ DOMAIN Bindings(pattern, p) = BoundNames(pattern)
           /\ \A i \in 1 .. n : pattern[i] \in Params =>
                 \E j \in 1 .. n :
                    /\ pattern[j] \in Params
                    /\ NameOf(pattern[j]) = NameOf(pattern[i])
                    /\ Bindings(pattern, p)[NameOf(pattern[i])] = p[j]
<1> DEFINE bound == {i \in DOMAIN pattern : pattern[i] \in Params}
<1> DEFINE names == {NameOf(pattern[i]) : i \in bound}
<1> DEFINE isLast(i, m) == /\ NameOf(pattern[i]) = m
                           /\ \A j \in bound : NameOf(pattern[j]) = m => j <= i
<1> DEFINE last(m) == CHOOSE i \in bound : isLast(i, m)
<1>1. Bindings(pattern, p) = [m \in names |-> p[last(m)]]
  BY DEF Bindings
<1>2. ASSUME NEW m \in names PROVE last(m) \in bound /\ NameOf(pattern[last(m)]) = m
  <2> DEFINE B == {i \in bound : NameOf(pattern[i]) = m}
  <2> DEFINE I == {k \in Nat : \A S \in SUBSET (1 .. k) :
                     S # {} => \E i \in S : \A j \in S : j <= i}
  <2>1. 0 \in I
    <3>1. \A S \in SUBSET (1 .. 0) : S = {}
      OBVIOUS
    <3> QED
      BY <3>1
  <2>2. ASSUME NEW k \in Nat, k \in I PROVE k + 1 \in I
    <3> SUFFICES ASSUME NEW S \in SUBSET (1 .. k + 1), S # {}
                 PROVE  \E i \in S : \A j \in S : j <= i
      BY <2>2
    <3>1. CASE k + 1 \in S
      <4>1. \A j \in S : j <= k + 1
        OBVIOUS
      <4> QED
        BY <3>1, <4>1
    <3>2. CASE k + 1 \notin S
      <4>1. S \in SUBSET (1 .. k)
        BY <3>2
      <4> QED
        BY <2>2, <4>1
    <3> QED
      BY <3>1, <3>2
  <2>3. Nat \subseteq I
    <3> HIDE DEF I
    <3> QED
      BY <2>1, <2>2, Induction
  <2>4. n \in I
    BY <2>3
  <2>5. B \in SUBSET (1 .. n) /\ B # {}
    OBVIOUS
  <2>6. PICK i \in B : \A j \in B : j <= i
    <3> HIDE DEF B
    <3> QED
      BY <2>4, <2>5
  <2>7. i \in bound /\ isLast(i, m)
    BY <2>6
  <2> HIDE DEF bound
  <2>8. last(m) \in bound /\ isLast(last(m), m)
    <3> HIDE DEF isLast
    <3> QED
      BY <2>7
  <2> QED
    BY <2>8
<1>3. ASSUME NEW i \in 1 .. n, pattern[i] \in Params
      PROVE  \E j \in 1 .. n :
                    /\ pattern[j] \in Params
                    /\ NameOf(pattern[j]) = NameOf(pattern[i])
                    /\ Bindings(pattern, p)[NameOf(pattern[i])] = p[j]
  <2> DEFINE m == NameOf(pattern[i])
  <2>1. m \in names
    BY <1>3
  <2>2. last(m) \in bound /\ NameOf(pattern[last(m)]) = m
    <3> HIDE DEF last, m, names
    <3> QED
      BY <1>2, <2>1
  <2>3. Bindings(pattern, p)[m] = p[last(m)]
    <3> HIDE DEF last, m, names
    <3> QED
      BY <1>1, <2>1
  <2> HIDE DEF last
  <2>4. last(m) \in 1 .. n /\ pattern[last(m)] \in Params
    BY <2>2
  <2> QED
    BY <2>2, <2>3, <2>4
<1>4. DOMAIN Bindings(pattern, p) = names
  <2> HIDE DEF last, names
  <2> QED
    BY <1>1
<1> QED
  BY <1>3, <1>4 DEF BoundNames

\* One of them.
LEMMA BindingAt ==
    ASSUME NEW pattern, NEW n \in Nat, DOMAIN pattern = 1 .. n, NEW p,
           NEW i \in 1 .. n, pattern[i] \in Params
    PROVE  \E j \in 1 .. n :
              /\ pattern[j] \in Params
              /\ NameOf(pattern[j]) = NameOf(pattern[i])
              /\ Bindings(pattern, p)[NameOf(pattern[i])] = p[j]
BY BindingsAre

-----------------------------------------------------------------------------
(* The inductive invariant. *)

\* What the prefix in the context is taken for.
InForce(p) == IF p = None THEN << >> ELSE p

\* Of the first d coroutines of s: one is a mount; one inside a mount has awaited
\* its next function again.
MountWithin(s, d) == \E i \in 1 .. d : s[i].kind = "mount"
RetryWithin(s, d) ==
    \E i, j \in 1 .. d :
        /\ i < j
        /\ s[i].kind = "mount"
        /\ IsHandler(s[j]) /\ s[j].calls > 1

\* The elements of a next function follow each other as the routers put them
\* together: a pipeline is followed by its routes, these by the return into the
\* parent, and that by a pipeline whose routes are under the prefix put back.
Linked(k) ==
    \A i \in 1 .. Len(k) :
        /\ k[i].kind = "chain" => i + 1 <= Len(k) /\ k[i + 1].kind = "routes"
        /\ k[i].kind = "routes" /\ i + 1 <= Len(k) => k[i + 1].kind \in {"back", "outer"}
        /\ k[i].kind = "back" =>
              /\ i + 2 <= Len(k) /\ k[i + 1].kind = "chain" /\ k[i + 2].kind = "routes"
              /\ k[i + 2].prefix = InForce(k[i].saved)

\* All its routes are under prefixes of the path.
Under(k, p) == \A i \in 1 .. Len(k) : k[i].kind = "routes" => IsPrefix(k[i].prefix, p)

\* It is the root's alone.
RootLevel(k) ==
    \A i \in 1 .. Len(k) : k[i].kind # "back" /\ (k[i].kind = "routes" => k[i].prefix = << >>)

\* What holds of a next function that the first d coroutines of s have led to.
Good(s, d, t, p, k) ==
    /\ ~RetryWithin(s, d) => Linked(k)
    /\ t # "path" => Under(k, p)
    /\ ~MountWithin(s, d) => RootLevel(k)

\* The prefix in the context is that of the routes a next function leads to first.
Fits(k, pre) ==
    /\ Len(k) >= 1 /\ k[1].kind = "routes" => InForce(pre) = k[1].prefix
    /\ Len(k) >= 2 /\ k[1].kind = "chain" => InForce(pre) = k[2].prefix

\* What a middleware has left under "params".
OutsideParams == IF touched = "params" THEN OwnParams ELSE None

ConfigInv ==
    /\ table \in Tables
    /\ path \in Seq(Segments)
    /\ touched \in {"nothing", "path", "params"}
    /\ hasOuter \in BOOLEAN

\* Every coroutine's next function is good, the outermost mount has saved the
\* context of the application, and no mount is ever what runs.
FrameInv(s, j, t, p) ==
    /\ s[j].kind = "mount" /\ ~MountWithin(s, j - 1) => s[j].saved = None
    /\ IsHandler(s[j]) => Good(s, j - 1, t, p, s[j].next)

StackInv ==
    /\ \A j \in 1 .. Len(stack) : FrameInv(stack, j, touched, path)
    /\ mode = "down" => Good(stack, Len(stack), touched, path, next)
    /\ ~MountWithin(stack, Len(stack)) => prefix = None
    /\ mode \in {"idle", "done"} => stack = << >>
    /\ mode = "at" => stack[Len(stack)].kind # "mount"

\* Who has not awaited its next function yet is innermost, and finds the prefix it
\* was called with.
ScopeInv ==
    /\ mode = "down" /\ ~RetryWithin(stack, Len(stack)) => Fits(next, prefix)
    /\ \A j \in 1 .. Len(stack) : IsHandler(stack[j]) /\ stack[j].calls = 0 =>
          /\ j = Len(stack) /\ mode = "at"
          /\ ~RetryWithin(stack, Len(stack)) => Fits(stack[j].next, prefix)

\* Only an endpoint has parameters of a route, and it has saved those outside.
Matched(pattern) ==
    /\ DOMAIN params = BoundNames(pattern)
    /\ \A i \in DOMAIN pattern :
          IF pattern[i] \in Params
          THEN \E j \in DOMAIN pattern :
                  /\ pattern[j] \in Params
                  /\ NameOf(pattern[j]) = NameOf(pattern[i])
                  /\ params[NameOf(pattern[i])] \in StandsFor(pattern, j)
          ELSE pattern[i] \in StandsFor(pattern, i)

ParamsInv ==
    /\ \A j \in 1 .. Len(stack) : stack[j].kind = "endpoint" =>
          /\ j = Len(stack) /\ mode = "at"
          /\ stack[j].saved = OutsideParams
          /\ answer.by = "endpoint"
          /\ params # OutsideParams => Matched(answer.path)
    /\ (\A j \in 1 .. Len(stack) : stack[j].kind # "endpoint") => params = OutsideParams

IInv == TypeOK /\ ConfigInv /\ StackInv /\ ScopeInv /\ ParamsInv

-----------------------------------------------------------------------------
(* Next functions. *)

\* What is known of an element by its kind.
LEMMA ElementKinds ==
    ASSUME NEW e \in Elements
    PROVE  /\ e.kind \in {"chain", "routes", "back", "outer"}
           /\ e.kind = "chain" => e.router \in Routers /\ e.index \in Nat \ {0}
           /\ e.kind = "routes" => e.router \in Routers /\ e.prefix \in Seq(Segments)
           /\ e.kind = "back" => e.saved \in SavedPrefixes
<1>1. CASE e \in [kind : {"chain"}, router : Routers, index : Nat \ {0}]
  BY <1>1
<1>2. CASE e \in [kind : {"routes"}, router : Routers, prefix : Seq(Segments)]
  BY <1>2
<1>3. CASE e \in [kind : {"back"}, saved : SavedPrefixes]
  BY <1>3
<1>4. CASE e = Outer
  BY <1>4 DEF Outer
<1> QED
  BY <1>1, <1>2, <1>3, <1>4 DEF Elements

\* What routers put into next functions are elements of them.
LEMMA ElementsMade ==
    /\ \A r \in Routers, i \in Nat \ {0} : Chain(r, i) \in Elements
    /\ \A r \in Routers, p \in Seq(Segments) : RouteTail(r, p) \in Elements
    /\ \A s \in SavedPrefixes : ChildNext(s) \in Elements
    /\ Outer \in Elements
BY DEF Elements, Chain, RouteTail, ChildNext

\* What is known of a coroutine.
LEMMA FrameKinds ==
    ASSUME NEW f \in Frames
    PROVE  /\ f.kind \in {"mw", "fallback", "mount", "endpoint"}
           /\ IsHandler(f) => f.calls \in 0 .. MaxCalls /\ f.next \in Seq(Elements)
           /\ f.kind = "mount" => f.saved \in SavedPrefixes
           /\ f.kind = "endpoint" => f.saved \in {None, OwnParams}
<1>1. CASE f \in [kind : {"mw", "fallback"}, calls : 0..MaxCalls, next : Seq(Elements)]
  BY <1>1 DEF IsHandler
<1>2. CASE f \in [kind : {"mount"}, saved : SavedPrefixes]
  BY <1>2 DEF IsHandler
<1>3. CASE f \in [kind : {"endpoint"}, saved : {None, OwnParams}]
  BY <1>3 DEF IsHandler
<1> QED
  BY <1>1, <1>2, <1>3 DEF Frames

\* The element put before a sequence.
LEMMA ConsIs ==
    ASSUME NEW E, NEW a \in E, NEW k \in Seq(E)
    PROVE  /\ <<a>> \o k \in Seq(E)
           /\ Len(<<a>> \o k) = Len(k) + 1 /\ Len(k) \in Nat
           /\ (<<a>> \o k)[1] = a
           /\ \A i \in 1 .. Len(k) : (<<a>> \o k)[i + 1] = k[i]
OBVIOUS

\* A sequence without its first element.
LEMMA TailIs ==
    ASSUME NEW E, NEW k \in Seq(E), k # << >>
    PROVE  /\ Len(k) \in Nat /\ Len(k) >= 1
           /\ Head(k) = k[1] /\ k[1] \in E
           /\ Tail(k) \in Seq(E) /\ Len(Tail(k)) = Len(k) - 1
           /\ \A i \in 1 .. Len(k) - 1 : Tail(k)[i] = k[i + 1]
OBVIOUS

\* What holds of a next function holds of what it leads to.
LEMMA TailLinked ==
    ASSUME NEW E, NEW k \in Seq(E), k # << >>
    PROVE  /\ Linked(k) => Linked(Tail(k))
           /\ \A p : Under(k, p) => Under(Tail(k), p)
           /\ RootLevel(k) => RootLevel(Tail(k))
<1>1. /\ Len(k) \in Nat /\ Len(Tail(k)) = Len(k) - 1
      /\ \A i \in 1 .. Len(k) - 1 : Tail(k)[i] = k[i + 1]
  BY TailIs
<1>2. ASSUME Linked(k), NEW i \in 1 .. Len(k) - 1
      PROVE  /\ Tail(k)[i].kind = "chain" => i + 1 <= Len(k) - 1 /\ Tail(k)[i + 1].kind = "routes"
             /\ Tail(k)[i].kind = "routes" /\ i + 1 <= Len(k) - 1 => Tail(k)[i + 1].kind \in {"back", "outer"}
             /\ Tail(k)[i].kind = "back" =>
                   /\ i + 2 <= Len(k) - 1 /\ Tail(k)[i + 1].kind = "chain" /\ Tail(k)[i + 2].kind = "routes"
                   /\ Tail(k)[i + 2].prefix = InForce(Tail(k)[i].saved)
  <2>1. i + 1 \in 1 .. Len(k) /\ Tail(k)[i] = k[i + 1]
    BY <1>1
  <2>2. /\ k[i + 1].kind = "chain" => (i + 1) + 1 <= Len(k) /\ k[(i + 1) + 1].kind = "routes"
        /\ k[i + 1].kind = "routes" /\ (i + 1) + 1 <= Len(k) => k[(i + 1) + 1].kind \in {"back", "outer"}
        /\ k[i + 1].kind = "back" =>
              /\ (i + 1) + 2 <= Len(k) /\ k[(i + 1) + 1].kind = "chain" /\ k[(i + 1) + 2].kind = "routes"
              /\ k[(i + 1) + 2].prefix = InForce(k[i + 1].saved)
    BY <1>2, <2>1 DEF Linked
  <2>3. (i + 1) + 1 <= Len(k) => i + 1 \in 1 .. Len(k) - 1 /\ Tail(k)[i + 1] = k[(i + 1) + 1]
    BY <1>1
  <2>4. (i + 1) + 2 <= Len(k) => i + 2 \in 1 .. Len(k) - 1 /\ Tail(k)[i + 2] = k[(i + 1) + 2]
    <3>1. (i + 1) + 2 <= Len(k) => i + 2 \in 1 .. Len(k) - 1 /\ (i + 2) + 1 = (i + 1) + 2
      BY <1>1
    <3> QED
      BY <1>1, <3>1
  <2>5. /\ ((i + 1) + 1 <= Len(k)) <=> (i + 1 <= Len(k) - 1)
        /\ ((i + 1) + 2 <= Len(k)) <=> (i + 2 <= Len(k) - 1)
        /\ (i + 1) + 2 <= Len(k) => (i + 1) + 1 <= Len(k)
    BY <1>1
  <2> QED
    BY <2>1, <2>2, <2>3, <2>4, <2>5
<1>3. Linked(k) => Linked(Tail(k))
  BY <1>1, <1>2 DEF Linked
<1>4. \A i \in 1 .. Len(k) - 1 : i + 1 \in 1 .. Len(k)
  BY <1>1
<1>5. \A p : Under(k, p) => Under(Tail(k), p)
  BY <1>1, <1>4 DEF Under
<1>6. RootLevel(k) => RootLevel(Tail(k))
  BY <1>1, <1>4 DEF RootLevel
<1> QED
  BY <1>3, <1>5, <1>6

\* What may be put before a next function.
LEMMA ConsLinked ==
    ASSUME NEW E, NEW a \in E, NEW k \in Seq(E)
    PROVE  /\ /\ Linked(k)
              /\ a.kind = "chain" => Len(k) >= 1 /\ k[1].kind = "routes"
              /\ a.kind = "routes" /\ Len(k) >= 1 => k[1].kind \in {"back", "outer"}
              /\ a.kind = "back" =>
                    /\ Len(k) >= 2 /\ k[1].kind = "chain" /\ k[2].kind = "routes"
                    /\ k[2].prefix = InForce(a.saved)
              => Linked(<<a>> \o k)
           /\ \A p : Under(k, p) /\ (a.kind = "routes" => IsPrefix(a.prefix, p)) => Under(<<a>> \o k, p)
           /\ RootLevel(k) /\ a.kind # "back" /\ (a.kind = "routes" => a.prefix = << >>)
              => RootLevel(<<a>> \o k)
<1> DEFINE m == <<a>> \o k
<1>1. /\ Len(m) = Len(k) + 1 /\ Len(k) \in Nat
      /\ m[1] = a
      /\ \A i \in 1 .. Len(k) : m[i + 1] = k[i]
  BY ConsIs
<1> HIDE DEF m
<1>2. ASSUME NEW i \in 1 .. Len(m) PROVE i = 1 \/ (i - 1 \in 1 .. Len(k) /\ m[i] = k[i - 1])
  <2>1. CASE i # 1
    <3>1. i - 1 \in 1 .. Len(k) /\ (i - 1) + 1 = i
      BY <1>1, <2>1
    <3> QED
      BY <1>1, <3>1
  <2> QED
    BY <2>1
<1>3. ASSUME Linked(k),
             a.kind = "chain" => Len(k) >= 1 /\ k[1].kind = "routes",
             a.kind = "routes" /\ Len(k) >= 1 => k[1].kind \in {"back", "outer"},
             a.kind = "back" =>
                /\ Len(k) >= 2 /\ k[1].kind = "chain" /\ k[2].kind = "routes"
                /\ k[2].prefix = InForce(a.saved)
      PROVE  Linked(m)
  <2> SUFFICES ASSUME NEW i \in 1 .. Len(m)
               PROVE  /\ m[i].kind = "chain" => i + 1 <= Len(m) /\ m[i + 1].kind = "routes"
                      /\ m[i].kind = "routes" /\ i + 1 <= Len(m) => m[i + 1].kind \in {"back", "outer"}
                      /\ m[i].kind = "back" =>
                            /\ i + 2 <= Len(m) /\ m[i + 1].kind = "chain" /\ m[i + 2].kind = "routes"
                            /\ m[i + 2].prefix = InForce(m[i].saved)
    BY DEF Linked
  <2>1. CASE i = 1
    <3>1. Len(k) >= 1 => m[2] = k[1]
      <4>1. Len(k) >= 1 => 1 \in 1 .. Len(k) /\ 1 + 1 = 2
        BY <1>1
      <4> QED
        BY <1>1, <4>1
    <3>2. Len(k) >= 2 => m[3] = k[2]
      <4>1. Len(k) >= 2 => 2 \in 1 .. Len(k) /\ 2 + 1 = 3
        BY <1>1
      <4> QED
        BY <1>1, <4>1
    <3>3. (2 <= Len(m) <=> Len(k) >= 1) /\ (3 <= Len(m) <=> Len(k) >= 2) /\ i + 1 = 2 /\ i + 2 = 3
      BY <1>1, <2>1
    <3> QED
      BY <1>1, <1>3, <2>1, <3>1, <3>2, <3>3
  <2>2. CASE i # 1
    <3> DEFINE j == i - 1
    <3>1. j \in 1 .. Len(k) /\ m[i] = k[j]
      BY <1>2, <2>2
    <3>2. /\ k[j].kind = "chain" => j + 1 <= Len(k) /\ k[j + 1].kind = "routes"
          /\ k[j].kind = "routes" /\ j + 1 <= Len(k) => k[j + 1].kind \in {"back", "outer"}
          /\ k[j].kind = "back" =>
                /\ j + 2 <= Len(k) /\ k[j + 1].kind = "chain" /\ k[j + 2].kind = "routes"
                /\ k[j + 2].prefix = InForce(k[j].saved)
      BY <1>3, <3>1 DEF Linked
    <3>3. /\ (j + 1 <= Len(k)) <=> (i + 1 <= Len(m))
          /\ (j + 2 <= Len(k)) <=> (i + 2 <= Len(m))
          /\ j + 2 <= Len(k) => j + 1 <= Len(k)
      BY <1>1, <3>1
    <3>4. j + 1 <= Len(k) => m[i + 1] = k[j + 1]
      <4>1. j + 1 <= Len(k) => j + 1 \in 1 .. Len(k) /\ (j + 1) + 1 = i + 1
        BY <1>1, <3>1
      <4> QED
        BY <1>1, <4>1
    <3>5. j + 2 <= Len(k) => m[i + 2] = k[j + 2]
      <4>1. j + 2 <= Len(k) => j + 2 \in 1 .. Len(k) /\ (j + 2) + 1 = i + 2
        BY <1>1, <3>1
      <4> QED
        BY <1>1, <4>1
    <3> HIDE DEF j
    <3> QED
      BY <3>1, <3>2, <3>3, <3>4, <3>5
  <2> QED
    BY <2>1, <2>2
<1>4. ASSUME NEW p, Under(k, p), a.kind = "routes" => IsPrefix(a.prefix, p) PROVE Under(m, p)
  BY <1>1, <1>2, <1>4 DEF Under
<1>5. ASSUME RootLevel(k), a.kind # "back", a.kind = "routes" => a.prefix = << >> PROVE RootLevel(m)
  BY <1>1, <1>2, <1>5 DEF RootLevel
<1> QED
  BY <1>3, <1>4, <1>5 DEF m

\* What is good stays good further up, if the coroutines below are the same.
LEMMA GoodUp ==
    ASSUME NEW s, NEW s2, NEW d \in Nat, NEW d2 \in Nat, d <= d2,
           \A i \in 1 .. d : s2[i] = s[i],
           NEW t, NEW t2, NEW p, NEW p2, t2 # "path" => t # "path" /\ p2 = p,
           NEW k, Good(s, d, t, p, k)
    PROVE  Good(s2, d2, t2, p2, k)
<1>1. \A i \in 1 .. d : i \in 1 .. d2
  OBVIOUS
<1>2. MountWithin(s, d) => MountWithin(s2, d2)
  BY <1>1 DEF MountWithin
<1>3. RetryWithin(s, d) => RetryWithin(s2, d2)
  BY <1>1 DEF RetryWithin, IsHandler
<1> QED
  BY <1>2, <1>3 DEF Good

-----------------------------------------------------------------------------
(* The stack of coroutines. *)

\* A coroutine is pushed: what held of the others still holds.
LEMMA Pushed ==
    ASSUME NEW s \in Seq(Frames), NEW f \in Frames, NEW s2, s2 = Append(s, f)
    PROVE  /\ s2 \in Seq(Frames) /\ Len(s) \in Nat /\ Len(s2) = Len(s) + 1
           /\ s2[Len(s2)] = f
           /\ \A i \in 1 .. Len(s) : s2[i] = s[i]
           /\ MountWithin(s2, Len(s2)) <=> (MountWithin(s, Len(s)) \/ f.kind = "mount")
           /\ RetryWithin(s, Len(s)) => RetryWithin(s2, Len(s2))
<1>1. /\ s2 \in Seq(Frames) /\ Len(s) \in Nat /\ Len(s2) = Len(s) + 1
      /\ s2[Len(s2)] = f
      /\ \A i \in 1 .. Len(s) : s2[i] = s[i]
  OBVIOUS
<1>2. /\ \A i \in 1 .. Len(s) : i \in 1 .. Len(s2)
      /\ Len(s2) \in 1 .. Len(s2)
      /\ \A i \in 1 .. Len(s2) : i \in 1 .. Len(s) \/ i = Len(s2)
  BY <1>1
<1>3. MountWithin(s2, Len(s2)) <=> (MountWithin(s, Len(s)) \/ f.kind = "mount")
  BY <1>1, <1>2 DEF MountWithin
<1>4. RetryWithin(s, Len(s)) => RetryWithin(s2, Len(s2))
  BY <1>1, <1>2 DEF RetryWithin
<1> QED
  BY <1>1, <1>3, <1>4

\* All coroutines have good next functions if the one that is pushed has.
LEMMA PushedFrames ==
    ASSUME NEW s \in Seq(Frames), NEW f \in Frames, NEW s2, s2 = Append(s, f),
           NEW t, NEW p,
           \A j \in 1 .. Len(s) : FrameInv(s, j, t, p),
           f.kind = "mount" /\ ~MountWithin(s, Len(s)) => f.saved = None,
           IsHandler(f) => Good(s, Len(s), t, p, f.next)
    PROVE  \A j \in 1 .. Len(s2) : FrameInv(s2, j, t, p)
<1>1. /\ s2 \in Seq(Frames) /\ Len(s) \in Nat /\ Len(s2) = Len(s) + 1
      /\ s2[Len(s2)] = f
      /\ \A i \in 1 .. Len(s) : s2[i] = s[i]
  OBVIOUS
<1>2. \A i \in 1 .. Len(s2) : i \in 1 .. Len(s) \/ i = Len(s2)
  BY <1>1
<1>3. ASSUME NEW j \in 1 .. Len(s2) PROVE FrameInv(s2, j, t, p)
  <2>1. j - 1 \in Nat /\ j - 1 <= Len(s) /\ \A i \in 1 .. (j - 1) : i \in 1 .. Len(s)
    BY <1>1
  <2>2. \A i \in 1 .. (j - 1) : s2[i] = s[i]
    BY <1>1, <2>1
  <2>3. MountWithin(s2, j - 1) <=> MountWithin(s, j - 1)
    BY <2>2 DEF MountWithin
  <2>4. \A k : Good(s, j - 1, t, p, k) => Good(s2, j - 1, t, p, k)
    <3>1. RetryWithin(s2, j - 1) <=> RetryWithin(s, j - 1)
      BY <2>2 DEF RetryWithin
    <3> QED
      BY <2>3, <3>1 DEF Good
  <2>5. CASE j \in 1 .. Len(s)
    <3>1. FrameInv(s, j, t, p) /\ s2[j] = s[j]
      BY <1>1, <2>5
    <3> QED
      BY <2>3, <2>4, <3>1 DEF FrameInv
  <2>6. CASE j = Len(s2)
    <3>1. j - 1 = Len(s) /\ s2[j] = f
      BY <1>1, <2>6
    <3> QED
      BY <2>3, <2>4, <3>1 DEF FrameInv
  <2> QED
    BY <1>2, <2>5, <2>6
<1> QED
  BY <1>3

\* The innermost one is gone.
LEMMA Popped ==
    ASSUME NEW s \in Seq(Frames), s # << >>, NEW s2, s2 = Front(s)
    PROVE  /\ s2 \in Seq(Frames) /\ Len(s) \in Nat /\ Len(s) >= 1 /\ Len(s2) = Len(s) - 1
           /\ Last(s) = s[Len(s)] /\ Last(s) \in Frames
           /\ \A i \in 1 .. Len(s2) : s2[i] = s[i] /\ i \in 1 .. Len(s) /\ i # Len(s)
           /\ MountWithin(s2, Len(s2)) <=> MountWithin(s, Len(s) - 1)
           /\ MountWithin(s, Len(s)) <=> (MountWithin(s2, Len(s2)) \/ Last(s).kind = "mount")
           /\ \A t, p :
                 (\A j \in 1 .. Len(s) : FrameInv(s, j, t, p))
                 => \A j \in 1 .. Len(s2) : FrameInv(s2, j, t, p)
<1>1. /\ s2 \in Seq(Frames) /\ Len(s) \in Nat /\ Len(s) >= 1 /\ Len(s2) = Len(s) - 1
      /\ Last(s) = s[Len(s)] /\ Last(s) \in Frames
      /\ \A i \in 1 .. Len(s2) : s2[i] = s[i]
  <2>1. Len(s) \in Nat /\ Len(s) >= 1 /\ Last(s) = s[Len(s)] /\ Last(s) \in Frames
    BY DEF Last
  <2>2. s2 = SubSeq(s, 1, Len(s) - 1)
    BY DEF Front
  <2>3. s2 \in Seq(Frames) /\ Len(s2) = Len(s) - 1
    <3> DEFINE n == Len(s) - 1
    <3>1. n \in Nat /\ \A i \in 1 .. n : s[i] \in Frames
      BY <2>1
    <3>2. s2 = [i \in 1 .. n |-> s[i]]
      BY <2>1, <2>2
    <3> HIDE DEF n
    <3>3. s2 \in [1 .. n -> Frames] /\ DOMAIN s2 = 1 .. n
      BY <3>1, <3>2
    <3>4. s2 \in Seq(Frames)
      BY <3>1, <3>3, FunctionIsSeq
    <3>5. Len(s2) = n
      BY <3>1, <3>3, <3>4
    <3> QED
      BY <3>4, <3>5 DEF n
  <2>4. \A i \in 1 .. Len(s) - 1 : s2[i] = s[i]
    BY <2>1, <2>2
  <2> QED
    BY <2>1, <2>3, <2>4
<1>2. /\ \A i \in 1 .. Len(s2) : i \in 1 .. Len(s) /\ i # Len(s)
      /\ Len(s) \in 1 .. Len(s)
      /\ \A i \in 1 .. Len(s) : i \in 1 .. Len(s2) \/ i = Len(s)
  BY <1>1
<1>3. MountWithin(s2, Len(s2)) <=> MountWithin(s, Len(s2))
  BY <1>1 DEF MountWithin
<1>4. MountWithin(s, Len(s)) <=> (MountWithin(s2, Len(s2)) \/ Last(s).kind = "mount")
  BY <1>1, <1>2 DEF MountWithin
<1>5. ASSUME NEW t, NEW p, \A j \in 1 .. Len(s) : FrameInv(s, j, t, p), NEW j \in 1 .. Len(s2)
      PROVE  FrameInv(s2, j, t, p)
  <2>1. j - 1 \in Nat /\ j - 1 <= Len(s2) /\ \A i \in 1 .. (j - 1) : i \in 1 .. Len(s2)
    BY <1>1
  <2>2. \A i \in 1 .. (j - 1) : s2[i] = s[i]
    BY <1>1, <2>1
  <2>3. MountWithin(s2, j - 1) <=> MountWithin(s, j - 1)
    BY <2>2 DEF MountWithin
  <2>4. \A k : Good(s, j - 1, t, p, k) => Good(s2, j - 1, t, p, k)
    <3>1. RetryWithin(s2, j - 1) <=> RetryWithin(s, j - 1)
      BY <2>2 DEF RetryWithin
    <3> QED
      BY <2>3, <3>1 DEF Good
  <2>5. FrameInv(s, j, t, p) /\ s2[j] = s[j]
    BY <1>1, <1>2, <1>5
  <2> QED
    BY <2>3, <2>4, <2>5 DEF FrameInv
<1> QED
  BY <1>1, <1>2, <1>3, <1>4, <1>5

\* The innermost one awaits its next function once more.  If it has done so before
\* and this is no retry inside a mounted router, it is in none.
LEMMA Bumped ==
    ASSUME NEW s \in Seq(Frames), s # << >>, IsHandler(Last(s)), Last(s).calls < MaxCalls,
           NEW s2, s2 = [s EXCEPT ![Len(s)].calls = @ + 1]
    PROVE  /\ s2 \in Seq(Frames) /\ Len(s) \in Nat /\ Len(s) >= 1 /\ Len(s2) = Len(s)
           /\ Last(s) = s[Len(s)] /\ Last(s) \in Frames
           /\ \A i \in 1 .. Len(s) - 1 : s2[i] = s[i]
           /\ s2[Len(s)].kind = s[Len(s)].kind
           /\ s2[Len(s)].next = s[Len(s)].next
           /\ s2[Len(s)].calls = s[Len(s)].calls + 1
           /\ s[Len(s)].calls \in Nat
           /\ MountWithin(s2, Len(s2)) <=> MountWithin(s, Len(s))
           /\ MountWithin(s, Len(s)) <=> MountWithin(s, Len(s) - 1)
           /\ RetryWithin(s, Len(s)) => RetryWithin(s2, Len(s2))
           /\ s[Len(s)].calls >= 1 /\ MountWithin(s, Len(s)) => RetryWithin(s2, Len(s2))
<1> DEFINE n == Len(s)
<1>1. n \in Nat /\ n >= 1 /\ Last(s) = s[n] /\ s[n] \in Frames /\ n \in 1 .. n
  BY DEF Last
<1>2. s[n] \in [kind : {"mw", "fallback"}, calls : 0..MaxCalls, next : Seq(Elements)]
  <2>1. s[n].kind \notin {"mount", "endpoint"}
    BY <1>1 DEF IsHandler
  <2> QED
    BY <1>1, <2>1 DEF Frames
<1>3. /\ s2 = [s EXCEPT ![n] = [s[n] EXCEPT !.calls = s[n].calls + 1]]
      /\ [s[n] EXCEPT !.calls = s[n].calls + 1] \in
            [kind : {"mw", "fallback"}, calls : 0..MaxCalls, next : Seq(Elements)]
  BY <1>1, <1>2, BoundAssumption
<1>4. [s[n] EXCEPT !.calls = s[n].calls + 1] \in Frames
  BY <1>3 DEF Frames
<1>5. /\ s2 \in Seq(Frames) /\ Len(s2) = n
      /\ \A i \in 1 .. n - 1 : s2[i] = s[i]
      /\ s2[n] = [s[n] EXCEPT !.calls = s[n].calls + 1]
  <2>1. s2 \in [1 .. n -> Frames]
    BY <1>1, <1>3, <1>4
  <2>2. s2 \in Seq(Frames) /\ Len(s2) = n
    BY <1>1, <2>1
  <2> QED
    BY <1>1, <1>3, <2>2
<1>6. /\ s2[n].kind = s[n].kind /\ s2[n].next = s[n].next
      /\ s2[n].calls = s[n].calls + 1 /\ s[n].calls \in Nat
      /\ IsHandler(s[n]) /\ IsHandler(s2[n])
  BY <1>1, <1>2, <1>5, BoundAssumption DEF IsHandler
<1> HIDE DEF n
<1>7. \A i \in 1 .. n : i \in 1 .. n - 1 \/ i = n
  BY <1>1
<1>8. \A i \in 1 .. n : s2[i].kind = s[i].kind /\ s2[i].next = s[i].next
                        /\ (s2[i].calls = s[i].calls \/ i = n)
  BY <1>5, <1>6, <1>7
<1>9. MountWithin(s2, n) <=> MountWithin(s, n)
  BY <1>8 DEF MountWithin
<1>10. s[n].kind # "mount"
  BY <1>6 DEF IsHandler
<1>11. /\ \A i \in 1 .. n - 1 : i \in 1 .. n /\ i < n
       /\ MountWithin(s, n) <=> MountWithin(s, n - 1)
  <2>1. \A i \in 1 .. n - 1 : i \in 1 .. n /\ i < n
    BY <1>1
  <2> QED
    BY <1>7, <1>10, <2>1 DEF MountWithin
<1>12. RetryWithin(s, n) => RetryWithin(s2, n)
  <2> SUFFICES ASSUME NEW i \in 1 .. n, NEW j \in 1 .. n, i < j, s[i].kind = "mount",
                      IsHandler(s[j]), s[j].calls > 1
               PROVE  RetryWithin(s2, n)
    BY DEF RetryWithin
  <2>1. s2[i].kind = "mount" /\ IsHandler(s2[j])
    BY <1>8 DEF IsHandler
  <2>2. s2[j].calls > 1
    BY <1>6, <1>8
  <2> QED
    BY <2>1, <2>2 DEF RetryWithin
<1>13. ASSUME s[n].calls >= 1, MountWithin(s, n) PROVE RetryWithin(s2, n)
  <2>1. PICK i \in 1 .. n - 1 : s[i].kind = "mount"
    BY <1>11, <1>13 DEF MountWithin
  <2>2. i \in 1 .. n /\ i < n /\ s2[i].kind = "mount" /\ s2[n].calls > 1
    BY <1>6, <1>8, <1>11, <1>13, <2>1
  <2> QED
    BY <1>1, <1>6, <2>2 DEF RetryWithin
<1> QED
  BY <1>1, <1>5, <1>6, <1>9, <1>11, <1>12, <1>13 DEF n

\* Whatever the step does to the request, the next functions below stay good.
LEMMA BumpedFrames ==
    ASSUME NEW s, NEW s2, NEW n \in Nat, IsHandler(s[n]),
           \A i \in 1 .. n - 1 : s2[i] = s[i],
           s2[n].kind = s[n].kind, s2[n].next = s[n].next,
           NEW t, NEW p, NEW t2, NEW p2, t2 # "path" => t # "path" /\ p2 = p,
           \A j \in 1 .. n : FrameInv(s, j, t, p)
    PROVE  \A j \in 1 .. n : FrameInv(s2, j, t2, p2)
<1> SUFFICES ASSUME NEW j \in 1 .. n PROVE FrameInv(s2, j, t2, p2)
  OBVIOUS
<1>1. j - 1 \in Nat /\ (\A i \in 1 .. (j - 1) : i \in 1 .. n - 1) /\ (j \in 1 .. n - 1 \/ j = n)
  OBVIOUS
<1>2. \A i \in 1 .. (j - 1) : s2[i] = s[i]
  BY <1>1
<1>3. /\ MountWithin(s2, j - 1) <=> MountWithin(s, j - 1)
      /\ RetryWithin(s2, j - 1) <=> RetryWithin(s, j - 1)
  BY <1>2 DEF MountWithin, RetryWithin
<1>4. \A k : Good(s, j - 1, t, p, k) => Good(s2, j - 1, t2, p2, k)
  BY <1>3 DEF Good
<1>5. FrameInv(s, j, t, p)
  OBVIOUS
<1>6. IsHandler(s2[j]) <=> IsHandler(s[j])
  BY <1>1 DEF IsHandler
<1>7. s2[j].next = s[j].next
  BY <1>1
<1>8. s2[j].kind = "mount" => s2[j] = s[j]
  BY <1>1 DEF IsHandler
<1> QED
  BY <1>3, <1>4, <1>5, <1>6, <1>7, <1>8 DEF FrameInv

-----------------------------------------------------------------------------
(* What calling a next function leads to. *)

\* What is good stays good further on.
LEMMA GoodTail ==
    ASSUME NEW s, NEW d, NEW t, NEW p, NEW k \in Seq(Elements), k # << >>, Good(s, d, t, p, k)
    PROVE  Good(s, d, t, p, Tail(k))
BY TailLinked DEF Good

\* From one entry of a pipeline to the next.
LEMMA NextEntry ==
    ASSUME NEW k \in Seq(Elements), k # << >>, Head(k).kind = "chain",
           NEW k2, k2 = <<Chain(Head(k).router, Head(k).index + 1)>> \o Tail(k)
    PROVE  /\ k2 \in Seq(Elements)
           /\ Len(k2) = Len(k) /\ Len(k) \in Nat /\ k2[1].kind = "chain"
           /\ \A i \in 1 .. Len(k) : i > 1 => k2[i] = k[i]
           /\ Linked(k) => Linked(k2)
           /\ Linked(k) => Len(k) >= 2 /\ k[2].kind = "routes"
           /\ \A pre : Fits(k, pre) => Fits(k2, pre)
           /\ \A s, d, t, p : Good(s, d, t, p, k) => Good(s, d, t, p, k2)
<1> DEFINE a == Chain(Head(k).router, Head(k).index + 1)
<1>1. /\ Len(k) \in Nat /\ Len(k) >= 1
      /\ Head(k) = k[1] /\ k[1] \in Elements
      /\ Tail(k) \in Seq(Elements) /\ Len(Tail(k)) = Len(k) - 1
      /\ \A i \in 1 .. Len(k) - 1 : Tail(k)[i] = k[i + 1]
  BY TailIs
<1>2. a \in Elements /\ a.kind = "chain"
  <2>1. Head(k).router \in Routers /\ Head(k).index \in Nat \ {0}
    BY <1>1, ElementKinds
  <2>2. Head(k).index + 1 \in Nat \ {0}
    BY <2>1
  <2> QED
    BY <2>1, <2>2, ElementsMade DEF Chain
<1>3. /\ k2 \in Seq(Elements)
      /\ Len(k2) = Len(Tail(k)) + 1
      /\ k2[1] = a
      /\ \A i \in 1 .. Len(Tail(k)) : k2[i + 1] = Tail(k)[i]
  BY <1>1, <1>2, ConsIs
<1>4. ASSUME NEW i \in 1 .. Len(k), i > 1 PROVE k2[i] = k[i]
  <2>1. i - 1 \in 1 .. Len(k) - 1 /\ (i - 1) + 1 = i
    BY <1>1, <1>4
  <2> QED
    BY <1>1, <1>3, <2>1
<1>5. Linked(k) => Len(k) >= 2 /\ k[2].kind = "routes"
  <2>1. 1 \in 1 .. Len(k) /\ 1 + 1 = 2
    BY <1>1
  <2> QED
    BY <1>1, <2>1 DEF Linked
<1>6. Len(k) >= 2 => 1 \in 1 .. Len(Tail(k)) /\ Tail(k)[1] = k[2] /\ k2[2] = k[2]
  <2>1. Len(k) >= 2 => 1 \in 1 .. Len(k) - 1 /\ 1 + 1 = 2 /\ 2 \in 1 .. Len(k) /\ 2 > 1
    BY <1>1
  <2> QED
    BY <1>1, <1>4, <2>1
<1>7. Linked(k) => Linked(k2)
  <2>1. Linked(k) => Linked(Tail(k))
    BY TailLinked
  <2>2. Linked(k) => Len(Tail(k)) >= 1 /\ Tail(k)[1].kind = "routes"
    BY <1>1, <1>5, <1>6
  <2> QED
    BY <1>1, <1>2, <2>1, <2>2, ConsLinked
<1>8. ASSUME NEW pre, Fits(k, pre) PROVE Fits(k2, pre)
  <2>1. Len(k2) = Len(k) /\ k2[1].kind = "chain" /\ k[1].kind = "chain"
    BY <1>1, <1>2, <1>3
  <2> QED
    BY <1>1, <1>6, <1>8, <2>1 DEF Fits
<1>9. ASSUME NEW s, NEW d, NEW t, NEW p, Good(s, d, t, p, k) PROVE Good(s, d, t, p, k2)
  <2>1. Under(k, p) => Under(k2, p)
    BY <1>1, <1>2, TailLinked, ConsLinked
  <2>2. RootLevel(k) => RootLevel(k2)
    BY <1>1, <1>2, TailLinked, ConsLinked
  <2> QED
    BY <1>7, <1>9, <2>1, <2>2 DEF Good
<1> QED
  BY <1>1, <1>2, <1>3, <1>4, <1>5, <1>7, <1>8, <1>9

\* Into a router: its pipeline and its routes come first.
LEMMA RouterHandleIs ==
    ASSUME NEW r \in Routers, NEW p \in Seq(Segments), NEW k \in Seq(Elements)
    PROVE  /\ RouterHandle(r, p, k) \in Seq(Elements)
           /\ Linked(k) /\ (Len(k) >= 1 => k[1].kind \in {"back", "outer"})
              => Linked(RouterHandle(r, p, k))
           /\ \A q : Under(k, q) /\ IsPrefix(p, q) => Under(RouterHandle(r, p, k), q)
           /\ RootLevel(k) /\ p = << >> => RootLevel(RouterHandle(r, p, k))
           /\ \A pre : InForce(pre) = p => Fits(RouterHandle(r, p, k), pre)
<1> DEFINE m == <<RouteTail(r, p)>> \o k
<1> DEFINE h == <<Chain(r, 1)>> \o m
<1>1. /\ RouteTail(r, p) \in Elements /\ RouteTail(r, p).kind = "routes"
      /\ RouteTail(r, p).prefix = p
      /\ Chain(r, 1) \in Elements /\ Chain(r, 1).kind = "chain"
  BY ElementsMade DEF RouteTail, Chain
<1>2. RouterHandle(r, p, k) = h
  BY <1>1 DEF RouterHandle
<1>3. m \in Seq(Elements) /\ Len(m) = Len(k) + 1 /\ Len(k) \in Nat /\ m[1] = RouteTail(r, p)
  BY <1>1, ConsIs
<1>4. h \in Seq(Elements) /\ Len(h) = Len(m) + 1 /\ h[1] = Chain(r, 1)
      /\ \A i \in 1 .. Len(m) : h[i + 1] = m[i]
  <2> HIDE DEF m
  <2> QED
    BY <1>1, <1>3, ConsIs
<1>5. h[2] = RouteTail(r, p) /\ Len(h) >= 2
  <2> HIDE DEF h, m
  <2>1. 1 \in 1 .. Len(m) /\ 1 + 1 = 2 /\ Len(h) >= 2
    BY <1>3, <1>4
  <2> QED
    BY <1>3, <1>4, <2>1
<1>6. ASSUME Linked(k), Len(k) >= 1 => k[1].kind \in {"back", "outer"} PROVE Linked(h)
  <2>1. Linked(m)
    BY <1>1, <1>6, ConsLinked
  <2>2. Len(m) >= 1 /\ m[1].kind = "routes"
    BY <1>1, <1>3
  <2> HIDE DEF m
  <2> QED
    BY <1>1, <1>3, <2>1, <2>2, ConsLinked
<1>7. ASSUME NEW q, Under(k, q), IsPrefix(p, q) PROVE Under(h, q)
  <2>1. Under(m, q)
    BY <1>1, <1>7, ConsLinked
  <2> HIDE DEF m
  <2> QED
    BY <1>1, <1>3, <2>1, ConsLinked
<1>8. ASSUME RootLevel(k), p = << >> PROVE RootLevel(h)
  <2>1. RootLevel(m)
    BY <1>1, <1>8, ConsLinked
  <2> HIDE DEF m
  <2> QED
    BY <1>1, <1>3, <2>1, ConsLinked
<1>9. ASSUME NEW pre, InForce(pre) = p PROVE Fits(h, pre)
  <2> HIDE DEF h, m
  <2> QED
    BY <1>1, <1>4, <1>5, <1>9 DEF Fits
<1> HIDE DEF h, m
<1> QED
  BY <1>2, <1>4, <1>6, <1>7, <1>8, <1>9

\* The rest of a pipeline and its routes, below the return into them.
LEMMA BackIs ==
    ASSUME NEW s \in SavedPrefixes, NEW k \in Seq(Elements), k # << >>, k[1].kind = "chain"
    PROVE  /\ <<ChildNext(s)>> \o k \in Seq(Elements)
           /\ Len(<<ChildNext(s)>> \o k) >= 1
           /\ (<<ChildNext(s)>> \o k)[1].kind = "back"
           /\ Linked(k) /\ Fits(k, s) => Linked(<<ChildNext(s)>> \o k)
           /\ \A p : Under(k, p) => Under(<<ChildNext(s)>> \o k, p)
<1>1. ChildNext(s) \in Elements /\ ChildNext(s).kind = "back" /\ ChildNext(s).saved = s
  BY ElementsMade DEF ChildNext
<1>2. /\ <<ChildNext(s)>> \o k \in Seq(Elements)
      /\ Len(<<ChildNext(s)>> \o k) = Len(k) + 1 /\ Len(k) \in Nat
      /\ (<<ChildNext(s)>> \o k)[1] = ChildNext(s)
  BY <1>1, ConsIs
<1>3. ASSUME Linked(k), Fits(k, s) PROVE Linked(<<ChildNext(s)>> \o k)
  <2>1. 1 \in 1 .. Len(k) /\ 1 + 1 = 2 /\ Len(k) >= 1
    BY <1>2
  <2>2. Len(k) >= 2 /\ k[2].kind = "routes"
    BY <1>3, <2>1 DEF Linked
  <2>3. k[2].prefix = InForce(s)
    BY <1>3, <2>2 DEF Fits
  <2> QED
    BY <1>1, <1>3, <2>1, <2>2, <2>3, ConsLinked
<1>4. \A p : Under(k, p) => Under(<<ChildNext(s)>> \o k, p)
  BY <1>1, ConsLinked
<1> QED
  BY <1>1, <1>2, <1>3, <1>4

\* Past the pipeline, past the routes and back in the parent, the prefix fits.
LEMMA FitsTail ==
    ASSUME NEW k \in Seq(Elements), k # << >>, Linked(k), NEW pre,
           \/ Head(k).kind \in {"chain", "routes"} /\ Fits(k, pre)
           \/ Head(k).kind = "back" /\ pre = Head(k).saved
    PROVE  Fits(Tail(k), pre)
<1>1. /\ Len(k) \in Nat /\ Len(k) >= 1
      /\ Head(k) = k[1]
      /\ Len(Tail(k)) = Len(k) - 1
      /\ \A i \in 1 .. Len(k) - 1 : Tail(k)[i] = k[i + 1]
  BY TailIs
<1>2. /\ 1 \in 1 .. Len(k)
      /\ Len(k) >= 2 => Tail(k)[1] = k[2]
      /\ Len(k) >= 3 => Tail(k)[2] = k[3]
  <2>1. /\ 1 \in 1 .. Len(k) /\ 1 + 1 = 2 /\ 2 + 1 = 3
        /\ Len(k) >= 2 => 1 \in 1 .. Len(k) - 1
        /\ Len(k) >= 3 => 2 \in 1 .. Len(k) - 1
    BY <1>1
  <2> QED
    BY <1>1, <2>1
<1>3. /\ Len(Tail(k)) >= 1 <=> Len(k) >= 2
      /\ Len(Tail(k)) >= 2 <=> Len(k) >= 3
      /\ Len(k) >= 3 => Len(k) >= 2
      /\ 1 + 1 = 2 /\ 1 + 2 = 3
      /\ (1 + 1 <= Len(k) <=> Len(k) >= 2) /\ (1 + 2 <= Len(k) <=> Len(k) >= 3)
  BY <1>1
<1>4. /\ k[1].kind = "chain" => Len(k) >= 2 /\ k[2].kind = "routes"
      /\ k[1].kind = "routes" /\ Len(k) >= 2 => k[2].kind \in {"back", "outer"}
      /\ k[1].kind = "back" =>
            /\ Len(k) >= 3 /\ k[2].kind = "chain" /\ k[3].kind = "routes"
            /\ k[3].prefix = InForce(k[1].saved)
  BY <1>2, <1>3 DEF Linked
<1>5. CASE k[1].kind = "chain"
  <2>1. Fits(k, pre)
    BY <1>1, <1>5
  <2>2. InForce(pre) = k[2].prefix
    BY <1>3, <1>4, <1>5, <2>1 DEF Fits
  <2> QED
    BY <1>2, <1>3, <1>4, <1>5, <2>2 DEF Fits
<1>6. CASE k[1].kind = "routes"
  BY <1>2, <1>3, <1>4, <1>6 DEF Fits
<1>7. CASE k[1].kind = "back"
  BY <1>1, <1>2, <1>3, <1>4, <1>7 DEF Fits
<1> QED
  BY <1>1, <1>5, <1>6, <1>7

-----------------------------------------------------------------------------
(* The tables. *)

\* A mount of a table has a prefix and a router of its own.
LEMMA MountIs ==
    ASSUME ConfigInv, NEW r \in Routers, NEW i \in Nat \ {0}, i <= Len(Pipeline(r)),
           Pipeline(r)[i].kind = "mount"
    PROVE  /\ Pipeline(r)[i].prefix \in Seq(Segments)
           /\ Pipeline(r)[i].child \in Routers
<1>1. Pipeline(r) \in Seq(Entries)
  BY TablesAssumption DEF ConfigInv, Pipeline
<1>2. Pipeline(r)[i] \in Entries
  BY <1>1
<1> QED
  BY <1>2 DEF Entries, Middleware

\* The prefix in force, and the one a mounted router is under.
LEMMA PrefixesAre ==
    ASSUME prefix \in SavedPrefixes
    PROVE  /\ CurrentPrefix = InForce(prefix) /\ CurrentPrefix \in Seq(Segments)
           /\ \A q \in Seq(Segments) : JoinPrefix(CurrentPrefix, q) \in Seq(Segments)
           /\ \A q \in Seq(Segments) : InForce(q) = q /\ q \in SavedPrefixes
           /\ InForce(None) = << >>
<1>1. CurrentPrefix = InForce(prefix) /\ CurrentPrefix \in Seq(Segments)
  BY DEF CurrentPrefix, InForce, SavedPrefixes
<1>2. \A q \in Seq(Segments) : JoinPrefix(CurrentPrefix, q) \in Seq(Segments)
  BY <1>1 DEF JoinPrefix
<1>3. \A q \in Seq(Segments) : InForce(q) = q /\ q \in SavedPrefixes
  BY NoneAssumption DEF InForce, SavedPrefixes
<1> QED
  BY <1>1, <1>2, <1>3 DEF InForce

\* A path has a finite number of characters.
LEMMA LengthIs ==
    ASSUME NEW p \in Seq(Segments)
    PROVE  IsFiniteSet(Characters(p)) /\ Length(p) \in Nat
<1> DEFINE own(i) == {i} \X (0..Size(p[i]))
<1> DEFINE sets == {own(i) : i \in DOMAIN p}
<1> DEFINE f == [i \in DOMAIN p |-> own(i)]
<1>1. DOMAIN p = 1 .. Len(p) /\ Len(p) \in Nat
  OBVIOUS
<1>2. IsFiniteSet(DOMAIN p)
  BY <1>1, FS_Interval
<1>3. IsFiniteSet(sets)
  <2>1. f \in Surjection(DOMAIN p, sets)
    <3> HIDE DEF own
    <3> QED
      BY DEF Surjection
  <2> HIDE DEF f, sets
  <2> QED
    BY <1>2, <2>1, FS_Surjection
<1>4. ASSUME NEW i \in DOMAIN p PROVE IsFiniteSet(own(i))
  <2>1. Size(p[i]) \in Nat
    <3>1. p[i] \in Segments
      OBVIOUS
    <3> QED
      BY <3>1, CharactersAssumption
  <2>2. IsFiniteSet(0..Size(p[i])) /\ IsFiniteSet({i})
    <3>1. 0 \in Int /\ Size(p[i]) \in Int
      BY <2>1
    <3> QED
      BY <3>1, FS_Interval, FS_Singleton
  <2> QED
    BY <2>2, FS_Product
<1>5. \A c \in sets : IsFiniteSet(c)
  <2> HIDE DEF own
  <2> QED
    BY <1>4
<1>6. IsFiniteSet(UNION sets)
  <2> HIDE DEF sets
  <2> QED
    BY <1>3, <1>5, FS_UNION
<1>7. IsFiniteSet(Characters(p))
  BY <1>6 DEF Characters
<1> QED
  BY <1>7, FS_CardinalityType DEF Length

\* One more segment adds its slash and its characters.
LEMMA LongerBy ==
    ASSUME NEW p \in Seq(Segments), NEW i \in Nat, i + 1 <= Len(p)
    PROVE  /\ Size(p[i + 1]) \in Nat
           /\ Length(SubSeq(p, 1, i + 1)) = Length(SubSeq(p, 1, i)) + Size(p[i + 1]) + 1
<1>1. Len(p) \in Nat /\ DOMAIN p = 1 .. Len(p) /\ i + 1 \in 1 .. Len(p)
  OBVIOUS
<1>2. Size(p[i + 1]) \in Nat
  <2>1. p[i + 1] \in Segments
    BY <1>1
  <2> QED
    BY <2>1, CharactersAssumption
<1>3. PICK q : q = SubSeq(p, 1, i)
  OBVIOUS
<1>4. PICK r : r = SubSeq(p, 1, i + 1)
  OBVIOUS
<1>5. /\ q \in Seq(Segments) /\ r \in Seq(Segments)
      /\ DOMAIN q = 1 .. i /\ DOMAIN r = 1 .. i + 1
      /\ \A j \in 1 .. i : q[j] = p[j]
      /\ \A j \in 1 .. i + 1 : r[j] = p[j]
  <2>1. q = [j \in 1 .. i |-> p[j]] /\ r = [j \in 1 .. i + 1 |-> p[j]]
    <3>1. \A n \in Nat : n - 1 + 1 = n /\ \A j \in 1 .. n : 1 + j - 1 = j
      OBVIOUS
    <3>2. i \in Nat /\ i + 1 \in Nat
      OBVIOUS
    <3> QED
      BY <1>3, <1>4, <3>1, <3>2
  <2>2. \A j \in 1 .. i + 1 : p[j] \in Segments
    BY <1>1
  <2> QED
    BY <2>1, <2>2, FunctionIsSeq
<1> DEFINE new == {i + 1} \X (0..Size(p[i + 1]))
<1>6. Characters(r) = Characters(q) \cup new
  <2> DEFINE own(j) == {j} \X (0..Size(p[j]))
  <2>1. Characters(q) = UNION {own(j) : j \in 1 .. i}
    BY <1>5 DEF Characters
  <2>2. Characters(r) = UNION {own(j) : j \in 1 .. i + 1}
    BY <1>5 DEF Characters
  <2>3. 1 .. i + 1 = (1 .. i) \cup {i + 1}
    OBVIOUS
  <2>4. new = own(i + 1)
    OBVIOUS
  <2> HIDE DEF new, own
  <2> QED
    BY <2>1, <2>2, <2>3, <2>4
<1>7. Characters(q) \cap new = {}
  <2>1. \A c \in Characters(q) : c[1] \in 1 .. i
    BY <1>5 DEF Characters
  <2>2. \A c \in new : c[1] = i + 1
    OBVIOUS
  <2>3. i + 1 \notin 1 .. i
    OBVIOUS
  <2> HIDE DEF new
  <2> QED
    BY <2>1, <2>2, <2>3
<1>8. IsFiniteSet(new) /\ Cardinality(new) = Size(p[i + 1]) + 1
  <2> DEFINE own == 0..Size(p[i + 1])
  <2>1. IsFiniteSet(own) /\ Cardinality(own) = Size(p[i + 1]) + 1
    BY <1>2, FS_Interval
  <2>2. IsFiniteSet({i + 1}) /\ Cardinality({i + 1}) = 1
    BY FS_Singleton
  <2> HIDE DEF own
  <2>3. IsFiniteSet({i + 1} \X own) /\ Cardinality({i + 1} \X own) = 1 * Cardinality(own)
    BY <2>1, <2>2, FS_Product
  <2> QED
    BY <1>2, <2>1, <2>3 DEF own
<1>9. IsFiniteSet(Characters(q)) /\ Length(q) \in Nat
  BY <1>5, LengthIs
<1>10. Cardinality(Characters(q) \cup new)
         = Cardinality(Characters(q)) + Cardinality(new) - Cardinality(Characters(q) \cap new)
  <2> HIDE DEF new
  <2> QED
    BY <1>8, <1>9, FS_Union
<1>11. Cardinality(Characters(q) \cap new) = 0
  BY <1>7, FS_EmptySet
<1>12. Length(r) = Length(q) + (Size(p[i + 1]) + 1)
  <2> HIDE DEF new
  <2> QED
    BY <1>2, <1>6, <1>8, <1>9, <1>10, <1>11 DEF Length
<1> QED
  BY <1>2, <1>3, <1>4, <1>9, <1>12

\* Where the first n characters of a path end.
LEMMA EndsWithin ==
    ASSUME NEW p \in Seq(Segments), NEW n \in Nat
    PROVE  /\ Within(p, n) \in 0 .. Len(p)
           /\ Into(p, n) \in Nat
           /\ Within(p, n) = Len(p) => Length(p) <= n
           /\ Within(p, n) < Len(p) => Into(p, n) <= Size(p[Within(p, n) + 1])
           /\ Within(p, n) < Len(p) => Size(p[Within(p, n) + 1]) \in Nat
<1> DEFINE S == {i \in 0 .. Len(p) : Length(SubSeq(p, 1, i)) <= n}
<1>1. Len(p) \in Nat /\ S \in SUBSET (0 .. Len(p))
  OBVIOUS
<1>2. 0 \in S
  <2>1. SubSeq(p, 1, 0) = << >>
    OBVIOUS
  <2>2. Characters(<< >>) = {}
    BY DEF Characters
  <2>3. Length(SubSeq(p, 1, 0)) = 0
    BY <2>1, <2>2, FS_EmptySet DEF Length
  <2> QED
    BY <1>1, <2>3
<1>3. PICK w : w = Within(p, n)
  OBVIOUS
<1>4. w \in S /\ \A i \in S : i <= w
  <2>1. Within(p, n) = Max(S)
    BY DEF Within
  <2> HIDE DEF S
  <2>2. \E m \in S : \A i \in S : i <= m
    BY <1>1, <1>2, GreatestOf
  <2>3. \A m, i \in S : i <= m <=> m >= i
    BY <1>1
  <2>4. Max(S) \in S /\ \A i \in S : Max(S) >= i
    BY <2>2, <2>3 DEF Max
  <2> QED
    BY <1>3, <2>1, <2>3, <2>4
<1>5. w \in 0 .. Len(p) /\ Length(SubSeq(p, 1, w)) <= n
  BY <1>4
<1>6. Length(SubSeq(p, 1, w)) \in Nat
  <2>1. SubSeq(p, 1, w) \in Seq(Segments)
    BY <1>5, SubSeqProperties
  <2> QED
    BY <2>1, LengthIs
<1>7. Into(p, n) = n - Length(SubSeq(p, 1, w)) /\ Into(p, n) \in Nat
  BY <1>3, <1>5, <1>6 DEF Into
<1>8. ASSUME w = Len(p) PROVE Length(p) <= n
  <2>1. SubSeq(p, 1, Len(p)) = p
    OBVIOUS
  <2> QED
    BY <1>5, <1>8, <2>1
<1>9. ASSUME w < Len(p) PROVE Into(p, n) <= Size(p[w + 1]) /\ Size(p[w + 1]) \in Nat
  <2>1. w \in Nat /\ w + 1 <= Len(p) /\ w + 1 \in 0 .. Len(p)
    BY <1>1, <1>5, <1>9
  <2>2. /\ Size(p[w + 1]) \in Nat
        /\ Length(SubSeq(p, 1, w + 1)) = Length(SubSeq(p, 1, w)) + Size(p[w + 1]) + 1
    BY <2>1, LongerBy
  <2>3. w + 1 \notin S
    BY <1>4, <2>1
  <2>4. ~(Length(SubSeq(p, 1, w + 1)) <= n)
    BY <2>1, <2>3
  <2> HIDE DEF S
  <2> QED
    BY <1>6, <1>7, <2>2, <2>4
<1> QED
  BY <1>3, <1>5, <1>7, <1>8, <1>9

\* What is left of a path is nothing or its last segments, the first of which may
\* be cut unless the path has the prefix.
LEMMA LeftOver ==
    ASSUME path \in Seq(Segments), NEW at \in Seq(Segments), ~OutOfRange(at),
           MatchesPrefix(path, at) \/ Length(path) # Length(at),
           NEW rel, rel = RelativePath(path, at), rel # << >>
    PROVE  \E d \in 0 .. Len(path) - 1 :
              /\ Len(rel) = Len(path) - d
              /\ \A j \in 1 .. Len(rel) :
                    \/ rel[j] = path[d + j]
                    \/ /\ j = 1 /\ ~MatchesPrefix(path, at)
                       /\ \E k \in 0 .. Size(path[d + 1]) : rel[1] = Dropped(path[d + 1], k)
<1>1. PICK p \in Seq(Segments) : p = path
  OBVIOUS
<1>2. Len(p) \in Nat /\ DOMAIN p = 1 .. Len(p) /\ Len(at) \in Nat
  OBVIOUS
\* Where no segment is cut.
<1>3. ASSUME NEW d \in 0 .. Len(p), rel = NormalizePath(SubSeq(p, d + 1, Len(p)))
      PROVE  /\ d \in 0 .. Len(p) - 1 /\ Len(rel) = Len(p) - d
             /\ \A j \in 1 .. Len(rel) : rel[j] = p[d + j]
  <2>1. PICK rest : rest = SubSeq(p, d + 1, Len(p))
    OBVIOUS
  <2>2. rel = rest
    BY <1>3, <2>1 DEF NormalizePath
  <2>3. d # Len(p)
    <3>1. SubSeq(p, Len(p) + 1, Len(p)) = << >>
      BY <1>2
    <3> QED
      BY <2>1, <2>2, <3>1
  <2>4. d \in 0 .. Len(p) - 1 /\ d + 1 \in 1 .. Len(p) /\ Len(p) - d \in Nat
    <3>1. Len(p) \in Nat /\ d \in Nat /\ d <= Len(p)
      BY <1>2
    <3> QED
      BY <2>3, <3>1
  <2>5. rest = [i \in 1 .. (Len(p) - (d + 1) + 1) |-> p[(d + 1) + i - 1]]
    BY <2>1
  <2>6. Len(p) - (d + 1) + 1 = Len(p) - d /\ \A i \in 1 .. Len(p) - d : (d + 1) + i - 1 = d + i
    BY <1>2, <2>4
  <2>7. rest = [i \in 1 .. Len(p) - d |-> p[d + i]]
    BY <2>5, <2>6
  <2>8. Len(rest) = Len(p) - d
    BY <2>4, <2>7
  <2> QED
    BY <2>2, <2>4, <2>7, <2>8
<1>4. CASE MatchesPrefix(p, at)
  <2>1. rel = NormalizePath(SubSeq(p, Len(at) + 1, Len(p)))
    BY <1>1, <1>4 DEF RelativePath
  <2>2. Len(at) \in 0 .. Len(p)
    <3>1. Len(at) <= Len(p)
      BY <1>2, <1>4 DEF MatchesPrefix, IsPrefix
    <3> QED
      BY <1>2, <3>1
  <2> QED
    BY <1>1, <1>3, <2>1, <2>2
<1>5. CASE ~MatchesPrefix(p, at)
  <2>1. PICK n \in Nat : n = Length(at)
    BY LengthIs
  <2>2. Length(p) \in Nat /\ ~(Length(p) <= n)
    <3>1. Length(p) \in Nat
      BY LengthIs
    <3> QED
      BY <1>1, <1>5, <2>1, <3>1 DEF OutOfRange
  <2>3. PICK i, k : i = Within(p, n) /\ k = Into(p, n)
    OBVIOUS
  <2>4. /\ i \in Nat /\ i < Len(p) /\ k \in Nat
        /\ k <= Size(p[i + 1]) /\ Size(p[i + 1]) \in Nat
    <3>1. /\ i \in 0 .. Len(p) /\ k \in Nat
          /\ i = Len(p) => Length(p) <= n
          /\ i < Len(p) => k <= Size(p[i + 1]) /\ Size(p[i + 1]) \in Nat
      BY <2>3, EndsWithin
    <3>2. i # Len(p)
      BY <2>2, <3>1
    <3>3. i \in Nat /\ i < Len(p)
      <4>1. Len(p) \in Nat /\ i \in 0 .. Len(p)
        BY <1>2, <3>1
      <4> QED
        BY <3>2, <4>1
    <3> QED
      BY <3>1, <3>3
  <2>5. rel = IF k = 0 THEN NormalizePath(SubSeq(p, i + 1, Len(p)))
              ELSE <<Dropped(p[i + 1], k - 1)>> \o SubSeq(p, i + 2, Len(p))
    BY <1>1, <1>5, <2>1, <2>3 DEF RelativePath
  <2>6. CASE k = 0
    <3>1. i \in 0 .. Len(p)
      BY <1>2, <2>4
    <3> QED
      BY <1>1, <1>3, <2>5, <2>6, <3>1
  <2>7. CASE k # 0
    <3>1. PICK first : first = Dropped(p[i + 1], k - 1)
      OBVIOUS
    <3>2. PICK rest : rest = SubSeq(p, i + 2, Len(p))
      OBVIOUS
    <3>3. k - 1 \in 0 .. Size(p[i + 1]) /\ i + 1 \in 1 .. Len(p)
      BY <1>2, <2>4, <2>7
    <3>4. first \in Segments
      <4>1. p[i + 1] \in Segments
        BY <1>2, <3>3
      <4> QED
        BY <3>1, <3>3, <4>1, CharactersAssumption
    <3>a. Len(p) \in Nat /\ i \in Nat /\ i < Len(p)
      BY <1>2, <2>4
    <3>5. PICK m \in Nat : m = Len(p) - (i + 1)
      <4>1. Len(p) - (i + 1) \in Nat
        BY <3>a
      <4> QED
        BY <4>1
    <3>6. /\ rest \in Seq(Segments) /\ Len(rest) = m
          /\ \A j \in 1 .. m : rest[j] = p[(i + 1) + j]
      <4>1. rest = [j \in 1 .. (Len(p) - (i + 2) + 1) |-> p[(i + 2) + j - 1]]
        <5>1. i + 2 \in Nat /\ Len(p) \in Nat
          BY <3>a
        <5> QED
          BY <3>2, <5>1
      <4>2. Len(p) - (i + 2) + 1 = m /\ \A j \in 1 .. m : (i + 2) + j - 1 = (i + 1) + j
        BY <1>2, <2>4, <3>5
      <4>3. rest = [j \in 1 .. m |-> p[(i + 1) + j]]
        BY <4>1, <4>2
      <4>4. \A j \in 1 .. m : (i + 1) + j \in 1 .. Len(p)
        BY <1>2, <2>4, <3>5
      <4>5. \A j \in 1 .. m : p[(i + 1) + j] \in Segments
        BY <1>2, <4>4
      <4> QED
        BY <4>3, <4>5, FunctionIsSeq
    <3>7. rel = <<first>> \o rest
      BY <2>5, <2>7, <3>1, <3>2
    <3>8. /\ Len(rel) = m + 1 /\ rel[1] = first
          /\ \A j \in 1 .. m : rel[j + 1] = rest[j]
      <4>1. <<first>> \in Seq(Segments) /\ Len(<<first>>) = 1 /\ <<first>>[1] = first
        BY <3>4
      <4>2. Len(<<first>> \o rest) = 1 + m
        BY <3>6, <4>1
      <4>3. \A j \in 1 .. 1 + m :
               (<<first>> \o rest)[j] = IF j <= 1 THEN <<first>>[j] ELSE rest[j - 1]
        BY <3>6, <4>1
      <4>4. 1 \in 1 .. 1 + m /\ m + 1 = 1 + m /\ 1 <= 1
        OBVIOUS
      <4>5. \A j \in 1 .. m : j + 1 \in 1 .. 1 + m /\ ~(j + 1 <= 1) /\ (j + 1) - 1 = j
        OBVIOUS
      <4> QED
        BY <3>7, <4>1, <4>2, <4>3, <4>4, <4>5
    <3>9. i \in 0 .. Len(p) - 1 /\ Len(rel) = Len(p) - i
      BY <1>2, <2>4, <3>5, <3>8
    <3>10. ASSUME NEW j \in 1 .. Len(rel), j # 1 PROVE rel[j] = p[i + j]
      <4>1. PICK l \in 1 .. m : j = l + 1
        <5>1. j - 1 \in 1 .. m /\ j = (j - 1) + 1
          BY <3>8, <3>10
        <5> QED
          BY <5>1
      <4>2. (i + 1) + l = i + j
        BY <2>4, <4>1
      <4> QED
        BY <3>6, <3>8, <4>1, <4>2
    <3>11. \E l \in 0 .. Size(p[i + 1]) : rel[1] = Dropped(p[i + 1], l)
      BY <3>1, <3>3, <3>8
    <3> QED
      BY <1>1, <1>5, <3>9, <3>10, <3>11
  <2> QED
    BY <2>6, <2>7
<1> QED
  BY <1>1, <1>4, <1>5

\* A dynamic route that is found has the segments that are left of the path.
LEMMA BucketIs ==
    ASSUME ConfigInv, NEW r \in Routers, NEW at \in Seq(Segments), ~OutOfRange(at),
           touched # "path" => MatchesPrefix(path, at),
           NEW b \in Bucket(r, at), IsDynamic(b.path),
           NEW rel, rel = RelativePath(path, at)
    PROVE  /\ Len(b.path) \in Nat /\ DOMAIN b.path = 1 .. Len(b.path)
           /\ MatchesPattern(b.path, rel)
           /\ \A j \in 1 .. Len(b.path) : rel[j] \in StandsFor(b.path, j)
<1> DEFINE dynamic == table[r].dynamic
<1> DEFINE patterns == [i \in DOMAIN dynamic |-> dynamic[i].path]
<1> DEFINE best == BestDynamic(patterns, rel)
<1>1. path \in Seq(Segments) /\ Len(path) \in Nat
  BY DEF ConfigInv
<1>2. dynamic \in Seq(Routes) /\ \A s \in table[r].static : ~IsDynamic(s.path)
  BY TablesAssumption DEF ConfigInv
<1>3. /\ MatchesPrefix(path, at) \/ Length(path) # Length(at)
      /\ b \in FindBucket(r, rel) \/ b \in FindDynamic(r, rel)
  BY DEF Bucket
<1>4. b = dynamic[best] /\ best # 0
  BY <1>2, <1>3 DEF FindBucket, FindDynamic
<1>5. Len(dynamic) \in Nat /\ DOMAIN dynamic = 1 .. Len(dynamic)
  BY <1>2
<1>6. best \in 1 .. Len(dynamic) /\ MatchesPattern(patterns[best], rel)
  <2>1. DOMAIN patterns = 1 .. Len(dynamic)
    BY <1>5
  <2>2. \A i \in 1 .. Len(dynamic) : LiteralCount(patterns[i]) \in Nat
    <3>1. ASSUME NEW i \in 1 .. Len(dynamic) PROVE patterns[i] \in Seq(Segments \cup Params)
      <4>1. dynamic[i] \in Routes
        <5> HIDE DEF dynamic
        <5> QED
          BY <1>2, <1>5
      <4>2. patterns[i] = dynamic[i].path
        BY <1>5
      <4> HIDE DEF dynamic, patterns
      <4> QED
        BY <4>1, <4>2 DEF Routes
    <3> HIDE DEF patterns
    <3> QED
      BY <3>1, LiteralCountIs
  <2> HIDE DEF patterns
  <2> QED
    BY <1>4, <1>5, <2>1, <2>2, BestDynamicIs DEF IsBest
<1>7. patterns[best] = b.path
  BY <1>4, <1>5, <1>6
<1>8. b.path \in Seq(Segments \cup Params)
  <2>1. b \in Routes
    <3> HIDE DEF best, dynamic
    <3> QED
      BY <1>2, <1>4, <1>5, <1>6
  <2> QED
    BY <2>1 DEF Routes
<1>9. MatchesPattern(b.path, rel) /\ Len(b.path) \in Nat /\ DOMAIN b.path = 1 .. Len(b.path)
  <2> HIDE DEF patterns, best
  <2>1. MatchesPattern(b.path, rel)
    BY <1>6, <1>7
  <2>2. Len(b.path) \in Nat /\ DOMAIN b.path = 1 .. Len(b.path)
    BY <1>8
  <2> QED
    BY <2>1, <2>2
<1>10. Len(rel) = Len(b.path) /\ rel # << >>
  BY <1>9 DEF MatchesPattern, IsDynamic
<1> HIDE DEF patterns, best, dynamic
<1>11. PICK d \in 0 .. Len(path) - 1 :
          /\ Len(rel) = Len(path) - d
          /\ \A j \in 1 .. Len(rel) :
                \/ rel[j] = path[d + j]
                \/ /\ j = 1 /\ ~MatchesPrefix(path, at)
                   /\ \E k \in 0 .. Size(path[d + 1]) : rel[1] = Dropped(path[d + 1], k)
  BY <1>1, <1>3, <1>10, LeftOver
<1>12. d = Len(path) - Len(b.path)
  BY <1>1, <1>9, <1>10, <1>11
<1>13. ASSUME NEW j \in 1 .. Len(b.path) PROVE rel[j] \in StandsFor(b.path, j)
  <2>1. CASE rel[j] = path[d + j]
    BY <1>12, <2>1 DEF StandsFor
  <2>2. CASE /\ j = 1 /\ ~MatchesPrefix(path, at)
             /\ \E k \in 0 .. Size(path[d + 1]) : rel[1] = Dropped(path[d + 1], k)
    <3>1. touched = "path"
      BY <2>2
    <3> QED
      BY <1>12, <2>2, <3>1 DEF StandsFor
  <2> QED
    BY <1>10, <1>11, <2>1, <2>2
<1> QED
  BY <1>9, <1>13

\* What holds while nothing runs but routers.
LEMMA OutsideRoutes ==
    ASSUME TypeOK, ScopeInv, ParamsInv, mode # "at"
    PROVE  /\ \A j \in 1 .. Len(stack) :
                 stack[j].kind # "endpoint" /\ ~(IsHandler(stack[j]) /\ stack[j].calls = 0)
           /\ params = OutsideParams
<1>1. \A j \in 1 .. Len(stack) :
         stack[j].kind # "endpoint" /\ ~(IsHandler(stack[j]) /\ stack[j].calls = 0)
  BY DEF ScopeInv, ParamsInv
<1> QED
  BY <1>1 DEF ParamsInv

\* Steps that leave the parameters alone and start no endpoint.
LEMMA ParamsKept ==
    ASSUME TypeOK, ScopeInv, ParamsInv, mode # "at",
           touched' = touched, params' = params,
           \A j \in 1 .. Len(stack') : stack'[j].kind = "endpoint" =>
              \E i \in 1 .. Len(stack) : stack[i].kind = "endpoint"
    PROVE  ParamsInv'
<1>1. /\ \A j \in 1 .. Len(stack) : stack[j].kind # "endpoint"
      /\ params = OutsideParams
  BY OutsideRoutes
<1>2. \A j \in 1 .. Len(stack') : stack'[j].kind # "endpoint"
  BY <1>1
<1>3. OutsideParams' = OutsideParams
  BY DEF OutsideParams
<1> QED
  BY <1>1, <1>2, <1>3 DEF ParamsInv

-----------------------------------------------------------------------------
(* The invariant holds at the start and is kept by every step. *)

\* The inductive invariant holds before a request is handled.
LEMMA InitIInv == Init => IInv
<1> SUFFICES ASSUME Init PROVE IInv
  OBVIOUS
<1>1. TypeOK
  BY DEF Init, TypeOK, SavedPrefixes, NoNext
<1>2. ConfigInv
  BY PathsAssumption DEF Init, ConfigInv
<1>3. Len(stack) = 0
  BY DEF Init
<1>4. StackInv /\ ScopeInv /\ ParamsInv
  BY <1>3 DEF Init, StackInv, ScopeInv, ParamsInv, OutsideParams
<1> QED
  BY <1>1, <1>2, <1>4 DEF IInv

\* The configuration, where a step does not change it.
LEMMA ConfigKept ==
    ASSUME ConfigInv, config' = config
    PROVE  ConfigInv'
BY DEF ConfigInv, config

\* The application calls the root under the prefix of the context, which is none.
LEMMA HandleStep ==
    ASSUME IInv, Handle
    PROVE  IInv'
<1> DEFINE k == IF hasOuter THEN <<Outer>> ELSE NoNext
<1>1. /\ mode = "idle" /\ mode' = "down"
      /\ next' = RouterHandle(Root, CurrentPrefix, k)
      /\ config' = config /\ touched' = touched /\ path' = path
      /\ prefix' = prefix /\ params' = params /\ stack' = stack
  BY DEF Handle, Call, context, config
<1>2. TypeOK /\ ConfigInv /\ StackInv /\ ScopeInv /\ ParamsInv
  BY DEF IInv
<1>3. stack = << >> /\ Len(stack) = 0 /\ prefix = None
  BY <1>1, <1>2 DEF StackInv, MountWithin
<1>4. prefix \in SavedPrefixes /\ CurrentPrefix = << >> /\ << >> \in Seq(Segments)
  BY <1>2, <1>3 DEF TypeOK, CurrentPrefix
<1>5. /\ k \in Seq(Elements) /\ Linked(k) /\ RootLevel(k) /\ \A p : Under(k, p)
      /\ Len(k) >= 1 => k[1].kind \in {"back", "outer"}
  <2>1. CASE hasOuter
    <3>1. k = <<Outer>> /\ Outer \in Elements /\ Outer.kind = "outer"
      BY <2>1, ElementsMade DEF Outer
    <3> HIDE DEF k
    <3>2. k \in Seq(Elements) /\ Len(k) = 1 /\ k[1] = Outer
      BY <3>1
    <3>3. \A i \in 1 .. Len(k) : k[i].kind = "outer"
      BY <3>1, <3>2
    <3> QED
      BY <3>2, <3>3 DEF Linked, RootLevel, Under
  <2>2. CASE ~hasOuter
    <3>1. k = << >>
      BY <2>2 DEF NoNext
    <3> HIDE DEF k
    <3>2. k \in Seq(Elements) /\ Len(k) = 0
      BY <3>1
    <3> QED
      BY <3>2 DEF Linked, RootLevel, Under
  <2> QED
    BY <2>1, <2>2
<1> HIDE DEF k
<1>6. \A q : IsPrefix(<< >>, q)
  BY DEF IsPrefix
<1>7. /\ next' \in Seq(Elements) /\ Linked(next') /\ RootLevel(next')
      /\ Under(next', path) /\ Fits(next', prefix)
  <2>1. path \in Seq(Segments)
    BY <1>2 DEF ConfigInv
  <2>2. IsPrefix(<< >>, path)
    BY <2>1 DEF IsPrefix
  <2>3. InForce(prefix) = << >>
    BY <1>3 DEF InForce
  <2> QED
    BY <1>1, <1>4, <1>5, <2>2, <2>3, RootAssumption, RouterHandleIs
<1>8. TypeOK'
  BY <1>1, <1>2, <1>7 DEF TypeOK
<1>9. ConfigInv'
  BY <1>1, <1>2, ConfigKept
<1>10. StackInv'
  BY <1>1, <1>3, <1>7 DEF StackInv, Good
<1>11. ScopeInv'
  BY <1>1, <1>3, <1>7 DEF ScopeInv
<1>12. ParamsInv'
  BY <1>1, <1>2, <1>3, ParamsKept
<1> QED
  BY <1>8, <1>9, <1>10, <1>11, <1>12 DEF IInv

\* Nobody is left to call: the answer, or the exception, goes back.
LEMMA TurnsBack ==
    ASSUME IInv, mode = "down", mode' \in {"up", "fail"}, next' = << >>,
           config' = config, prefix' = prefix, params' = params, stack' = stack
    PROVE  IInv'
<1>1. touched' = touched /\ path' = path
  BY DEF config
<1>2. TypeOK /\ ConfigInv /\ StackInv /\ ScopeInv /\ ParamsInv
  BY DEF IInv
<1>3. TypeOK'
  BY <1>1, <1>2 DEF TypeOK
<1>4. ConfigInv'
  BY <1>1, <1>2, ConfigKept
<1>5. StackInv'
  BY <1>1, <1>2 DEF StackInv
<1>6. ScopeInv'
  BY <1>1, <1>2 DEF ScopeInv
<1>7. ParamsInv'
  BY <1>1, <1>2, ParamsKept
<1> QED
  BY <1>3, <1>4, <1>5, <1>6, <1>7 DEF IInv

\* The application goes on behind the root router.
LEMMA DispatchOuterStep ==
    ASSUME IInv, DispatchOuter
    PROVE  IInv'
BY TurnsBack DEF DispatchOuter, Respond, context, NoNext

\* Going on with the rest of a next function.
LEMMA GoesOn ==
    ASSUME IInv, mode = "down", mode' = "down",
           config' = config, params' = params, stack' = stack,
           next' \in Seq(Elements), prefix' \in SavedPrefixes,
           \A s, d, t, p : Good(s, d, t, p, next) => Good(s, d, t, p, next'),
           ~MountWithin(stack, Len(stack)) => prefix' = None,
           ~RetryWithin(stack, Len(stack)) => Fits(next', prefix')
    PROVE  IInv'
<1>1. touched' = touched /\ path' = path
  BY DEF config
<1>2. TypeOK /\ ConfigInv /\ StackInv /\ ScopeInv /\ ParamsInv
  BY DEF IInv
<1>3. TypeOK'
  BY <1>2 DEF TypeOK
<1>4. ConfigInv'
  BY <1>2, ConfigKept
<1>5. StackInv'
  BY <1>1, <1>2 DEF StackInv
<1>6. ScopeInv'
  BY <1>2 DEF ScopeInv
<1>7. ParamsInv'
  BY <1>1, <1>2, ParamsKept
<1> QED
  BY <1>3, <1>4, <1>5, <1>6, <1>7 DEF IInv

\* Pushed, of the stack.
LEMMA StackPushed ==
    ASSUME stack \in Seq(Frames), NEW f \in Frames, stack' = Append(stack, f)
    PROVE  /\ stack' \in Seq(Frames) /\ Len(stack) \in Nat /\ Len(stack') = Len(stack) + 1
           /\ stack'[Len(stack')] = f
           /\ \A i \in 1 .. Len(stack) : stack'[i] = stack[i]
           /\ MountWithin(stack', Len(stack')) <=> (MountWithin(stack, Len(stack)) \/ f.kind = "mount")
           /\ RetryWithin(stack, Len(stack)) => RetryWithin(stack', Len(stack'))
<1>2. PICK s2 : s2 = stack'
  OBVIOUS
<1>4. s2 = Append(stack, f)
  BY <1>2
<1>5. s2 \in Seq(Frames) /\ Len(stack) \in Nat /\ Len(s2) = Len(stack) + 1
  BY <1>4, Pushed
<1>6. s2[Len(s2)] = f
  BY <1>4, Pushed
<1>7. \A i \in 1 .. Len(stack) : s2[i] = stack[i]
  BY <1>4, Pushed
<1>8. MountWithin(s2, Len(s2)) <=> (MountWithin(stack, Len(stack)) \/ f.kind = "mount")
  BY <1>4, Pushed
<1>9. RetryWithin(stack, Len(stack)) => RetryWithin(s2, Len(s2))
  BY <1>4, Pushed
<1> QED
  BY <1>2, <1>5, <1>6, <1>7, <1>8, <1>9

\* A middleware or a fallback starts.
LEMMA HandlerStarts ==
    ASSUME IInv, mode = "down", mode' = "at",
           config' = config, params' = params, prefix' = prefix, next' = << >>,
           NEW f \in Frames, stack' = Append(stack, f),
           IsHandler(f),
           \A s, d, t, p : Good(s, d, t, p, next) => Good(s, d, t, p, f.next),
           ~RetryWithin(stack, Len(stack)) => Fits(f.next, prefix)
    PROVE  IInv'
<1>1. touched' = touched /\ path' = path
  BY DEF config
<1>2. TypeOK /\ ConfigInv /\ StackInv /\ ScopeInv /\ ParamsInv
  BY DEF IInv
<1>3. /\ stack' \in Seq(Frames) /\ Len(stack) \in Nat /\ Len(stack') = Len(stack) + 1
      /\ stack'[Len(stack')] = f
      /\ \A i \in 1 .. Len(stack) : stack'[i] = stack[i]
      /\ MountWithin(stack', Len(stack')) <=> (MountWithin(stack, Len(stack)) \/ f.kind = "mount")
      /\ RetryWithin(stack, Len(stack)) => RetryWithin(stack', Len(stack'))
  <2>1. stack \in Seq(Frames)
    BY <1>2 DEF TypeOK
  <2> QED
    BY <2>1, StackPushed
<1>4. f.kind \in {"mw", "fallback"}
  BY DEF IsHandler
<1>5. \A i \in 1 .. Len(stack') : i \in 1 .. Len(stack) \/ i = Len(stack')
  BY <1>3
<1>6. \A j \in 1 .. Len(stack') : FrameInv(stack', j, touched, path)
  <2>1. \A j \in 1 .. Len(stack) : FrameInv(stack, j, touched, path)
    BY <1>2 DEF StackInv
  <2>2. Good(stack, Len(stack), touched, path, f.next)
    BY <1>2 DEF StackInv
  <2> QED
    BY <1>2, <1>4, <2>1, <2>2, PushedFrames DEF TypeOK
<1>7. TypeOK'
  <2>1. stack' # << >>
    BY <1>3
  <2> QED
    BY <1>2, <1>3, <2>1 DEF TypeOK
<1>8. ConfigInv'
  BY <1>2, ConfigKept
<1>9. StackInv'
  BY <1>1, <1>2, <1>3, <1>4, <1>6 DEF StackInv
<1>10. ScopeInv'
  <2>1. ASSUME NEW j \in 1 .. Len(stack'), IsHandler(stack'[j]), stack'[j].calls = 0
        PROVE  j = Len(stack')
    BY <1>2, <1>3, <1>5, <2>1, OutsideRoutes
  <2> QED
    BY <1>3, <2>1 DEF ScopeInv
<1>11. ParamsInv'
  <2>1. \A j \in 1 .. Len(stack') : stack'[j].kind = "endpoint" =>
           \E i \in 1 .. Len(stack) : stack[i].kind = "endpoint"
    BY <1>3, <1>4, <1>5
  <2> QED
    BY <1>1, <1>2, <2>1, ParamsKept
<1> QED
  BY <1>7, <1>8, <1>9, <1>10, <1>11 DEF IInv

\* A child falls through to its parent, under the parent's prefix.
LEMMA LeaveChildStep ==
    ASSUME IInv, LeaveChild
    PROVE  IInv'
<1>1. /\ mode = "down" /\ mode' = "down" /\ next # << >> /\ Head(next).kind = "back"
      /\ prefix' = Head(next).saved /\ next' = Tail(next)
      /\ config' = config /\ params' = params /\ stack' = stack
  BY DEF LeaveChild, Call, NoNext
<1>2. TypeOK /\ ConfigInv /\ StackInv /\ ScopeInv /\ ParamsInv
  BY DEF IInv
<1>3. /\ next \in Seq(Elements) /\ Len(next) \in Nat /\ Len(next) >= 1
      /\ Head(next) = next[1] /\ next[1] \in Elements /\ Tail(next) \in Seq(Elements)
  <2>1. next \in Seq(Elements)
    BY <1>2 DEF TypeOK
  <2> QED
    BY <1>1, <2>1, TailIs
<1>4. Good(stack, Len(stack), touched, path, next)
  BY <1>1, <1>2 DEF StackInv
<1>5. MountWithin(stack, Len(stack))
  <2>1. 1 \in 1 .. Len(next)
    BY <1>3
  <2> QED
    BY <1>1, <1>3, <1>4, <2>1 DEF Good, RootLevel
<1>6. prefix' \in SavedPrefixes
  BY <1>1, <1>3, ElementKinds
<1>7. \A s, d, t, p : Good(s, d, t, p, next) => Good(s, d, t, p, next')
  BY <1>1, <1>3, GoodTail
<1>8. ~RetryWithin(stack, Len(stack)) => Fits(next', prefix')
  <2>1. ~RetryWithin(stack, Len(stack)) => Linked(next)
    BY <1>4 DEF Good
  <2> QED
    BY <1>1, <1>3, <2>1, FitsTail
<1> QED
  BY <1>1, <1>3, <1>5, <1>6, <1>7, <1>8, GoesOn

\* A pipeline starts a middleware, or ends.
LEMMA DispatchPipelineStep ==
    ASSUME IInv, DispatchPipeline
    PROVE  IInv'
<1> DEFINE c == Head(next)
<1> DEFINE rest == <<Chain(c.router, c.index + 1)>> \o Tail(next)
<1> DEFINE f == [kind |-> "mw", calls |-> 0, next |-> rest]
<1>1. /\ mode = "down" /\ next # << >> /\ c.kind = "chain"
      /\ config' = config /\ params' = params /\ prefix' = prefix
  BY DEF DispatchPipeline, NoNext, context
<1>2. \/ mode' = "down" /\ next' = Tail(next) /\ stack' = stack
      \/ mode' = "at" /\ next' = << >> /\ stack' = Append(stack, f)
  BY DEF DispatchPipeline, Call, Push, NoNext
<1>3. TypeOK /\ ConfigInv /\ StackInv /\ ScopeInv /\ ParamsInv
  BY DEF IInv
<1>4. next \in Seq(Elements) /\ prefix \in SavedPrefixes /\ Tail(next) \in Seq(Elements)
  <2>1. next \in Seq(Elements) /\ prefix \in SavedPrefixes
    BY <1>3 DEF TypeOK
  <2> QED
    BY <1>1, <2>1, TailIs
<1>5. /\ ~RetryWithin(stack, Len(stack)) => Fits(next, prefix) /\ Linked(next)
      /\ ~MountWithin(stack, Len(stack)) => prefix = None
  BY <1>1, <1>3 DEF StackInv, ScopeInv, Good
<1>6. CASE mode' = "down" /\ next' = Tail(next) /\ stack' = stack
  <2>1. \A s, d, t, p : Good(s, d, t, p, next) => Good(s, d, t, p, next')
    BY <1>1, <1>4, <1>6, GoodTail
  <2>2. ~RetryWithin(stack, Len(stack)) => Fits(next', prefix')
    BY <1>1, <1>4, <1>5, <1>6, FitsTail
  <2> HIDE DEF c
  <2> QED
    BY <1>1, <1>4, <1>5, <1>6, <2>1, <2>2, GoesOn
<1>7. CASE mode' = "at" /\ next' = << >> /\ stack' = Append(stack, f)
  <2>1. /\ rest \in Seq(Elements)
        /\ \A pre : Fits(next, pre) => Fits(rest, pre)
        /\ \A s, d, t, p : Good(s, d, t, p, next) => Good(s, d, t, p, rest)
    BY <1>1, <1>4, NextEntry
  <2> HIDE DEF c, rest
  <2>2. f \in Frames /\ IsHandler(f) /\ f.next = rest
    BY <2>1, BoundAssumption DEF Frames, IsHandler
  <2> HIDE DEF f
  <2>3. \A s, d, t, p : Good(s, d, t, p, next) => Good(s, d, t, p, f.next)
    BY <2>1, <2>2
  <2>4. ~RetryWithin(stack, Len(stack)) => Fits(f.next, prefix)
    BY <1>5, <2>1, <2>2
  <2> QED
    BY <1>1, <1>7, <2>2, <2>3, <2>4, HandlerStarts
<1> QED
  BY <1>2, <1>6, <1>7

\* A mount that matches is entered under the joined prefix, one that does not is passed.
LEMMA DispatchMountStep ==
    ASSUME IInv, DispatchMount
    PROVE  IInv'
<1> DEFINE c == Head(next)
<1> DEFINE m == Pipeline(c.router)[c.index]
<1> DEFINE rest == <<Chain(c.router, c.index + 1)>> \o Tail(next)
<1> DEFINE effective == JoinPrefix(CurrentPrefix, m.prefix)
<1> DEFINE f == [kind |-> "mount", saved |-> prefix]
<1> DEFINE back == <<ChildNext(prefix)>> \o rest
<1>1. /\ mode = "down" /\ mode' = "down" /\ next # << >> /\ c.kind = "chain"
      /\ c.index <= Len(Pipeline(c.router)) /\ m.kind = "mount"
      /\ config' = config /\ params' = params
  BY DEF DispatchMount, NoNext, Call
<1>2. \/ /\ MatchesPrefix(path, effective) /\ prefix' = effective
         /\ stack' = Append(stack, f) /\ next' = RouterHandle(m.child, effective, back)
      \/ next' = rest /\ prefix' = prefix /\ stack' = stack
  BY DEF DispatchMount, Call
<1>3. TypeOK /\ ConfigInv /\ StackInv /\ ScopeInv /\ ParamsInv
  BY DEF IInv
<1>4. /\ next \in Seq(Elements) /\ prefix \in SavedPrefixes /\ stack \in Seq(Frames)
      /\ c.router \in Routers /\ c.index \in Nat \ {0}
  <2>1. next \in Seq(Elements) /\ prefix \in SavedPrefixes /\ stack \in Seq(Frames)
    BY <1>3 DEF TypeOK
  <2>2. c \in Elements
    BY <1>1, <2>1, TailIs
  <2> QED
    BY <1>1, <2>1, <2>2, ElementKinds
<1>5. m.prefix \in Seq(Segments) /\ m.child \in Routers
  BY <1>1, <1>3, <1>4, MountIs
<1>6. /\ rest \in Seq(Elements) /\ Len(rest) = Len(next) /\ Len(next) \in Nat
      /\ rest[1].kind = "chain"
      /\ Linked(next) => Linked(rest) /\ Len(next) >= 2
      /\ \A pre : Fits(next, pre) => Fits(rest, pre)
      /\ \A s, d, t, p : Good(s, d, t, p, next) => Good(s, d, t, p, rest)
  <2> HIDE DEF m
  <2>1. rest = <<Chain(Head(next).router, Head(next).index + 1)>> \o Tail(next)
    OBVIOUS
  <2>2. next \in Seq(Elements) /\ next # << >> /\ Head(next).kind = "chain"
    BY <1>1, <1>4
  <2> HIDE DEF rest, c
  <2>3. /\ rest \in Seq(Elements) /\ Len(rest) = Len(next) /\ Len(next) \in Nat
        /\ rest[1].kind = "chain"
    BY <2>1, <2>2, NextEntry
  <2>4. Linked(next) => Linked(rest) /\ Len(next) >= 2
    BY <2>1, <2>2, NextEntry
  <2>5. /\ \A pre : Fits(next, pre) => Fits(rest, pre)
        /\ \A s, d, t, p : Good(s, d, t, p, next) => Good(s, d, t, p, rest)
    BY <2>1, <2>2, NextEntry
  <2> QED
    BY <2>3, <2>4, <2>5
<1>7. /\ ~RetryWithin(stack, Len(stack)) => Fits(next, prefix) /\ Linked(next)
      /\ ~MountWithin(stack, Len(stack)) => prefix = None
      /\ Good(stack, Len(stack), touched, path, next)
  BY <1>1, <1>3 DEF StackInv, ScopeInv, Good
<1>8. rest # << >>
  BY <1>6, <1>1, <1>4
<1>9. CASE next' = rest /\ prefix' = prefix /\ stack' = stack
  <2> HIDE DEF rest, c
  <2>1. \A s, d, t, p : Good(s, d, t, p, next) => Good(s, d, t, p, next')
    BY <1>6, <1>9
  <2>2. ~RetryWithin(stack, Len(stack)) => Fits(next', prefix')
    BY <1>6, <1>7, <1>9
  <2> QED
    BY <1>1, <1>4, <1>6, <1>7, <1>9, <2>1, <2>2, GoesOn
<1>10. CASE /\ MatchesPrefix(path, effective) /\ prefix' = effective
            /\ stack' = Append(stack, f) /\ next' = RouterHandle(m.child, effective, back)
  <2>1. effective \in Seq(Segments) /\ InForce(effective) = effective /\ effective \in SavedPrefixes
    BY <1>4, <1>5, PrefixesAre
  <2>2. IsPrefix(effective, path)
    BY <1>10 DEF MatchesPrefix
  <2> HIDE DEF c, m, rest, effective
  <2>3. /\ back \in Seq(Elements)
        /\ Len(back) >= 1 /\ back[1].kind = "back"
        /\ Linked(rest) /\ Fits(rest, prefix) => Linked(back)
        /\ \A p : Under(rest, p) => Under(back, p)
    BY <1>4, <1>6, <1>8, BackIs
  <2> HIDE DEF back
  <2>4. /\ next' \in Seq(Elements)
        /\ Linked(back) => Linked(next')
        /\ Under(back, path) => Under(next', path)
        /\ Fits(next', prefix')
    BY <1>5, <1>10, <2>1, <2>2, <2>3, RouterHandleIs
  <2>5. f \in Frames /\ f.kind = "mount" /\ f.saved = prefix /\ ~IsHandler(f)
    BY <1>4 DEF Frames, IsHandler
  <2> HIDE DEF f
  <2>6. stack' = Append(stack, f)
    BY <1>10
  <2>7. /\ stack' \in Seq(Frames) /\ Len(stack) \in Nat /\ Len(stack') = Len(stack) + 1
        /\ stack'[Len(stack')] = f
        /\ \A i \in 1 .. Len(stack) : stack'[i] = stack[i]
        /\ MountWithin(stack', Len(stack'))
        /\ RetryWithin(stack, Len(stack)) => RetryWithin(stack', Len(stack'))
    BY <1>4, <2>5, <2>6, StackPushed
  <2>8. touched' = touched /\ path' = path
    BY <1>1 DEF config
  <2>9. \A j \in 1 .. Len(stack') : FrameInv(stack', j, touched, path)
    <3>1. \A j \in 1 .. Len(stack) : FrameInv(stack, j, touched, path)
      BY <1>3 DEF StackInv
    <3> QED
      BY <1>4, <1>7, <2>5, <2>6, <3>1, PushedFrames
  <2>10. Good(stack', Len(stack'), touched, path, next')
    <3>1. ~RetryWithin(stack', Len(stack')) => Linked(next')
      BY <1>6, <1>7, <2>3, <2>4, <2>7
    <3>2. touched # "path" => Under(next', path)
      BY <1>6, <1>7, <2>3, <2>4 DEF Good
    <3> QED
      BY <2>7, <3>1, <3>2 DEF Good
  <2>11. \A i \in 1 .. Len(stack') : i \in 1 .. Len(stack) \/ i = Len(stack')
    BY <2>7
  <2>12. TypeOK'
    BY <1>1, <1>10, <2>1, <2>4, <2>7 DEF TypeOK
  <2>13. ConfigInv'
    BY <1>1, <1>3, ConfigKept
  <2>14. StackInv'
    BY <1>1, <2>7, <2>8, <2>9, <2>10 DEF StackInv
  <2>15. ScopeInv'
    <3>1. ASSUME NEW j \in 1 .. Len(stack'), IsHandler(stack'[j]), stack'[j].calls = 0
          PROVE  FALSE
      BY <1>1, <1>3, <2>5, <2>7, <2>11, <3>1, OutsideRoutes
    <3> QED
      BY <2>4, <3>1 DEF ScopeInv
  <2>16. ParamsInv'
    <3>1. \A j \in 1 .. Len(stack') : stack'[j].kind = "endpoint" =>
             \E i \in 1 .. Len(stack) : stack[i].kind = "endpoint"
      BY <2>5, <2>7, <2>11
    <3> QED
      BY <1>1, <1>3, <2>8, <3>1, ParamsKept
  <2> QED
    BY <2>12, <2>13, <2>14, <2>15, <2>16 DEF IInv
<1> QED
  BY <1>2, <1>9, <1>10

\* An endpoint starts, and sees the parameters of its route.
LEMMA EndpointStarts ==
    ASSUME IInv, mode = "down", mode' = "at",
           config' = config, prefix' = prefix, next' = << >>,
           NEW r \in Routers, NEW at \in Seq(Segments), ~OutOfRange(at), NEW b \in Bucket(r, at),
           touched # "path" => MatchesPrefix(path, at),
           stack' = Append(stack, [kind |-> "endpoint", saved |-> params]),
           answer'.by = "endpoint", answer'.path = b.path,
           params' = IF IsDynamic(b.path)
                     THEN Bindings(b.path, RelativePath(path, at)) ELSE params
    PROVE  IInv'
<1> DEFINE f == [kind |-> "endpoint", saved |-> params]
<1>1. touched' = touched /\ path' = path
  BY DEF config
<1>2. TypeOK /\ ConfigInv /\ StackInv /\ ScopeInv /\ ParamsInv
  BY DEF IInv
<1>3. /\ \A j \in 1 .. Len(stack) :
            stack[j].kind # "endpoint" /\ ~(IsHandler(stack[j]) /\ stack[j].calls = 0)
      /\ params = OutsideParams
  BY <1>2, OutsideRoutes
<1>4. f \in Frames /\ f.kind = "endpoint" /\ f.saved = OutsideParams /\ ~IsHandler(f)
  BY <1>3 DEF Frames, OutsideParams, IsHandler
<1> HIDE DEF f
<1>5. stack' = Append(stack, f) /\ stack \in Seq(Frames)
  BY <1>2 DEF f, TypeOK
<1>6. /\ stack' \in Seq(Frames) /\ Len(stack) \in Nat /\ Len(stack') = Len(stack) + 1
      /\ stack'[Len(stack')] = f
      /\ \A i \in 1 .. Len(stack) : stack'[i] = stack[i]
      /\ MountWithin(stack', Len(stack')) <=> (MountWithin(stack, Len(stack)) \/ f.kind = "mount")
      /\ RetryWithin(stack, Len(stack)) => RetryWithin(stack', Len(stack'))
  BY <1>4, <1>5, StackPushed
<1>7. /\ \A i \in 1 .. Len(stack') : i \in 1 .. Len(stack) \/ i = Len(stack')
      /\ Len(stack') \in 1 .. Len(stack')
  BY <1>6
<1>8. \A j \in 1 .. Len(stack') : FrameInv(stack', j, touched, path)
  <2>1. \A j \in 1 .. Len(stack) : FrameInv(stack, j, touched, path)
    BY <1>2 DEF StackInv
  <2> QED
    BY <1>4, <1>5, <2>1, PushedFrames
<1>9. TypeOK'
  <2>1. stack' # << >>
    BY <1>6
  <2> QED
    BY <1>2, <1>6, <2>1 DEF TypeOK
<1>10. ConfigInv'
  BY <1>2, ConfigKept
<1>11. StackInv'
  BY <1>1, <1>2, <1>4, <1>6, <1>8 DEF StackInv
<1>12. ScopeInv'
  <2>1. ASSUME NEW j \in 1 .. Len(stack'), IsHandler(stack'[j]), stack'[j].calls = 0
        PROVE  FALSE
    BY <1>3, <1>4, <1>6, <1>7, <2>1
  <2> QED
    BY <2>1 DEF ScopeInv
<1>13. OutsideParams' = OutsideParams
  BY <1>1 DEF OutsideParams
<1>14. params' # OutsideParams => IsDynamic(b.path) /\ Matched(b.path)'
  <2> SUFFICES ASSUME IsDynamic(b.path) PROVE Matched(b.path)'
    BY <1>3
  <2>1. PICK pattern : pattern = b.path
    OBVIOUS
  <2>2. PICK rel : rel = RelativePath(path, at)
    OBVIOUS
  <2>3. /\ Len(pattern) \in Nat /\ DOMAIN pattern = 1 .. Len(pattern)
        /\ MatchesPattern(pattern, rel)
        /\ \A j \in 1 .. Len(pattern) : rel[j] \in StandsFor(pattern, j)
    BY <1>2, <2>1, <2>2, BucketIs
  <2>4. PICK bound : bound = Bindings(pattern, rel)
    OBVIOUS
  <2>5. params' = bound
    BY <2>4, <2>1, <2>2
  <2>6. PICK n \in Nat : n = Len(pattern) /\ DOMAIN pattern = 1 .. n
    BY <2>3
  <2>7. /\ DOMAIN bound = BoundNames(pattern)
        /\ \A i \in 1 .. n : pattern[i] \in Params =>
             \E j \in 1 .. n :
                /\ pattern[j] \in Params
                /\ NameOf(pattern[j]) = NameOf(pattern[i])
                /\ bound[NameOf(pattern[i])] = rel[j]
    <3>1. DOMAIN bound = BoundNames(pattern)
      BY <2>4, <2>6, BindingsAre
    <3>2. ASSUME NEW i \in 1 .. n, pattern[i] \in Params
          PROVE  \E j \in 1 .. n :
                    /\ pattern[j] \in Params
                    /\ NameOf(pattern[j]) = NameOf(pattern[i])
                    /\ bound[NameOf(pattern[i])] = rel[j]
      BY <2>4, <2>6, <3>2, BindingAt
    <3> QED
      BY <3>1, <3>2
  <2>8. \A i \in 1 .. n :
           /\ rel[i] \in StandsFor(pattern, i)
           /\ pattern[i] \notin Params => pattern[i] = rel[i]
    BY <2>3, <2>6 DEF MatchesPattern
  <2>9. ASSUME NEW i \in 1 .. n, pattern[i] \in Params
        PROVE  \E j \in 1 .. n :
                  /\ pattern[j] \in Params
                  /\ NameOf(pattern[j]) = NameOf(pattern[i])
                  /\ bound[NameOf(pattern[i])] \in StandsFor(pattern, j)
    <3>1. PICK j \in 1 .. n :
                  /\ pattern[j] \in Params
                  /\ NameOf(pattern[j]) = NameOf(pattern[i])
                  /\ bound[NameOf(pattern[i])] = rel[j]
      BY <2>7, <2>9
    <3> QED
      BY <2>8, <3>1
  <2>10. \A i \in DOMAIN pattern :
           IF pattern[i] \in Params
           THEN \E j \in DOMAIN pattern :
                   /\ pattern[j] \in Params
                   /\ NameOf(pattern[j]) = NameOf(pattern[i])
                   /\ bound[NameOf(pattern[i])] \in StandsFor(pattern, j)
           ELSE pattern[i] \in StandsFor(pattern, i)
    BY <2>6, <2>8, <2>9
  <2>11. \A i : StandsFor(pattern, i)' = StandsFor(pattern, i)
    BY <1>1 DEF StandsFor
  <2>12. Matched(pattern)'
    BY <2>5, <2>7, <2>10, <2>11 DEF Matched
  <2> QED
    BY <2>1, <2>12
<1>15. ParamsInv'
  <2>1. ASSUME NEW j \in 1 .. Len(stack'), stack'[j].kind = "endpoint"
        PROVE  j = Len(stack') /\ stack'[j] = f
    BY <1>3, <1>6, <1>7, <2>1
  <2>2. ~(\A j \in 1 .. Len(stack') : stack'[j].kind # "endpoint")
    BY <1>4, <1>6, <1>7
  <2> QED
    BY <1>4, <1>13, <1>14, <2>1, <2>2 DEF ParamsInv
<1> QED
  BY <1>9, <1>10, <1>11, <1>12, <1>15 DEF IInv

\* Routes are looked up behind the prefix they are under.
LEMMA DispatchRouteStep ==
    ASSUME IInv, DispatchRoute
    PROVE  IInv'
<1> DEFINE r == Head(next).router
<1> DEFINE at == Head(next).prefix
<1> DEFINE f == [kind |-> "fallback", calls |-> 0, next |-> Tail(next)]
<1>1. /\ mode = "down" /\ next # << >> /\ Head(next).kind = "routes"
      /\ config' = config /\ prefix' = prefix
  BY DEF DispatchRoute, NoNext
<1>2. \/ mode' \in {"up", "fail"} /\ next' = << >> /\ stack' = stack /\ params' = params
      \/ mode' = "down" /\ next' = Tail(next) /\ stack' = stack /\ params' = params
      \/ mode' = "at" /\ next' = << >> /\ stack' = Append(stack, f) /\ params' = params
      \/ /\ mode' = "at" /\ next' = << >> /\ ~OutOfRange(at)
         /\ stack' = Append(stack, [kind |-> "endpoint", saved |-> params])
         /\ \E b \in Bucket(r, at) :
               /\ answer'.by = "endpoint" /\ answer'.path = b.path
               /\ params' = IF IsDynamic(b.path)
                            THEN Bindings(b.path, RelativePath(path, at)) ELSE params
  BY DEF DispatchRoute, NoNext, Call, Push, Respond
<1>3. TypeOK /\ ConfigInv /\ StackInv /\ ScopeInv /\ ParamsInv
  BY DEF IInv
<1>4. /\ next \in Seq(Elements) /\ prefix \in SavedPrefixes
      /\ Tail(next) \in Seq(Elements)
      /\ r \in Routers /\ at \in Seq(Segments)
  <2>1. next \in Seq(Elements) /\ prefix \in SavedPrefixes
    BY <1>3 DEF TypeOK
  <2>2. Head(next) \in Elements /\ Tail(next) \in Seq(Elements)
    BY <1>1, <2>1, TailIs
  <2> QED
    BY <1>1, <2>1, <2>2, ElementKinds
<1>5. /\ ~RetryWithin(stack, Len(stack)) => Fits(next, prefix) /\ Linked(next)
      /\ ~MountWithin(stack, Len(stack)) => prefix = None
  BY <1>1, <1>3 DEF StackInv, ScopeInv, Good
<1>6. \A s, d, t, p : Good(s, d, t, p, next) => Good(s, d, t, p, Tail(next))
  BY <1>1, <1>4, GoodTail
<1>7. ~RetryWithin(stack, Len(stack)) => Fits(Tail(next), prefix)
  BY <1>1, <1>4, <1>5, FitsTail
<1>8. CASE mode' \in {"up", "fail"} /\ next' = << >> /\ stack' = stack /\ params' = params
  BY <1>1, <1>8, TurnsBack
<1>9. CASE mode' = "down" /\ next' = Tail(next) /\ stack' = stack /\ params' = params
  BY <1>1, <1>4, <1>5, <1>6, <1>7, <1>9, GoesOn
<1>10. CASE mode' = "at" /\ next' = << >> /\ stack' = Append(stack, f) /\ params' = params
  <2>1. f \in Frames /\ IsHandler(f) /\ f.next = Tail(next)
    BY <1>4, BoundAssumption DEF Frames, IsHandler
  <2> HIDE DEF f
  <2>2. \A s, d, t, p : Good(s, d, t, p, next) => Good(s, d, t, p, f.next)
    BY <1>6, <2>1
  <2>3. ~RetryWithin(stack, Len(stack)) => Fits(f.next, prefix)
    BY <1>7, <2>1
  <2> QED
    BY <1>1, <1>10, <2>1, <2>2, <2>3, HandlerStarts
<1>11. CASE /\ mode' = "at" /\ next' = << >> /\ ~OutOfRange(at)
            /\ stack' = Append(stack, [kind |-> "endpoint", saved |-> params])
            /\ \E b \in Bucket(r, at) :
                  /\ answer'.by = "endpoint" /\ answer'.path = b.path
                  /\ params' = IF IsDynamic(b.path)
                               THEN Bindings(b.path, RelativePath(path, at)) ELSE params
  <2>1. touched # "path" => MatchesPrefix(path, at)
    <3>1. touched # "path" => Under(next, path)
      BY <1>1, <1>3 DEF StackInv, Good
    <3>2. next[1] = Head(next) /\ 1 \in 1 .. Len(next)
      BY <1>1, <1>4
    <3> QED
      BY <1>1, <3>1, <3>2 DEF Under, MatchesPrefix
  <2> HIDE DEF r, at
  <2> QED
    BY <1>1, <1>4, <1>11, <2>1, EndpointStarts
<1> QED
  BY <1>2, <1>8, <1>9, <1>10, <1>11

\* Popped, of the stack, when no mount is left without its prefix.
LEMMA StackPopped ==
    ASSUME IInv, stack # << >>, stack' = Front(stack)
    PROVE  /\ stack' \in Seq(Frames) /\ Len(stack) \in Nat /\ Len(stack) >= 1
           /\ Len(stack') = Len(stack) - 1
           /\ Innermost = stack[Len(stack)] /\ Innermost \in Frames
           /\ \A i \in 1 .. Len(stack') : stack'[i] = stack[i] /\ i \in 1 .. Len(stack) /\ i # Len(stack)
           /\ \A j \in 1 .. Len(stack') : FrameInv(stack', j, touched, path)
           /\ ~MountWithin(stack', Len(stack')) =>
                IF Innermost.kind = "mount" THEN Innermost.saved = None ELSE prefix = None
<1>1. PICK s2 : s2 = stack'
  OBVIOUS
<1>2. stack \in Seq(Frames) /\ StackInv
  BY DEF IInv, TypeOK
<1>3. s2 = Front(stack)
  BY <1>1
<1>4. /\ s2 \in Seq(Frames) /\ Len(stack) \in Nat /\ Len(stack) >= 1 /\ Len(s2) = Len(stack) - 1
      /\ Last(stack) = stack[Len(stack)] /\ Last(stack) \in Frames
  BY <1>2, <1>3, Popped
<1>5. \A i \in 1 .. Len(s2) : s2[i] = stack[i] /\ i \in 1 .. Len(stack) /\ i # Len(stack)
  BY <1>2, <1>3, Popped
<1>6. MountWithin(s2, Len(s2)) <=> MountWithin(stack, Len(stack) - 1)
  BY <1>2, <1>3, Popped
<1>7. MountWithin(stack, Len(stack)) <=> (MountWithin(s2, Len(s2)) \/ Last(stack).kind = "mount")
  BY <1>2, <1>3, Popped
<1>8. \A j \in 1 .. Len(stack) : FrameInv(stack, j, touched, path)
  BY <1>2 DEF StackInv
<1>9. \A j \in 1 .. Len(s2) : FrameInv(s2, j, touched, path)
  BY <1>2, <1>3, <1>8, Popped
<1>10. ASSUME ~MountWithin(s2, Len(s2))
       PROVE  IF Last(stack).kind = "mount" THEN Last(stack).saved = None ELSE prefix = None
  <2>1. FrameInv(stack, Len(stack), touched, path)
    <3>1. Len(stack) \in 1 .. Len(stack)
      BY <1>4
    <3> QED
      BY <1>8, <3>1
  <2>2. Last(stack).kind = "mount" => Last(stack).saved = None
    BY <1>4, <1>6, <1>10, <2>1 DEF FrameInv
  <2>3. Last(stack).kind # "mount" => prefix = None
    BY <1>2, <1>7, <1>10 DEF StackInv
  <2> QED
    BY <2>2, <2>3
<1> QED
  BY <1>1, <1>4, <1>5, <1>9, <1>10 DEF Innermost

\* The innermost coroutine is left, and what it has saved is put back.
LEMMA Left ==
    ASSUME IInv, stack # << >>, stack' = Front(stack), mode \in {"at", "up", "fail"},
           mode' \in {"up", "fail"}, config' = config, next' = next,
           mode = "at" => Innermost.kind # "mount",
           prefix' = IF Innermost.kind = "mount" THEN Innermost.saved ELSE prefix,
           params' = IF Innermost.kind = "endpoint" THEN Innermost.saved ELSE params
    PROVE  IInv'
<1>1. touched' = touched /\ path' = path
  BY DEF config
<1>2. TypeOK /\ ConfigInv /\ StackInv /\ ScopeInv /\ ParamsInv
  BY DEF IInv
<1>3. /\ stack' \in Seq(Frames) /\ Len(stack) \in Nat /\ Len(stack) >= 1
      /\ Len(stack') = Len(stack) - 1
      /\ Innermost = stack[Len(stack)] /\ Innermost \in Frames
      /\ \A i \in 1 .. Len(stack') : stack'[i] = stack[i] /\ i \in 1 .. Len(stack) /\ i # Len(stack)
      /\ \A j \in 1 .. Len(stack') : FrameInv(stack', j, touched, path)
      /\ ~MountWithin(stack', Len(stack')) =>
           IF Innermost.kind = "mount" THEN Innermost.saved = None ELSE prefix = None
  BY StackPopped
<1>4. TypeOK'
  <2>1. prefix' \in SavedPrefixes
    BY <1>2, <1>3, FrameKinds DEF TypeOK
  <2> QED
    BY <1>2, <1>3, <2>1 DEF TypeOK
<1>5. ConfigInv'
  BY <1>2, ConfigKept
<1>6. StackInv'
  BY <1>1, <1>3 DEF StackInv
<1>7. ScopeInv'
  <2>1. ASSUME NEW j \in 1 .. Len(stack'), IsHandler(stack'[j]), stack'[j].calls = 0
        PROVE  FALSE
    BY <1>2, <1>3, <2>1 DEF ScopeInv
  <2> QED
    BY <2>1 DEF ScopeInv
<1>8. ParamsInv'
  <2>1. \A j \in 1 .. Len(stack') : stack'[j].kind # "endpoint"
    BY <1>2, <1>3 DEF ParamsInv
  <2>2. OutsideParams' = OutsideParams
    BY <1>1 DEF OutsideParams
  <2>3. Len(stack) \in 1 .. Len(stack)
    BY <1>3
  <2>4. params' = OutsideParams
    <3>1. CASE Innermost.kind = "endpoint"
      BY <1>2, <1>3, <2>3, <3>1 DEF ParamsInv
    <3>2. CASE Innermost.kind # "endpoint"
      <4>1. \A j \in 1 .. Len(stack) : stack[j].kind # "endpoint"
        BY <1>2, <1>3, <3>2 DEF ParamsInv
      <4> QED
        BY <1>2, <3>2, <4>1 DEF ParamsInv
    <3> QED
      BY <3>1, <3>2
  <2> QED
    BY <2>1, <2>2, <2>4 DEF ParamsInv
<1> QED
  BY <1>4, <1>5, <1>6, <1>7, <1>8 DEF IInv

\* User code returns or throws.
LEMMA LeaveStep ==
    ASSUME IInv, NEW how \in {"up", "fail"}, Leave(how)
    PROVE  IInv'
<1>1. /\ mode = "at" /\ stack' = Front(stack) /\ mode' = how
      /\ params' = IF Innermost.kind = "endpoint" THEN Innermost.saved ELSE params
      /\ config' = config /\ prefix' = prefix /\ next' = next
  BY DEF Leave, Pop
<1>2. stack # << >>
  BY <1>1 DEF IInv, TypeOK
<1>3. Innermost.kind # "mount"
  <2>1. Innermost = stack[Len(stack)]
    BY <1>1, <1>2, StackPopped
  <2> QED
    BY <1>1, <2>1 DEF IInv, StackInv
<1> QED
  BY <1>1, <1>2, <1>3, Left

\* An exception passes a middleware.
LEMMA PropagateStep ==
    ASSUME IInv, Propagate
    PROVE  IInv'
<1>1. /\ mode = "fail" /\ stack # << >> /\ IsHandler(Innermost) /\ stack' = Front(stack)
      /\ config' = config /\ prefix' = prefix /\ params' = params /\ mode' = mode /\ next' = next
  BY DEF Propagate, Pop, context
<1>2. Innermost.kind \notin {"mount", "endpoint"}
  BY <1>1 DEF IsHandler
<1> QED
  BY <1>1, <1>2, Left

\* A mount is left, and its prefix with it.
LEMMA LeaveMountStep ==
    ASSUME IInv, LeaveMount
    PROVE  IInv'
<1>1. /\ mode \in {"up", "fail"} /\ stack # << >> /\ Innermost.kind = "mount"
      /\ stack' = Front(stack) /\ prefix' = Innermost.saved
      /\ config' = config /\ params' = params /\ mode' = mode /\ next' = next
  BY DEF LeaveMount, Pop
<1> QED
  BY <1>1, Left

\* A middleware gets a response or catches an exception.
LEMMA ResumeStep ==
    ASSUME IInv, Resume
    PROVE  IInv'
<1>1. /\ mode \in {"up", "fail"} /\ stack # << >> /\ IsHandler(Innermost) /\ mode' = "at"
      /\ config' = config /\ prefix' = prefix /\ params' = params /\ stack' = stack /\ next' = next
      /\ touched' = touched /\ path' = path /\ answer' = answer
  BY DEF Resume, context, config
<1>2. TypeOK /\ ConfigInv /\ StackInv /\ ScopeInv /\ ParamsInv
  BY DEF IInv
<1>3. TypeOK'
  BY <1>1, <1>2 DEF TypeOK
<1>4. ConfigInv'
  BY <1>1, <1>2, ConfigKept
<1>5. StackInv'
  <2>1. stack[Len(stack)].kind # "mount"
    BY <1>1, <1>2 DEF Innermost, Last, IsHandler, TypeOK
  <2> QED
    BY <1>1, <1>2, <2>1 DEF StackInv
<1>6. ScopeInv'
  <2>1. \A j \in 1 .. Len(stack) : ~(IsHandler(stack[j]) /\ stack[j].calls = 0)
    BY <1>1, <1>2, OutsideRoutes
  <2> QED
    BY <1>1, <2>1 DEF ScopeInv
<1>7. ParamsInv'
  BY <1>1, <1>2, ParamsKept
<1> QED
  BY <1>3, <1>4, <1>5, <1>6, <1>7 DEF IInv

\* The request is done.
LEMMA FinishStep ==
    ASSUME IInv, Finish
    PROVE  IInv'
<1>1. /\ mode \in {"up", "fail"} /\ stack = << >> /\ mode' = "done"
      /\ config' = config /\ prefix' = prefix /\ params' = params /\ stack' = stack /\ next' = next
      /\ touched' = touched /\ path' = path /\ answer' = answer
  BY DEF Finish, context, config
<1>2. TypeOK /\ ConfigInv /\ StackInv /\ ScopeInv /\ ParamsInv
  BY DEF IInv
<1>3. TypeOK'
  BY <1>1, <1>2 DEF TypeOK
<1>4. ConfigInv'
  BY <1>1, <1>2, ConfigKept
<1>5. StackInv'
  BY <1>1, <1>2 DEF StackInv
<1>6. ScopeInv'
  BY <1>1 DEF ScopeInv
<1>7. ParamsInv'
  BY <1>1, <1>2, ParamsKept
<1> QED
  BY <1>3, <1>4, <1>5, <1>6, <1>7 DEF IInv

\* Bumped, of the stack.
LEMMA StackBumped ==
    ASSUME TypeOK, StackInv, stack # << >>, IsHandler(Innermost), Innermost.calls < MaxCalls,
           stack' = [stack EXCEPT ![Len(stack)].calls = @ + 1],
           touched' # "path" => touched # "path" /\ path' = path
    PROVE  /\ stack' \in Seq(Frames) /\ Len(stack) \in Nat /\ Len(stack) >= 1
           /\ Len(stack') = Len(stack)
           /\ Innermost = stack[Len(stack)] /\ Innermost \in Frames
           /\ \A i \in 1 .. Len(stack) - 1 : stack'[i] = stack[i]
           /\ stack'[Len(stack)].kind = stack[Len(stack)].kind
           /\ stack'[Len(stack)].calls = stack[Len(stack)].calls + 1
           /\ stack[Len(stack)].calls \in Nat
           /\ MountWithin(stack', Len(stack')) <=> MountWithin(stack, Len(stack))
           /\ MountWithin(stack, Len(stack)) <=> MountWithin(stack, Len(stack) - 1)
           /\ RetryWithin(stack, Len(stack)) => RetryWithin(stack', Len(stack'))
           /\ stack[Len(stack)].calls >= 1 /\ MountWithin(stack, Len(stack))
              => RetryWithin(stack', Len(stack'))
           /\ \A j \in 1 .. Len(stack') : FrameInv(stack', j, touched', path')
<1>1. PICK s2 : s2 = stack'
  OBVIOUS
<1>2. PICK t2, p2 : t2 = touched' /\ p2 = path'
  OBVIOUS
<1>3. /\ stack \in Seq(Frames) /\ IsHandler(Last(stack)) /\ Last(stack).calls < MaxCalls
      /\ s2 = [stack EXCEPT ![Len(stack)].calls = @ + 1]
      /\ t2 # "path" => touched # "path" /\ p2 = path
  BY <1>1, <1>2 DEF TypeOK, Innermost
<1>4. /\ s2 \in Seq(Frames) /\ Len(stack) \in Nat /\ Len(stack) >= 1 /\ Len(s2) = Len(stack)
      /\ Last(stack) = stack[Len(stack)] /\ Last(stack) \in Frames
  BY <1>3, Bumped
<1>5. /\ \A i \in 1 .. Len(stack) - 1 : s2[i] = stack[i]
      /\ s2[Len(stack)].kind = stack[Len(stack)].kind
      /\ s2[Len(stack)].calls = stack[Len(stack)].calls + 1
      /\ stack[Len(stack)].calls \in Nat
  BY <1>3, Bumped
<1>6. /\ MountWithin(s2, Len(s2)) <=> MountWithin(stack, Len(stack))
      /\ MountWithin(stack, Len(stack)) <=> MountWithin(stack, Len(stack) - 1)
  BY <1>3, Bumped
<1>7. /\ RetryWithin(stack, Len(stack)) => RetryWithin(s2, Len(s2))
      /\ stack[Len(stack)].calls >= 1 /\ MountWithin(stack, Len(stack)) => RetryWithin(s2, Len(s2))
  BY <1>3, Bumped
<1>8. \A j \in 1 .. Len(s2) : FrameInv(s2, j, t2, p2)
  <2>1. \A j \in 1 .. Len(stack) : FrameInv(stack, j, touched, path)
    BY DEF StackInv
  <2>2. IsHandler(stack[Len(stack)]) /\ s2[Len(stack)].next = stack[Len(stack)].next
    BY <1>3, <1>4, Bumped
  <2>3. \A j \in 1 .. Len(stack) : FrameInv(s2, j, t2, p2)
    <3>1. PICK n \in Nat : n = Len(stack)
      BY <1>4
    <3>2. /\ IsHandler(stack[n])
          /\ \A i \in 1 .. n - 1 : s2[i] = stack[i]
          /\ s2[n].kind = stack[n].kind /\ s2[n].next = stack[n].next
          /\ \A j \in 1 .. n : FrameInv(stack, j, touched, path)
      BY <1>5, <2>1, <2>2, <3>1
    <3>3. \A j \in 1 .. n : FrameInv(s2, j, t2, p2)
      BY <1>3, <3>2, BumpedFrames
    <3> QED
      BY <3>1, <3>3
  <2> QED
    BY <1>4, <2>3
<1> QED
  BY <1>1, <1>2, <1>4, <1>5, <1>6, <1>7, <1>8 DEF Innermost

\* A middleware awaits its next function, for the first time or again.
LEMMA AwaitNextStep ==
    ASSUME IInv, AwaitNext
    PROVE  IInv'
<1> DEFINE n == Len(stack)
<1>1. /\ mode = "at" /\ IsHandler(Innermost) /\ Innermost.next # << >> /\ Innermost.calls < MaxCalls
      /\ stack' = [stack EXCEPT ![Len(stack)].calls = @ + 1]
      /\ mode' = "down" /\ next' = Innermost.next
      /\ table' = table /\ hasOuter' = hasOuter /\ prefix' = prefix
  BY DEF AwaitNext, Call, NoNext
<1>2. \/ path' = path /\ params' = params /\ touched' = touched
      \/ touched = "nothing" /\ touched' = "path" /\ path' \in Rewrites /\ params' = params
      \/ touched = "nothing" /\ touched' = "params" /\ params' = OwnParams /\ path' = path
  BY DEF AwaitNext
<1>3. TypeOK /\ ConfigInv /\ StackInv /\ ScopeInv /\ ParamsInv
  BY DEF IInv
<1>4. stack # << >>
  BY <1>1, <1>3 DEF TypeOK
<1>5. touched' # "path" => touched # "path" /\ path' = path
  BY <1>2
<1>6. /\ stack' \in Seq(Frames) /\ n \in Nat /\ n >= 1
      /\ Len(stack') = n
      /\ Innermost = stack[n] /\ Innermost \in Frames
      /\ \A i \in 1 .. n - 1 : stack'[i] = stack[i]
      /\ stack'[n].kind = stack[n].kind
      /\ stack'[n].calls = stack[n].calls + 1
      /\ stack[n].calls \in Nat
      /\ MountWithin(stack', Len(stack')) <=> MountWithin(stack, n)
      /\ MountWithin(stack, n) <=> MountWithin(stack, n - 1)
      /\ RetryWithin(stack, n) => RetryWithin(stack', Len(stack'))
      /\ stack[n].calls >= 1 /\ MountWithin(stack, n)
         => RetryWithin(stack', Len(stack'))
      /\ \A j \in 1 .. Len(stack') : FrameInv(stack', j, touched', path')
  BY <1>1, <1>3, <1>4, <1>5, StackBumped
<1> HIDE DEF n
<1>7. n \in 1 .. n /\ \A j \in 1 .. n : j \in 1 .. n - 1 \/ j = n
  BY <1>6
<1>8. next' \in Seq(Elements)
  BY <1>1, <1>6, FrameKinds
<1>9. FrameInv(stack', n, touched', path') /\ IsHandler(stack'[n]) /\ IsHandler(stack[n])
  BY <1>1, <1>6, <1>7 DEF IsHandler
<1>10. stack'[n].next = next'
  BY <1>1, <1>3, <1>6, <1>7, FrameKinds DEF TypeOK, n
<1>11. Good(stack', n, touched', path', next')
  <2>1. Good(stack', n - 1, touched', path', next')
    BY <1>9, <1>10 DEF FrameInv
  <2>2. ~RetryWithin(stack', n) => ~RetryWithin(stack', n - 1)
    <3>1. \A i \in 1 .. n - 1 : i \in 1 .. n
      BY <1>6
    <3> QED
      BY <3>1 DEF RetryWithin
  <2>3. ~MountWithin(stack', n) => ~MountWithin(stack', n - 1)
    <3>1. \A i \in 1 .. n - 1 : i \in 1 .. n
      BY <1>6
    <3> QED
      BY <3>1 DEF MountWithin
  <2> QED
    BY <2>1, <2>2, <2>3 DEF Good
<1>12. TypeOK'
  BY <1>1, <1>3, <1>6, <1>8 DEF TypeOK
<1>13. ConfigInv'
  <2>1. path' \in Seq(Segments)
    <3>1. \A p \in Rewrites : p \in Seq(Segments)
      BY RewritesAssumption
    <3> QED
      BY <1>2, <1>3, <3>1 DEF ConfigInv
  <2> QED
    BY <1>1, <1>2, <1>3, <2>1 DEF ConfigInv
<1>14. ~MountWithin(stack, n) => prefix = None
  BY <1>3 DEF StackInv, n
<1>15. StackInv'
  BY <1>1, <1>6, <1>11, <1>14 DEF StackInv
<1>16. ~RetryWithin(stack', n) => Fits(next', prefix)
  <2> SUFFICES ASSUME ~RetryWithin(stack', n) PROVE Fits(next', prefix)
    OBVIOUS
  <2>1. CASE stack[n].calls = 0
    <3>1. ~RetryWithin(stack, n)
      BY <1>6
    <3> QED
      BY <1>1, <1>3, <1>6, <1>7, <1>9, <2>1, <3>1 DEF ScopeInv, n
  <2>2. CASE stack[n].calls # 0
    <3>1. ~MountWithin(stack, n) /\ ~MountWithin(stack', n)
      BY <1>6, <2>2
    <3>2. prefix = None /\ InForce(prefix) = << >>
      BY <1>14, <3>1 DEF InForce
    <3>3. RootLevel(next') /\ Linked(next')
      BY <1>11, <3>1 DEF Good
    <3>4. /\ Len(next') \in Nat /\ (Len(next') >= 1 => 1 \in 1 .. Len(next'))
          /\ (Len(next') >= 2 => 2 \in 1 .. Len(next')) /\ 1 + 1 = 2
          /\ (Len(next') >= 2 => Len(next') >= 1)
      BY <1>8
    <3> QED
      BY <3>2, <3>3, <3>4 DEF Fits, RootLevel, Linked
  <2> QED
    BY <2>1, <2>2
<1>17. ScopeInv'
  <2>1. ASSUME NEW j \in 1 .. n, IsHandler(stack'[j]), stack'[j].calls = 0
        PROVE  FALSE
    <3>1. CASE j \in 1 .. n - 1
      <4>1. stack'[j] = stack[j] /\ j # n
        BY <1>6, <3>1
      <4> QED
        BY <1>3, <2>1, <4>1 DEF ScopeInv, n
    <3>2. CASE j = n
      BY <1>6, <2>1, <3>2
    <3> QED
      BY <1>7, <3>1, <3>2
  <2> QED
    BY <1>1, <1>6, <1>16, <2>1 DEF ScopeInv
<1>18. ParamsInv'
  <2>1. stack[n].kind # "endpoint"
    BY <1>9 DEF IsHandler
  <2>2. \A j \in 1 .. n : stack[j].kind # "endpoint"
    BY <1>3, <2>1 DEF ParamsInv, n
  <2>3. \A j \in 1 .. n : stack'[j].kind # "endpoint"
    BY <1>6, <1>7, <2>2
  <2>4. params = OutsideParams
    BY <1>3, <2>2 DEF ParamsInv, n
  <2>5. params' = OutsideParams'
    BY <1>2, <2>4 DEF OutsideParams
  <2> QED
    BY <1>6, <2>3, <2>5 DEF ParamsInv
<1> QED
  BY <1>12, <1>13, <1>15, <1>17, <1>18 DEF IInv

\* Every step keeps the inductive invariant.
LEMMA NextIInv == IInv /\ [Next]_vars => IInv'
<1> SUFFICES ASSUME IInv, [Next]_vars PROVE IInv'
  OBVIOUS
<1>1. CASE UNCHANGED vars
  <2>1. /\ config' = config /\ prefix' = prefix /\ params' = params /\ stack' = stack
        /\ mode' = mode /\ next' = next /\ answer' = answer
        /\ path' = path /\ touched' = touched
    BY <1>1 DEF vars, config, context
  <2>2. TypeOK /\ ConfigInv /\ StackInv /\ ScopeInv /\ ParamsInv
    BY DEF IInv
  <2>3. TypeOK'
    BY <2>1, <2>2 DEF TypeOK
  <2>4. ConfigInv'
    BY <2>1, <2>2, ConfigKept
  <2>5. StackInv'
    BY <2>1, <2>2 DEF StackInv
  <2>6. ScopeInv'
    BY <2>1, <2>2 DEF ScopeInv
  <2>7. ParamsInv'
    <3>1. OutsideParams' = OutsideParams /\ \A p : Matched(p)' <=> Matched(p)
      BY <2>1 DEF OutsideParams, Matched, StandsFor
    <3> QED
      BY <2>1, <2>2, <3>1 DEF ParamsInv
  <2> QED
    BY <2>3, <2>4, <2>5, <2>6, <2>7 DEF IInv
<1>2. CASE Next
  BY <1>2, HandleStep, DispatchPipelineStep, DispatchMountStep, DispatchRouteStep,
     DispatchOuterStep, LeaveChildStep, AwaitNextStep, LeaveStep, ResumeStep, PropagateStep,
     LeaveMountStep, FinishStep DEF Next
<1> QED
  BY <1>1, <1>2
-----------------------------------------------------------------------------
(* What answers a request: the resolution, of a table, a path and a method. *)

Answers ==
    {[by |-> "404"], [by |-> "outer"]}
        \cup [by : {"fallback"}, router : Routers]
        \cup [by : {"endpoint"}, router : Routers, path : Seq(Segments \cup Params)]
        \cup [by : {"405"}, router : Routers, path : Seq(Segments \cup Params),
              allow : SUBSET ToSet(MethodOrder)]

\* Chosen, OwnAnswers and AnswersFrom.
ChosenIn(t, r, rel) ==
    LET static   == {s \in t[r].static : s.path = rel}
        patterns == t[r].dynamic
        matches  == {i \in DOMAIN patterns : MatchesPattern(patterns[i].path, rel)}
        literals(i) == LiteralCount(patterns[i].path)
        best     == {patterns[i] : i \in
                      {i \in matches : \A j \in matches :
                          \/ literals(i) > literals(j)
                          \/ literals(i) = literals(j) /\ i <= j}}
    IN  IF static # {} THEN static ELSE best

AnswerOf(m, r, b) ==
    IF Upper(m) \in b.methods
    THEN [by |-> "endpoint", router |-> r, path |-> b.path]
    ELSE [by |-> "405", router |-> r, path |-> b.path, allow |-> b.methods]

OwnIn(t, m, r, rel) ==
    IF ChosenIn(t, r, rel) = {}
    THEN IF t[r].fallback THEN <<[by |-> "fallback", router |-> r]>> ELSE << >>
    ELSE SetToSeq({AnswerOf(m, r, b) : b \in ChosenIn(t, r, rel)})

\* A route of a table is one.
LEMMA DynamicIs ==
    ASSUME NEW t \in Tables, NEW r \in Routers
    PROVE  /\ t[r].dynamic \in Seq(Routes) /\ Len(t[r].dynamic) \in Nat
           /\ DOMAIN t[r].dynamic = 1 .. Len(t[r].dynamic)
           /\ \A i \in 1 .. Len(t[r].dynamic) :
                 /\ t[r].dynamic[i] \in Routes
                 /\ t[r].dynamic[i].path \in Seq(Segments \cup Params)
                 /\ LiteralCount(t[r].dynamic[i].path) \in Nat
<1>1. t[r].dynamic \in Seq(Routes)
  BY TablesAssumption
<1> DEFINE d == t[r].dynamic
<1> HIDE DEF d
<1>2. d \in Seq(Routes)
  BY <1>1 DEF d
<1>3. Len(d) \in Nat /\ DOMAIN d = 1 .. Len(d) /\ \A i \in 1 .. Len(d) : d[i] \in Routes
  BY <1>2
<1>4. \A b \in Routes : b.path \in Seq(Segments \cup Params)
  BY DEF Routes
<1>5. \A i \in 1 .. Len(d) : LiteralCount(d[i].path) \in Nat
  BY <1>3, <1>4, LiteralCountIs
<1> QED
  BY <1>2, <1>3, <1>4, <1>5 DEF d

\* The routes chosen for a relative path are one, or none, and it is the bucket
\* that route_tail_for finds.
LEMMA ChosenIs ==
    ASSUME NEW t \in Tables, NEW r \in Routers, NEW rel
    PROVE  ChosenIn(t, r, rel) = {} \/ \E b \in Routes : ChosenIn(t, r, rel) = {b}
<1> DEFINE static == {s \in t[r].static : s.path = rel}
<1> DEFINE d == t[r].dynamic
<1> DEFINE matches == {i \in DOMAIN d : MatchesPattern(d[i].path, rel)}
<1> DEFINE literals(i) == LiteralCount(d[i].path)
<1> DEFINE first == {i \in matches : \A j \in matches :
                          \/ literals(i) > literals(j)
                          \/ literals(i) = literals(j) /\ i <= j}
<1> DEFINE best == {d[i] : i \in first}
<1>1. ChosenIn(t, r, rel) = IF static # {} THEN static ELSE best
  BY DEF ChosenIn
<1>2. CASE static # {}
  <2>1. PICK b : b \in static
    BY <1>2
  <2>2. b \in Routes /\ \A s \in static : s = b
    BY <2>1, TablesAssumption
  <2>3. static = {b}
    BY <2>1, <2>2
  <2> QED
    BY <1>1, <1>2, <2>2, <2>3
<1>3. CASE static = {}
  <2>1. CASE first = {}
    <3> HIDE DEF first, static
    <3> QED
      BY <1>1, <1>3, <2>1
  <2>2. CASE first # {}
    <3>1. PICK i : i \in first
      BY <2>2
    <3> HIDE DEF d
    <3>2. /\ Len(d) \in Nat /\ DOMAIN d = 1 .. Len(d)
          /\ \A j \in 1 .. Len(d) : d[j] \in Routes /\ literals(j) \in Nat
      BY DynamicIs DEF d
    <3>3. ASSUME NEW j \in first PROVE j = i
      <4>1. i \in 1 .. Len(d) /\ j \in 1 .. Len(d) /\ literals(i) \in Nat /\ literals(j) \in Nat
        BY <3>1, <3>2
      <4>2. literals(i) > literals(j) \/ (literals(i) = literals(j) /\ i <= j)
        BY <3>1
      <4>3. literals(j) > literals(i) \/ (literals(j) = literals(i) /\ j <= i)
        BY <3>1
      <4> HIDE DEF literals
      <4> QED
        BY <3>2, <4>1, <4>2, <4>3
    <3>4. i \in 1 .. Len(d)
      BY <3>1, <3>2
    <3> HIDE DEF first
    <3>5. best = {d[i]} /\ d[i] \in Routes
      BY <3>1, <3>2, <3>3, <3>4
    <3> HIDE DEF best, static
    <3> QED
      BY <1>1, <1>3, <3>5
  <2> QED
    BY <2>1, <2>2
<1> QED
  BY <1>2, <1>3

LEMMA BucketIsChosen ==
    ASSUME table \in Tables, NEW r \in Routers, NEW rel
    PROVE  FindBucket(r, rel) = ChosenIn(table, r, rel)
<1> DEFINE static == {s \in table[r].static : s.path = rel}
<1> DEFINE d == table[r].dynamic
<1> DEFINE patterns == [i \in DOMAIN d |-> d[i].path]
<1> DEFINE b == BestDynamic(patterns, rel)
<1> DEFINE matches == {i \in DOMAIN d : MatchesPattern(d[i].path, rel)}
<1> DEFINE literals(i) == LiteralCount(d[i].path)
<1> DEFINE first == {i \in matches : \A j \in matches :
                          \/ literals(i) > literals(j)
                          \/ literals(i) = literals(j) /\ i <= j}
<1> DEFINE best == {d[i] : i \in first}
<1>1. ChosenIn(table, r, rel) = IF static # {} THEN static ELSE best
  BY DEF ChosenIn
<1>2. FindBucket(r, rel) = IF static # {} THEN static ELSE IF b # 0 THEN {d[b]} ELSE {}
  BY DEF FindBucket, FindDynamic
<1>3. (IF b # 0 THEN {d[b]} ELSE {}) = best
  <2> HIDE DEF d
  <2>1. /\ Len(d) \in Nat /\ DOMAIN d = 1 .. Len(d)
        /\ \A j \in 1 .. Len(d) : literals(j) \in Nat
    BY DynamicIs DEF d
  <2>2. DOMAIN patterns = 1 .. Len(d) /\ \A j \in 1 .. Len(d) : patterns[j] = d[j].path
    BY <2>1
  <2>3. IsBest(patterns, rel, Len(d), b)
    <3>1. \A j \in 1 .. Len(d) : LiteralCount(patterns[j]) \in Nat
      BY <2>1, <2>2
    <3> HIDE DEF patterns
    <3> QED
      BY <2>1, <2>2, <3>1, BestDynamicIs
  <2> HIDE DEF patterns, b
  <2>4. CASE b = 0
    <3>1. matches = {}
      BY <2>1, <2>2, <2>3, <2>4 DEF IsBest
    <3>2. first = {}
      BY <3>1
    <3> HIDE DEF first
    <3> QED
      BY <2>4, <3>2
  <2>5. CASE b # 0
    <3>1. /\ b \in matches
          /\ \A j \in matches :
               \/ literals(b) > literals(j)
               \/ literals(b) = literals(j) /\ b <= j
      BY <2>1, <2>2, <2>3, <2>5 DEF IsBest
    <3>2. b \in first
      BY <3>1
    <3>3. ASSUME NEW j \in first PROVE j = b
      <4>1. b \in 1 .. Len(d) /\ j \in 1 .. Len(d) /\ literals(b) \in Nat /\ literals(j) \in Nat
        BY <2>1, <3>1
      <4>2. literals(b) > literals(j) \/ (literals(b) = literals(j) /\ b <= j)
        BY <3>1
      <4>3. literals(j) > literals(b) \/ (literals(j) = literals(b) /\ j <= b)
        BY <3>1
      <4> HIDE DEF literals
      <4> QED
        BY <2>1, <4>1, <4>2, <4>3
    <3> HIDE DEF first
    <3>4. best = {d[b]}
      BY <3>2, <3>3
    <3> QED
      BY <2>5, <3>4
  <2> QED
    BY <2>4, <2>5
<1> QED
  BY <1>1, <1>2, <1>3

\* The only sequence of a set of one.
LEMMA SetToSeqOne == ASSUME NEW x PROVE SetToSeq({x}) = <<x>>
<1>1. Cardinality({x}) = 1
  BY FS_Singleton
<1>2. <<x>> \in [1 .. 1 -> {x}] /\ IsInjective(<<x>>)
  BY DEF IsInjective
<1>3. \A f \in [1 .. 1 -> {x}] : f = <<x>>
  OBVIOUS
<1> QED
  BY <1>1, <1>2, <1>3 DEF SetToSeq

\* What answers for a route is an answer.
LEMMA AnswerOfIs ==
    ASSUME NEW m, NEW r \in Routers, NEW b \in Routes
    PROVE  AnswerOf(m, r, b) \in Answers
BY DEF Answers, AnswerOf, Routes

\* The answers of a router's own routes: one, or none.
LEMMA OwnIs ==
    ASSUME NEW t \in Tables, NEW m, NEW r \in Routers, NEW rel
    PROVE  /\ OwnIn(t, m, r, rel) \in Seq(Answers)
           /\ ChosenIn(t, r, rel) = {} =>
                 OwnIn(t, m, r, rel) =
                    IF t[r].fallback THEN <<[by |-> "fallback", router |-> r]>> ELSE << >>
           /\ \A b \in ChosenIn(t, r, rel) : b \in Routes /\ OwnIn(t, m, r, rel) = <<AnswerOf(m, r, b)>>
<1>1. CASE ChosenIn(t, r, rel) = {}
  <2>1. [by |-> "fallback", router |-> r] \in Answers
    BY DEF Answers
  <2> QED
    BY <1>1, <2>1 DEF OwnIn
<1>2. CASE \E b \in Routes : ChosenIn(t, r, rel) = {b}
  <2>1. PICK b \in Routes : ChosenIn(t, r, rel) = {b}
    BY <1>2
  <2>2. {AnswerOf(m, r, c) : c \in ChosenIn(t, r, rel)} = {AnswerOf(m, r, b)}
    BY <2>1
  <2>3. OwnIn(t, m, r, rel) = <<AnswerOf(m, r, b)>>
    BY <2>1, <2>2, SetToSeqOne DEF OwnIn
  <2>4. AnswerOf(m, r, b) \in Answers
    BY AnswerOfIs
  <2> QED
    BY <2>1, <2>3, <2>4
<1> QED
  BY <1>1, <1>2, ChosenIs

\* The routers, each with some segments of the path behind it, and the answers
\* from there on.
Points(p) == Routers \X (0 .. Len(p))

Behind(p, n) == SubSeq(p, n + 1, Len(p))

EntryIn(F, p, n, e) ==
    IF e.kind = "mount" /\ IsPrefix(e.prefix, Behind(p, n))
    THEN F[<<e.child, n + Len(e.prefix)>>]
    ELSE << >>

BodyIn(t, p, m, F, at) ==
    FlattenSeq([i \in DOMAIN t[at[1]].pipeline |-> EntryIn(F, p, at[2], t[at[1]].pipeline[i])])
        \o OwnIn(t, m, at[1], NormalizePath(Behind(p, at[2])))

Solves(t, p, m, D, F) == F = [at \in D |-> BodyIn(t, p, m, F, at)]

AnswersIn(t, p, m) == CHOOSE F : Solves(t, p, m, Points(p), F)

\* What a mount of a router leads to.
Enters(t, p, x, y) ==
    \E i \in DOMAIN t[x[1]].pipeline :
        /\ t[x[1]].pipeline[i].kind = "mount"
        /\ IsPrefix(t[x[1]].pipeline[i].prefix, Behind(p, x[2]))
        /\ y = <<t[x[1]].pipeline[i].child, x[2] + Len(t[x[1]].pipeline[i].prefix)>>

\* A mount of a table.
LEMMA MountOf ==
    ASSUME NEW t \in Tables, NEW r \in Routers
    PROVE  /\ t[r].pipeline \in Seq(Entries) /\ Len(t[r].pipeline) \in Nat
           /\ DOMAIN t[r].pipeline = 1 .. Len(t[r].pipeline)
           /\ \A i \in DOMAIN t[r].pipeline : t[r].pipeline[i].kind = "mount" =>
                 /\ t[r].pipeline[i].prefix \in Seq(Segments)
                 /\ t[r].pipeline[i].child \in Routers
                 /\ t[r].pipeline[i] = Mount(t[r].pipeline[i].prefix, t[r].pipeline[i].child)
<1> DEFINE k == t[r].pipeline
<1>1. k \in Seq(Entries)
  BY TablesAssumption
<1> HIDE DEF k
<1>2. Len(k) \in Nat /\ DOMAIN k = 1 .. Len(k) /\ \A i \in DOMAIN k : k[i] \in Entries
  BY <1>1
<1>3. ASSUME NEW e \in Entries, e.kind = "mount"
      PROVE  e.prefix \in Seq(Segments) /\ e.child \in Routers /\ e = Mount(e.prefix, e.child)
  <2>1. e \in [kind : {"mount"}, prefix : Seq(Segments), child : Routers]
    BY <1>3 DEF Entries, Middleware
  <2> QED
    BY <2>1 DEF Mount
<1> QED
  BY <1>1, <1>2, <1>3 DEF k

\* The rest of the path.
LEMMA BehindIs ==
    ASSUME NEW p \in Seq(Segments), NEW n \in 0 .. Len(p)
    PROVE  /\ Behind(p, n) \in Seq(Segments) /\ Len(p) \in Nat
           /\ Len(Behind(p, n)) = Len(p) - n
           /\ \A i \in 1 .. Len(p) - n : Behind(p, n)[i] = p[n + i]
<1>1. Len(p) \in Nat
  BY LenProperties
<1>2. CASE n = Len(p)
  BY <1>1, <1>2 DEF Behind
<1>3. CASE n # Len(p)
  <2>1. n + 1 \in 1 .. Len(p) /\ Len(p) \in 1 .. Len(p) /\ n + 1 \in 1 .. Len(p) + 1
    BY <1>1, <1>3
  <2>2. /\ Behind(p, n) \in Seq(Segments)
        /\ Len(Behind(p, n)) = Len(p) - (n + 1) + 1
        /\ \A i \in 1 .. Len(p) - (n + 1) + 1 : Behind(p, n)[i] = p[(n + 1) + i - 1]
    BY <1>1, <2>1 DEF Behind
  <2>3. Len(p) - (n + 1) + 1 = Len(p) - n /\ \A i \in 1 .. Len(p) - n : (n + 1) + i - 1 = n + i
    BY <1>1
  <2> QED
    BY <1>1, <2>2, <2>3
<1> QED
  BY <1>2, <1>3

\* A prefix of the rest leaves a rest.
LEMMA PrefixOfRest ==
    ASSUME NEW p \in Seq(Segments), NEW n \in 0 .. Len(p), NEW q \in Seq(Segments),
           IsPrefix(q, Behind(p, n))
    PROVE  Len(q) \in Nat /\ n + Len(q) \in 0 .. Len(p)
<1>1. Len(q) \in Nat /\ Len(q) <= Len(p) - n /\ Len(p) \in Nat
  <2>1. Len(p) \in Nat /\ Len(Behind(p, n)) = Len(p) - n
    BY BehindIs
  <2>2. Len(q) \in Nat /\ Len(q) <= Len(Behind(p, n))
    BY DEF IsPrefix
  <2> QED
    BY <2>1, <2>2
<1> QED
  BY <1>1

\* Where it leads to is a point again.
LEMMA EntersPoint ==
    ASSUME NEW t \in Tables, NEW p \in Seq(Segments), NEW x \in Points(p), NEW y, Enters(t, p, x, y)
    PROVE  y \in Points(p)
<1>1. x[1] \in Routers /\ x[2] \in 0 .. Len(p)
  BY DEF Points
<1>2. PICK i \in DOMAIN t[x[1]].pipeline :
        /\ t[x[1]].pipeline[i].kind = "mount"
        /\ IsPrefix(t[x[1]].pipeline[i].prefix, Behind(p, x[2]))
        /\ y = <<t[x[1]].pipeline[i].child, x[2] + Len(t[x[1]].pipeline[i].prefix)>>
  BY DEF Enters
<1>3. t[x[1]].pipeline[i].prefix \in Seq(Segments) /\ t[x[1]].pipeline[i].child \in Routers
  BY <1>1, <1>2, MountOf
<1>4. x[2] + Len(t[x[1]].pipeline[i].prefix) \in 0 .. Len(p)
  BY <1>1, <1>2, <1>3, PrefixOfRest
<1> QED
  BY <1>2, <1>3, <1>4 DEF Points

\* In every set of points one enters no other: of those with most segments behind
\* them, as no mounts under "/" make a cycle.
LEMMA MinimalPoint ==
    ASSUME NEW t \in Tables, NEW p \in Seq(Segments), NEW S, S \subseteq Points(p), S # {}
    PROVE  \E x \in S : \A y \in S : ~Enters(t, p, x, y)
<1> DEFINE N == {x[2] : x \in S}
<1>0. Len(p) \in Nat
  BY LenProperties
<1>1. N \in SUBSET (0 .. Len(p)) /\ N # {}
  BY DEF Points
<1>2. PICK n \in N : \A i \in N : i <= n
  <2> HIDE DEF N
  <2> QED
    BY <1>0, <1>1, GreatestOf
<1>3. n \in 0 .. Len(p) /\ \A x \in S : x[2] <= n
  BY <1>1, <1>2
<1> DEFINE R == {r \in Routers : <<r, n>> \in S}
<1>4. R \in SUBSET Routers /\ R # {}
  <2>1. PICK x \in S : x[2] = n
    BY <1>2
  <2>2. x = <<x[1], n>> /\ x[1] \in Routers
    BY <2>1 DEF Points
  <2> QED
    BY <2>1, <2>2
<1>5. PICK r \in R : \A q \in R : Mount(<< >>, q) \notin ToSet(t[r].pipeline)
  <2> HIDE DEF R
  <2> QED
    BY <1>4, MountsAssumption
<1>6. <<r, n>> \in S /\ r \in Routers
  BY <1>5
<1>7. ASSUME NEW y \in S, Enters(t, p, <<r, n>>, y) PROVE FALSE
  <2>1. PICK i \in DOMAIN t[r].pipeline :
        /\ t[r].pipeline[i].kind = "mount"
        /\ IsPrefix(t[r].pipeline[i].prefix, Behind(p, n))
        /\ y = <<t[r].pipeline[i].child, n + Len(t[r].pipeline[i].prefix)>>
    BY <1>7 DEF Enters
  <2> DEFINE e == t[r].pipeline[i]
  <2>2. e.prefix \in Seq(Segments) /\ e.child \in Routers /\ e = Mount(e.prefix, e.child)
    BY <1>6, <2>1, MountOf
  <2>3. y[2] = n + Len(e.prefix) /\ y[1] = e.child
    BY <2>1
  <2> HIDE DEF e
  <2>4. Len(e.prefix) = 0
    <3>1. Len(e.prefix) \in Nat /\ n + Len(e.prefix) <= n /\ n \in Nat
      BY <1>3, <2>2, <2>3
    <3> QED
      BY <3>1
  <2>5. e.prefix = << >>
    BY <2>2, <2>4
  <2>6. e.child \in R
    <3>1. y = <<e.child, n>>
      BY <1>3, <2>1, <2>4 DEF e
    <3> QED
      BY <2>2, <3>1
  <2>7. Mount(<< >>, e.child) \in ToSet(t[r].pipeline)
    BY <2>1, <2>2, <2>5 DEF e, ToSet
  <2> QED
    BY <1>5, <2>6, <2>7
<1> QED
  BY <1>6, <1>7

\* A set of points with all that they enter, and the recursion on it.
Closed(t, p, D) ==
    /\ D \subseteq Points(p)
    /\ \A x \in D, y \in Points(p) : Enters(t, p, x, y) => y \in D

\* A solution has the value of its unfolding.
LEMMA SolvesValue ==
    ASSUME NEW t, NEW p, NEW m, NEW D, NEW F, Solves(t, p, m, D, F), NEW x \in D
    PROVE  F[x] = BodyIn(t, p, m, F, x)
BY DEF Solves

\* The answers from a point depend on those from the points it enters alone.
SameBelow(t, p, x, F, G) == \A y \in Points(p) : Enters(t, p, x, y) => F[y] = G[y]

LEMMA BodyLocal ==
    ASSUME NEW t \in Tables, NEW p \in Seq(Segments), NEW m, NEW F, NEW G, NEW x \in Points(p),
           SameBelow(t, p, x, F, G)
    PROVE  BodyIn(t, p, m, F, x) = BodyIn(t, p, m, G, x)
<1> DEFINE k == t[x[1]].pipeline
<1>1. ASSUME NEW i \in DOMAIN k PROVE EntryIn(F, p, x[2], k[i]) = EntryIn(G, p, x[2], k[i])
  <2>1. CASE k[i].kind = "mount" /\ IsPrefix(k[i].prefix, Behind(p, x[2]))
    <3> DEFINE y == <<k[i].child, x[2] + Len(k[i].prefix)>>
    <3>1. Enters(t, p, x, y)
      BY <1>1, <2>1 DEF Enters
    <3> HIDE DEF y
    <3>2. y \in Points(p)
      BY <3>1, EntersPoint
    <3>3. F[y] = G[y]
      BY <3>1, <3>2 DEF SameBelow
    <3> QED
      BY <2>1, <3>3 DEF EntryIn, y
  <2>2. CASE ~(k[i].kind = "mount" /\ IsPrefix(k[i].prefix, Behind(p, x[2])))
    BY <2>2 DEF EntryIn
  <2> QED
    BY <2>1, <2>2
<1>2. [i \in DOMAIN k |-> EntryIn(F, p, x[2], k[i])] = [i \in DOMAIN k |-> EntryIn(G, p, x[2], k[i])]
  BY <1>1
<1> QED
  BY <1>2 DEF BodyIn

\* Two solutions agree where both are defined,
LEMMA SolvesUnique ==
    ASSUME NEW t \in Tables, NEW p \in Seq(Segments), NEW m,
           NEW D, NEW E, Closed(t, p, D), Closed(t, p, E),
           NEW L, NEW M, Solves(t, p, m, D, L), Solves(t, p, m, E, M),
           NEW h \in D, h \in E
    PROVE  L[h] = M[h]
<1> DEFINE S == {g \in D : g \in E /\ L[g] # M[g]}
<1>1. ASSUME S # {} PROVE FALSE
  <2>0. S \subseteq Points(p)
    BY DEF Closed
  <2> HIDE DEF S
  <2>1. PICK g \in S : \A k \in S : ~Enters(t, p, g, k)
    BY <1>1, <2>0, MinimalPoint
  <2>2. g \in D /\ g \in E /\ g \in Points(p) /\ L[g] # M[g]
    BY <2>0, <2>1 DEF S
  <2>3. SameBelow(t, p, g, L, M)
    BY <2>1, <2>2 DEF Closed, S, SameBelow
  <2>4. L[g] = BodyIn(t, p, m, L, g) /\ M[g] = BodyIn(t, p, m, M, g)
    BY <2>2, SolvesValue
  <2>5. BodyIn(t, p, m, L, g) = BodyIn(t, p, m, M, g)
    BY <2>2, <2>3, BodyLocal
  <2> QED
    BY <2>2, <2>4, <2>5
<1> QED
  BY <1>1

\* and there is one for all points: if a point had none, one would have none though
\* all that it enters has.
LEMMA SolvesExists ==
    ASSUME NEW t \in Tables, NEW p \in Seq(Segments), NEW m
    PROVE  \E L : Solves(t, p, m, Points(p), L)
<1> DEFINE Sol(h, D, L) == Closed(t, p, D) /\ h \in D /\ Solves(t, p, m, D, L)
<1> DEFINE G == {h \in Points(p) : \E D, L : Sol(h, D, L)}
<1> DEFINE Of(h) == CHOOSE L : \E D : Sol(h, D, L)
<1> DEFINE M == [h \in G |-> Of(h)[h]]
<1>1. ASSUME NEW D, NEW L, NEW h, Sol(h, D, L) PROVE h \in G /\ M[h] = L[h]
  <2>1. h \in G
    BY <1>1 DEF Closed
  <2>2. \E E : Sol(h, E, Of(h))
    <3>1. \E K : \E E : Sol(h, E, K)
      BY <1>1
    <3> HIDE DEF Sol
    <3> QED
      BY <3>1
  <2> HIDE DEF Of, G
  <2>3. PICK E : Sol(h, E, Of(h))
    BY <2>2
  <2>4. Of(h)[h] = L[h]
    BY <1>1, <2>3, SolvesUnique
  <2>5. M[h] = Of(h)[h]
    BY <2>1
  <2> QED
    BY <2>1, <2>4, <2>5
<1>2. ASSUME NEW h \in G PROVE M[h] = BodyIn(t, p, m, M, h)
  <2>1. PICK D, L : Sol(h, D, L)
    BY <1>2
  <2>2. L[h] = BodyIn(t, p, m, L, h)
    BY <2>1, SolvesValue
  <2>3. M[h] = L[h]
    <3> HIDE DEF M, G, Sol
    <3> QED
      BY <1>1, <2>1
  <2>4. ASSUME NEW g \in Points(p), Enters(t, p, h, g) PROVE L[g] = M[g]
    <3>1. Sol(g, D, L)
      BY <2>1, <2>4 DEF Closed
    <3> HIDE DEF M, G, Sol
    <3> QED
      BY <1>1, <3>1
  <2>5. SameBelow(t, p, h, L, M)
    <3> HIDE DEF M
    <3> QED
      BY <2>4 DEF SameBelow
  <2>6. h \in Points(p)
    OBVIOUS
  <2> HIDE DEF M, G, Sol
  <2>7. BodyIn(t, p, m, L, h) = BodyIn(t, p, m, M, h)
    BY <2>5, <2>6, BodyLocal
  <2> QED
    BY <2>2, <2>3, <2>7
<1>3. Closed(t, p, G)
  <2> SUFFICES ASSUME NEW h \in G, NEW g \in Points(p), Enters(t, p, h, g) PROVE g \in G
    BY DEF Closed
  <2>1. PICK D, L : Sol(h, D, L)
    OBVIOUS
  <2>2. Sol(g, D, L)
    BY <2>1 DEF Closed
  <2> QED
    BY <2>2
<1>4. ASSUME NEW h \in Points(p), h \notin G,
             \A g \in Points(p) : g \notin G => ~Enters(t, p, h, g)
      PROVE  FALSE
  <2> DEFINE D == G \cup {h}
  <2> DEFINE L == [g \in D |-> IF g = h THEN BodyIn(t, p, m, M, h) ELSE M[g]]
  <2>0. G \subseteq Points(p)
    OBVIOUS
  <2>1. Closed(t, p, D)
    <3> HIDE DEF G
    <3> QED
      BY <1>3, <1>4, <2>0 DEF Closed
  <2>2. \A g \in G : L[g] = M[g]
    <3> HIDE DEF G, M
    <3> QED
      BY <1>4
  <2>3. ASSUME NEW g \in D PROVE L[g] = BodyIn(t, p, m, L, g)
    <3>1. g \in Points(p)
      BY <2>0
    <3>2. SameBelow(t, p, g, M, L)
      <4> HIDE DEF G, M, L
      <4> QED
        BY <1>3, <1>4, <2>2, <2>3 DEF SameBelow, Closed
    <3>3. L[g] = BodyIn(t, p, m, M, g)
      <4>1. CASE g = h
        <5> HIDE DEF G, M
        <5> QED
          BY <4>1
      <4>2. CASE g # h
        <5>1. g \in G
          BY <2>3, <4>2
        <5> HIDE DEF G, M, L
        <5> QED
          BY <1>2, <2>2, <5>1
      <4> QED
        BY <4>1, <4>2
    <3> HIDE DEF G, M, L, D
    <3>4. BodyIn(t, p, m, M, g) = BodyIn(t, p, m, L, g)
      BY <3>1, <3>2, BodyLocal
    <3> QED
      BY <3>3, <3>4
  <2>4. L = [g \in D |-> L[g]]
    <3> HIDE DEF D, M
    <3> QED
      OBVIOUS
  <2>5. Solves(t, p, m, D, L)
    <3> HIDE DEF L, D
    <3> QED
      BY <2>3, <2>4 DEF Solves
  <2>6. Sol(h, D, L)
    <3> HIDE DEF L
    <3> QED
      BY <2>1, <2>5
  <2> HIDE DEF L, D, Sol
  <2>7. h \in G
    BY <1>4, <2>6
  <2> QED
    BY <1>4, <2>7
<1>5. G = Points(p)
  <2> DEFINE S == Points(p) \ G
  <2>1. ASSUME S # {} PROVE FALSE
    <3> HIDE DEF G
    <3>1. S \subseteq Points(p)
      OBVIOUS
    <3>2. PICK h \in S : \A g \in S : ~Enters(t, p, h, g)
      BY <2>1, <3>1, MinimalPoint
    <3> QED
      BY <1>4, <3>2
  <2>2. G \subseteq Points(p)
    OBVIOUS
  <2> HIDE DEF G
  <2> QED
    BY <2>1, <2>2
<1>6. M = [h \in G |-> M[h]]
  <2> HIDE DEF G, Of
  <2> QED
    OBVIOUS
<1>7. Solves(t, p, m, Points(p), M)
  <2> HIDE DEF M, G
  <2> QED
    BY <1>2, <1>5, <1>6 DEF Solves
<1> HIDE DEF M
<1> QED
  BY <1>7

\* AnswersIn is it.
LEMMA AnswersInIs ==
    ASSUME NEW t \in Tables, NEW p \in Seq(Segments), NEW m
    PROVE  Solves(t, p, m, Points(p), AnswersIn(t, p, m))
BY SolvesExists DEF AnswersIn

\* The resolution is stated with it.
LEMMA AnswersFromIs == AnswersFrom = AnswersIn(table, path, method)
BY DEF AnswersFrom, AnswersIn, Solves, Points, BodyIn, EntryIn, Behind, OwnAnswers, OwnIn, AnswerOf,
       HasFallback, Chosen, ChosenIn, Pipeline

\* The answers of an entry, of a pipeline from its i-th entry on, of a router.
LEMMA AnswersTyped ==
    ASSUME NEW t \in Tables, NEW p \in Seq(Segments), NEW m, NEW x \in Points(p)
    PROVE  AnswersIn(t, p, m)[x] \in Seq(Answers)
<1> DEFINE F == AnswersIn(t, p, m)
<1> DEFINE S == {y \in Points(p) : F[y] \notin Seq(Answers)}
<1>0. Solves(t, p, m, Points(p), F)
  BY AnswersInIs
<1> HIDE DEF F
<1>1. ASSUME S # {} PROVE FALSE
  <2>0. S \subseteq Points(p)
    OBVIOUS
  <2>1. PICK y \in S : \A z \in S : ~Enters(t, p, y, z)
    <3> HIDE DEF S
    <3> QED
      BY <1>1, <2>0, MinimalPoint
  <2>2. y \in Points(p) /\ y[1] \in Routers /\ F[y] \notin Seq(Answers)
    BY <2>1 DEF Points
  <2> DEFINE k == t[y[1]].pipeline
  <2>3. ASSUME NEW i \in DOMAIN k PROVE EntryIn(F, p, y[2], k[i]) \in Seq(Answers)
    <3>1. CASE k[i].kind = "mount" /\ IsPrefix(k[i].prefix, Behind(p, y[2]))
      <4> DEFINE z == <<k[i].child, y[2] + Len(k[i].prefix)>>
      <4>1. Enters(t, p, y, z)
        BY <2>3, <3>1 DEF Enters
      <4> HIDE DEF z
      <4>2. z \in Points(p)
        BY <2>2, <4>1, EntersPoint
      <4>3. F[z] \in Seq(Answers)
        BY <2>1, <4>1, <4>2
      <4> QED
        BY <3>1, <4>3 DEF EntryIn, z
    <3>2. CASE ~(k[i].kind = "mount" /\ IsPrefix(k[i].prefix, Behind(p, y[2])))
      BY <3>2 DEF EntryIn
    <3> QED
      BY <3>1, <3>2
  <2> DEFINE e == [i \in DOMAIN k |-> EntryIn(F, p, y[2], k[i])]
  <2>4. e \in Seq(Seq(Answers))
    <3>1. DOMAIN k = 1 .. Len(k) /\ Len(k) \in Nat
      BY <2>2, MountOf
    <3> HIDE DEF k
    <3>2. e \in [1 .. Len(k) -> Seq(Answers)]
      BY <2>3, <3>1
    <3> HIDE DEF e
    <3> QED
      BY <3>1, <3>2, FunctionIsSeq
  <2>5. F[y] = FlattenSeq(e) \o OwnIn(t, m, y[1], NormalizePath(Behind(p, y[2])))
    BY <1>0, <2>2, SolvesValue DEF BodyIn
  <2> HIDE DEF e
  <2>6. FlattenSeq(e) \in Seq(Answers)
    BY <2>4, FlattenTyped
  <2>7. OwnIn(t, m, y[1], NormalizePath(Behind(p, y[2]))) \in Seq(Answers)
    BY <2>2, OwnIs
  <2> QED
    BY <2>2, <2>5, <2>6, <2>7, ConcatProperties
<1>2. F[x] \in Seq(Answers)
  BY <1>1
<1> QED
  BY <1>2 DEF F

EntryAnswers(t, p, m, n, e) == EntryIn(AnswersIn(t, p, m), p, n, e)

PipeAnswers(t, p, m, r, n, i) ==
    FlattenSeq([j \in 1 .. (Len(t[r].pipeline) - i + 1) |->
                   EntryAnswers(t, p, m, n, t[r].pipeline[j + i - 1])])

RoutesAnswers(t, p, m, r, n) == OwnIn(t, m, r, NormalizePath(Behind(p, n)))

\* The answers of an entry are answers.
LEMMA EntryTyped ==
    ASSUME NEW t \in Tables, NEW p \in Seq(Segments), NEW m,
           NEW r \in Routers, NEW n \in 0 .. Len(p), NEW i \in DOMAIN t[r].pipeline
    PROVE  EntryAnswers(t, p, m, n, t[r].pipeline[i]) \in Seq(Answers)
<1> DEFINE e == t[r].pipeline[i]
<1>1. CASE e.kind = "mount" /\ IsPrefix(e.prefix, Behind(p, n))
  <2>1. e.prefix \in Seq(Segments) /\ e.child \in Routers
    BY <1>1, MountOf
  <2>2. n + Len(e.prefix) \in 0 .. Len(p)
    BY <1>1, <2>1, PrefixOfRest
  <2>3. <<e.child, n + Len(e.prefix)>> \in Points(p)
    BY <2>1, <2>2 DEF Points
  <2>4. AnswersIn(t, p, m)[<<e.child, n + Len(e.prefix)>>] \in Seq(Answers)
    BY <2>3, AnswersTyped
  <2> QED
    BY <1>1, <2>4 DEF EntryAnswers, EntryIn
<1>2. CASE ~(e.kind = "mount" /\ IsPrefix(e.prefix, Behind(p, n)))
  BY <1>2 DEF EntryAnswers, EntryIn
<1> QED
  BY <1>1, <1>2

\* The answers of a pipeline are those of the first entry, then those of the others.
LEMMA PipeIs ==
    ASSUME NEW t \in Tables, NEW p \in Seq(Segments), NEW m,
           NEW r \in Routers, NEW n \in 0 .. Len(p), NEW i \in Nat \ {0}
    PROVE  /\ PipeAnswers(t, p, m, r, n, i) \in Seq(Answers)
           /\ i > Len(t[r].pipeline) => PipeAnswers(t, p, m, r, n, i) = << >>
           /\ i <= Len(t[r].pipeline) =>
                 PipeAnswers(t, p, m, r, n, i) =
                    EntryAnswers(t, p, m, n, t[r].pipeline[i]) \o PipeAnswers(t, p, m, r, n, i + 1)
<1> DEFINE k == t[r].pipeline
<1> DEFINE ans(j) == EntryAnswers(t, p, m, n, k[j])
<1> DEFINE s(d) == [j \in 1 .. (Len(k) - d + 1) |-> ans(j + d - 1)]
<1>1. Len(k) \in Nat /\ DOMAIN k = 1 .. Len(k) /\ \A j \in 1 .. Len(k) : ans(j) \in Seq(Answers)
  BY MountOf, EntryTyped
<1>2. /\ PipeAnswers(t, p, m, r, n, i) = FlattenSeq(s(i))
      /\ PipeAnswers(t, p, m, r, n, i + 1) = FlattenSeq(s(i + 1))
  BY DEF PipeAnswers
<1> HIDE DEF k, ans
<1>3. \A d \in Nat \ {0} : s(d) \in Seq(Seq(Answers))
  <2> SUFFICES ASSUME NEW d \in Nat \ {0} PROVE s(d) \in Seq(Seq(Answers))
    OBVIOUS
  <2>1. CASE Len(k) - d + 1 \in Nat
    <3> DEFINE c == Len(k) - d + 1
    <3>1. \A j \in 1 .. c : j + d - 1 \in 1 .. Len(k)
      BY <1>1
    <3> HIDE DEF c
    <3>2. [j \in 1 .. c |-> ans(j + d - 1)] \in [1 .. c -> Seq(Answers)]
      BY <1>1, <3>1
    <3>3. [j \in 1 .. c |-> ans(j + d - 1)] \in Seq(Seq(Answers))
      BY <2>1, <3>2, FunctionIsSeq DEF c
    <3> QED
      BY <3>3 DEF c
  <2>2. CASE Len(k) - d + 1 \notin Nat
    <3>1. 1 .. (Len(k) - d + 1) = {}
      BY <1>1, <2>2
    <3>2. s(d) = << >>
      BY <3>1
    <3> HIDE DEF s
    <3> QED
      BY <3>2
  <2> QED
    BY <2>1, <2>2
<1>4. PipeAnswers(t, p, m, r, n, i) \in Seq(Answers)
  <2> HIDE DEF s
  <2> QED
    BY <1>2, <1>3, FlattenTyped
<1>5. i > Len(k) => PipeAnswers(t, p, m, r, n, i) = << >>
  <2> SUFFICES ASSUME i > Len(k) PROVE PipeAnswers(t, p, m, r, n, i) = << >>
    OBVIOUS
  <2>1. 1 .. (Len(k) - i + 1) = {}
    BY <1>1
  <2>2. s(i) = << >>
    BY <2>1
  <2> HIDE DEF s
  <2> QED
    BY <1>2, <2>2, FlattenEmpty
<1>6. ASSUME i <= Len(k)
      PROVE  PipeAnswers(t, p, m, r, n, i) = ans(i) \o PipeAnswers(t, p, m, r, n, i + 1)
  <2>1. /\ i \in 1 .. Len(k) /\ i + 1 \in Nat \ {0}
        /\ Len(k) - i + 1 \in Nat /\ Len(k) - (i + 1) + 1 \in Nat
        /\ Len(k) - i + 1 = (Len(k) - (i + 1) + 1) + 1
    BY <1>1, <1>6
  <2>2. PICK c \in Nat : c = Len(k) - (i + 1) + 1
    BY <2>1
  <2>3. s(i + 1) = [j \in 1 .. c |-> ans(j + (i + 1) - 1)] /\ s(i) = [j \in 1 .. c + 1 |-> ans(j + i - 1)]
    BY <2>1, <2>2
  <2>4. PICK u \in Seq(Seq(Answers)) : u = s(i + 1)
    <3> HIDE DEF s
    <3> QED
      BY <1>3, <2>1
  <2>5. PICK v \in Seq(Seq(Answers)) : v = s(i)
    <3> HIDE DEF s
    <3> QED
      BY <1>3
  <2> HIDE DEF s
  <2>6. Len(u) = c /\ Len(v) = c + 1
    <3>1. DOMAIN u = 1 .. c /\ DOMAIN v = 1 .. c + 1 /\ c + 1 \in Nat
      BY <2>3, <2>4, <2>5
    <3>2. \A w \in Seq(Seq(Answers)), d \in Nat : DOMAIN w = 1 .. d => Len(w) = d
      OBVIOUS
    <3> QED
      BY <3>1, <3>2
  <2>7. PICK a \in Seq(Answers) : a = ans(i)
    BY <1>1, <2>1
  <2>8. /\ <<a>> \o u \in Seq(Seq(Answers)) /\ Len(<<a>> \o u) = c + 1
        /\ (<<a>> \o u)[1] = a
        /\ \A j \in 1 .. c : (<<a>> \o u)[j + 1] = u[j]
    BY <2>6, ConsIs
  <2>9. ASSUME NEW j \in 1 .. c + 1 PROVE (<<a>> \o u)[j] = v[j]
    <3>1. v[j] = ans(j + i - 1)
      BY <2>3, <2>5
    <3>2. CASE j = 1
      <4>1. j + i - 1 = i
        BY <3>2
      <4> QED
        BY <2>7, <2>8, <3>1, <3>2, <4>1
    <3>3. CASE j # 1
      <4>1. j - 1 \in 1 .. c /\ (j - 1) + 1 = j
        BY <2>2, <3>3
      <4>2. (<<a>> \o u)[j] = u[j - 1]
        <5> DEFINE w == <<a>> \o u
        <5> HIDE DEF w
        <5>1. w[(j - 1) + 1] = u[j - 1]
          BY <2>8, <4>1 DEF w
        <5> QED
          BY <4>1, <5>1 DEF w
      <4>3. u[j - 1] = ans((j - 1) + (i + 1) - 1)
        BY <2>3, <2>4, <4>1
      <4>4. (j - 1) + (i + 1) - 1 = j + i - 1
        BY <2>1
      <4> QED
        BY <3>1, <4>2, <4>3, <4>4
    <3> QED
      BY <3>2, <3>3
  <2>10. <<a>> \o u = v
    BY <2>5, <2>6, <2>8, <2>9, SeqEqual
  <2>11. FlattenSeq(v) = a \o FlattenSeq(u)
    BY <2>10, FlattenPrepend
  <2> QED
    BY <1>2, <2>4, <2>5, <2>7, <2>11
<1> QED
  BY <1>4, <1>5, <1>6 DEF k, ans

\* A router's answers are those of its pipeline, then those of its routes.
LEMMA RouterAnswersAre ==
    ASSUME NEW t \in Tables, NEW p \in Seq(Segments), NEW m,
           NEW r \in Routers, NEW n \in 0 .. Len(p)
    PROVE  /\ AnswersIn(t, p, m)[<<r, n>>] =
                 PipeAnswers(t, p, m, r, n, 1) \o RoutesAnswers(t, p, m, r, n)
           /\ RoutesAnswers(t, p, m, r, n) \in Seq(Answers)
<1> DEFINE k == t[r].pipeline
<1> DEFINE F == AnswersIn(t, p, m)
<1>1. Len(k) \in Nat /\ DOMAIN k = 1 .. Len(k)
  BY MountOf
<1>2. <<r, n>> \in Points(p)
  BY DEF Points
<1>3. F[<<r, n>>] = BodyIn(t, p, m, F, <<r, n>>)
  BY <1>2, AnswersInIs, SolvesValue
<1> HIDE DEF F
<1>4. F[<<r, n>>] = FlattenSeq([i \in DOMAIN k |-> EntryIn(F, p, n, k[i])])
                       \o OwnIn(t, m, r, NormalizePath(Behind(p, n)))
  BY <1>3 DEF BodyIn
<1>5. [i \in DOMAIN k |-> EntryIn(F, p, n, k[i])]
        = [j \in 1 .. (Len(k) - 1 + 1) |-> EntryAnswers(t, p, m, n, k[j + 1 - 1])]
  <2>1. Len(k) - 1 + 1 = Len(k) /\ \A j \in 1 .. Len(k) : j + 1 - 1 = j
    BY <1>1
  <2>2. \A j \in 1 .. Len(k) : EntryAnswers(t, p, m, n, k[j]) = EntryIn(F, p, n, k[j])
    BY DEF EntryAnswers, F
  <2> HIDE DEF k
  <2> QED
    BY <1>1, <2>1, <2>2
<1>6. OwnIn(t, m, r, NormalizePath(Behind(p, n))) \in Seq(Answers)
  BY OwnIs
<1> QED
  BY <1>4, <1>5, <1>6 DEF PipeAnswers, RoutesAnswers, F

-----------------------------------------------------------------------------
(* What a next function leads to, in answers. *)

\* The answers of an element of a next function, with the one it is followed by.
PartAnswers(t, p, m, e, following) ==
    CASE e.kind = "chain"  -> PipeAnswers(t, p, m, e.router, Len(following.prefix), e.index)
      [] e.kind = "routes" -> RoutesAnswers(t, p, m, e.router, Len(e.prefix))
      [] OTHER             -> << >>

\* The one it is followed by, or what ends a next function.
Following(k, i) == IF i < Len(k) THEN k[i + 1] ELSE Outer
FirstOf(k) == IF Len(k) > 0 THEN k[1] ELSE Outer

\* The answers of an element before a next function whose answers are u.
AnswersFirst(t, p, m, e, k, u) ==
    IF e.kind = "outer" THEN <<[by |-> "outer"]>> ELSE PartAnswers(t, p, m, e, FirstOf(k)) \o u

\* u are the answers of a next function k, one after the other until none is left.
\* What follows the routers of an application ends it.
Behind404 == <<[by |-> "404"]>>
BehindOuter == <<[by |-> "outer"]>>

AheadBy(t, p, m, k, a) ==
    /\ a \in [1 .. Len(k) + 1 -> Seq(Answers)]
    /\ a[Len(k) + 1] = Behind404
    /\ \A i \in 1 .. Len(k) :
          a[i] = IF k[i].kind = "outer" THEN BehindOuter
                 ELSE PartAnswers(t, p, m, k[i], Following(k, i)) \o a[i + 1]

Ahead(t, p, m, k, u) == \E a : AheadBy(t, p, m, k, a) /\ a[1] = u

\* They are answers.
LEMMA AheadTyped ==
    ASSUME NEW t, NEW p, NEW m, NEW k \in Seq(Elements), NEW u, Ahead(t, p, m, k, u)
    PROVE  u \in Seq(Answers)
<1>1. PICK a : AheadBy(t, p, m, k, a) /\ a[1] = u
  BY DEF Ahead
<1>2. 1 \in 1 .. Len(k) + 1
  BY LenProperties
<1> QED
  BY <1>1, <1>2 DEF AheadBy

\* Nothing is left.
LEMMA AheadNil ==
    ASSUME NEW t, NEW p, NEW m, NEW u
    PROVE  Ahead(t, p, m, << >>, u) <=> u = Behind404
<1>1. Behind404 \in Seq(Answers)
  BY DEF Answers, Behind404
<1>2. ASSUME u = Behind404 PROVE Ahead(t, p, m, << >>, u)
  <2> DEFINE a == [i \in 1 .. 1 |-> Behind404]
  <2>1. a \in [1 .. 0 + 1 -> Seq(Answers)] /\ a[0 + 1] = Behind404 /\ a[1] = u
    BY <1>1, <1>2
  <2> HIDE DEF a
  <2>2. AheadBy(t, p, m, << >>, a)
    BY <2>1 DEF AheadBy
  <2> QED
    BY <2>1, <2>2 DEF Ahead
<1>3. ASSUME Ahead(t, p, m, << >>, u) PROVE u = Behind404
  BY <1>3 DEF Ahead, AheadBy
<1> QED
  BY <1>2, <1>3

\* One element more.
LEMMA AheadCons ==
    ASSUME NEW t, NEW p, NEW m, NEW k \in Seq(Elements), NEW e \in Elements,
           NEW u, Ahead(t, p, m, k, u),
           NEW v \in Seq(Answers),
           v = AnswersFirst(t, p, m, e, k, u)
    PROVE  Ahead(t, p, m, <<e>> \o k, v)
<1> DEFINE w == <<e>> \o k
<1>1. /\ w \in Seq(Elements) /\ Len(w) = Len(k) + 1 /\ Len(k) \in Nat
      /\ w[1] = e /\ \A i \in 1 .. Len(k) : w[i + 1] = k[i]
  BY ConsIs
<1> HIDE DEF w
<1>2. PICK a : AheadBy(t, p, m, k, a) /\ a[1] = u
  BY DEF Ahead
<1>3. /\ a \in [1 .. Len(k) + 1 -> Seq(Answers)]
      /\ a[Len(k) + 1] = Behind404
      /\ \A i \in 1 .. Len(k) :
            a[i] = IF k[i].kind = "outer" THEN BehindOuter
                   ELSE PartAnswers(t, p, m, k[i], Following(k, i)) \o a[i + 1]
  BY <1>2 DEF AheadBy
<1> DEFINE c == [i \in 1 .. Len(w) + 1 |-> IF i = 1 THEN v ELSE a[i - 1]]
<1>4. c \in [1 .. Len(w) + 1 -> Seq(Answers)]
  <2>1. \A i \in 1 .. Len(w) + 1 : i # 1 => i - 1 \in 1 .. Len(k) + 1
    BY <1>1
  <2> QED
    BY <1>3, <2>1
<1>5. c[1] = v /\ \A i \in 1 .. Len(k) + 1 : c[i + 1] = a[i]
  <2>1. 1 \in 1 .. Len(w) + 1
    BY <1>1
  <2>2. \A i \in 1 .. Len(k) + 1 : i + 1 \in 1 .. Len(w) + 1 /\ i + 1 # 1 /\ (i + 1) - 1 = i
    BY <1>1
  <2> QED
    BY <2>1, <2>2
<1> HIDE DEF c
<1>6. ASSUME NEW i \in 1 .. Len(w)
      PROVE  c[i] = IF w[i].kind = "outer" THEN BehindOuter
                    ELSE PartAnswers(t, p, m, w[i], Following(w, i)) \o c[i + 1]
  <2>1. CASE i = 1
    <3>1. c[i + 1] = u
      <4>1. 1 \in 1 .. Len(k) + 1
        BY <1>1
      <4>2. c[1 + 1] = a[1]
        BY <1>5, <4>1
      <4> QED
        BY <1>2, <2>1, <4>2
    <3>2. Following(w, i) = FirstOf(k)
      <4>1. CASE Len(k) > 0
        <5>1. 1 \in 1 .. Len(k) /\ i < Len(w)
          BY <1>1, <2>1, <4>1
        <5> QED
          BY <1>1, <2>1, <4>1, <5>1 DEF Following, FirstOf
      <4>2. CASE ~(Len(k) > 0)
        <5>1. ~(i < Len(w))
          BY <1>1, <2>1, <4>2
        <5> QED
          BY <4>2, <5>1 DEF Following, FirstOf
      <4> QED
        BY <4>1, <4>2
    <3> QED
      BY <1>1, <1>5, <2>1, <3>1, <3>2 DEF AnswersFirst, BehindOuter
  <2>2. CASE i # 1
    <3> DEFINE j == i - 1
    <3>1. j \in 1 .. Len(k) /\ j \in 1 .. Len(k) + 1 /\ j + 1 \in 1 .. Len(k) + 1 /\ j + 1 = i
      BY <1>1, <2>2
    <3> HIDE DEF j
    <3>2. c[j + 1] = a[j] /\ c[(j + 1) + 1] = a[j + 1]
      BY <1>5, <3>1
    <3>3. w[j + 1] = k[j]
      BY <1>1, <3>1
    <3>4. Following(w, i) = Following(k, j)
      <4>1. CASE j < Len(k)
        <5>1. j + 1 \in 1 .. Len(k) /\ i < Len(w)
          BY <1>1, <3>1, <4>1
        <5>2. w[(j + 1) + 1] = k[j + 1]
          BY <1>1, <5>1
        <5> QED
          BY <3>1, <4>1, <5>1, <5>2 DEF Following
      <4>2. CASE ~(j < Len(k))
        <5>1. ~(i < Len(w))
          BY <1>1, <3>1, <4>2
        <5> QED
          BY <4>2, <5>1 DEF Following
      <4> QED
        BY <4>1, <4>2
    <3> QED
      BY <1>3, <3>1, <3>2, <3>3, <3>4
  <2> QED
    BY <2>1, <2>2
<1>7. c[Len(w) + 1] = Behind404
  <2>1. Len(k) + 1 \in 1 .. Len(k) + 1 /\ Len(w) + 1 = (Len(k) + 1) + 1
    BY <1>1
  <2> QED
    BY <1>3, <1>5, <2>1
<1>8. AheadBy(t, p, m, w, c)
  BY <1>4, <1>6, <1>7 DEF AheadBy
<1>9. Ahead(t, p, m, w, v)
  BY <1>5, <1>8 DEF Ahead
<1> QED
  BY <1>9 DEF w

\* One element less.
LEMMA AheadTail ==
    ASSUME NEW t, NEW p, NEW m, NEW k \in Seq(Elements), k # << >>, NEW u, Ahead(t, p, m, k, u)
    PROVE  \E v \in Seq(Answers) :
              /\ Ahead(t, p, m, Tail(k), v)
              /\ u = AnswersFirst(t, p, m, Head(k), Tail(k), v)
<1> DEFINE w == Tail(k)
<1>1. /\ Len(k) \in Nat /\ Len(k) >= 1
      /\ Head(k) = k[1] /\ k[1] \in Elements
      /\ w \in Seq(Elements) /\ Len(w) = Len(k) - 1
      /\ \A i \in 1 .. Len(k) - 1 : w[i] = k[i + 1]
  BY TailIs
<1> HIDE DEF w
<1>2. PICK a : AheadBy(t, p, m, k, a) /\ a[1] = u
  BY DEF Ahead
<1>3. /\ a \in [1 .. Len(k) + 1 -> Seq(Answers)]
      /\ a[Len(k) + 1] = Behind404
      /\ \A i \in 1 .. Len(k) :
            a[i] = IF k[i].kind = "outer" THEN BehindOuter
                   ELSE PartAnswers(t, p, m, k[i], Following(k, i)) \o a[i + 1]
  BY <1>2 DEF AheadBy
<1> DEFINE c == [i \in 1 .. Len(w) + 1 |-> a[i + 1]]
<1>4. c \in [1 .. Len(w) + 1 -> Seq(Answers)] /\ \A i \in 1 .. Len(w) + 1 : c[i] = a[i + 1]
  <2>1. \A i \in 1 .. Len(w) + 1 : i + 1 \in 1 .. Len(k) + 1
    BY <1>1
  <2> QED
    BY <1>3, <2>1
<1> HIDE DEF c
<1>5. ASSUME NEW i \in 1 .. Len(w) PROVE Following(w, i) = Following(k, i + 1)
  <2>1. CASE i < Len(w)
    <3>1. i + 1 \in 1 .. Len(k) - 1 /\ i + 1 < Len(k)
      BY <1>1, <2>1
    <3>2. w[i + 1] = k[(i + 1) + 1]
      BY <1>1, <3>1
    <3> QED
      BY <2>1, <3>1, <3>2 DEF Following
  <2>2. CASE ~(i < Len(w))
    <3>1. ~(i + 1 < Len(k))
      BY <1>1, <2>2
    <3> QED
      BY <2>2, <3>1 DEF Following
  <2> QED
    BY <2>1, <2>2
<1>6. ASSUME NEW i \in 1 .. Len(w)
      PROVE  c[i] = IF w[i].kind = "outer" THEN BehindOuter
                    ELSE PartAnswers(t, p, m, w[i], Following(w, i)) \o c[i + 1]
  <2>1. i \in 1 .. Len(w) + 1 /\ i + 1 \in 1 .. Len(w) + 1 /\ i + 1 \in 1 .. Len(k)
        /\ i \in 1 .. Len(k) - 1
    BY <1>1
  <2>2. c[i] = a[i + 1] /\ c[i + 1] = a[(i + 1) + 1] /\ w[i] = k[i + 1]
    BY <1>1, <1>4, <2>1
  <2> QED
    BY <1>3, <1>5, <2>1, <2>2
<1>7. c[Len(w) + 1] = Behind404
  <2>1. Len(w) + 1 \in 1 .. Len(w) + 1 /\ (Len(w) + 1) + 1 = Len(k) + 1
    BY <1>1
  <2> QED
    BY <1>3, <1>4, <2>1
<1>8. AheadBy(t, p, m, w, c)
  BY <1>4, <1>6, <1>7 DEF AheadBy
<1>9. /\ c[1] \in Seq(Answers) /\ c[1] = a[2] /\ 1 \in 1 .. Len(k)
      /\ Following(k, 1) = FirstOf(w)
  <2>1. 1 \in 1 .. Len(w) + 1 /\ 1 \in 1 .. Len(k) /\ 1 + 1 = 2
    BY <1>1
  <2>2. CASE 1 < Len(k)
    <3>1. 1 \in 1 .. Len(k) - 1 /\ Len(w) > 0
      BY <1>1, <2>2
    <3> QED
      BY <1>1, <1>4, <2>1, <2>2, <3>1 DEF Following, FirstOf
  <2>3. CASE ~(1 < Len(k))
    <3>1. ~(Len(w) > 0)
      BY <1>1, <2>3
    <3> QED
      BY <1>4, <2>1, <2>3, <3>1 DEF Following, FirstOf
  <2> QED
    BY <2>2, <2>3
<1>10. u = IF k[1].kind = "outer" THEN BehindOuter
           ELSE PartAnswers(t, p, m, k[1], FirstOf(w)) \o c[1]
  <2>1. a[1] = IF k[1].kind = "outer" THEN BehindOuter
               ELSE PartAnswers(t, p, m, k[1], Following(k, 1)) \o a[1 + 1]
    BY <1>3, <1>9
  <2>2. 1 + 1 = 2
    OBVIOUS
  <2> QED
    BY <1>2, <1>9, <2>1, <2>2
<1>11. Ahead(t, p, m, w, c[1])
  BY <1>8 DEF Ahead
<1>12. u = AnswersFirst(t, p, m, k[1], w, c[1])
  BY <1>10 DEF AnswersFirst, BehindOuter
<1> QED
  BY <1>1, <1>9, <1>11, <1>12 DEF w

\* Nothing before a sequence of answers, and three of them.
LEMMA Joined ==
    /\ \A u \in Seq(Answers) : << >> \o u = u
    /\ \A u, v, w \in Seq(Answers) : (u \o v) \o w = u \o (v \o w) /\ u \o v \in Seq(Answers)
    /\ << >> \in Seq(Answers) /\ Behind404 \in Seq(Answers) /\ BehindOuter \in Seq(Answers)
<1>1. \A u \in Seq(Answers) : << >> \o u = u
  OBVIOUS
<1>2. \A u, v, w \in Seq(Answers) : (u \o v) \o w = u \o (v \o w)
  OBVIOUS
<1>3. \A u, v \in Seq(Answers) : u \o v \in Seq(Answers)
  OBVIOUS
<1>4. << >> \in Seq(Answers) /\ Behind404 \in Seq(Answers) /\ BehindOuter \in Seq(Answers)
  BY DEF Answers, Behind404, BehindOuter
<1> QED
  BY <1>1, <1>2, <1>3, <1>4
\* Answers one after the other.
Join(u, v) == u \o v

\* They are answers, however they are put together.
LEMMA JoinIs ==
    ASSUME NEW u \in Seq(Answers), NEW v \in Seq(Answers), NEW w \in Seq(Answers)
    PROVE  /\ Join(u, v) \in Seq(Answers)
           /\ Join(Join(u, v), w) = Join(u, Join(v, w))
           /\ Join(<< >>, u) = u
BY Joined DEF Join

\* The answers of one element.
LEMMA FirstIs ==
    ASSUME NEW t, NEW p, NEW m, NEW e, NEW k, NEW u \in Seq(Answers)
    PROVE  /\ e.kind = "chain" =>
                 AnswersFirst(t, p, m, e, k, u) =
                    Join(PipeAnswers(t, p, m, e.router, Len(FirstOf(k).prefix), e.index), u)
           /\ e.kind = "routes" =>
                 AnswersFirst(t, p, m, e, k, u) =
                    Join(RoutesAnswers(t, p, m, e.router, Len(e.prefix)), u)
           /\ e.kind = "back" => AnswersFirst(t, p, m, e, k, u) = u
           /\ e.kind = "outer" => AnswersFirst(t, p, m, e, k, u) = BehindOuter
<1>1. << >> \o u = u
  BY Joined
<1> QED
  BY <1>1 DEF AnswersFirst, PartAnswers, BehindOuter, Join

\* A sequence is a prefix of another that has its elements first.
LEMMA PrefixIs ==
    ASSUME NEW T, NEW q \in Seq(T), NEW p \in Seq(T)
    PROVE  IsPrefix(q, p) <=> Len(q) <= Len(p) /\ \A i \in 1 .. Len(q) : q[i] = p[i]
<1>1. Len(q) \in Nat /\ Len(p) \in Nat
  BY LenProperties
<1>2. SubSeq(q, 1, Len(q)) = q
  BY <1>1, SubSeqFull
<1>3. CASE Len(q) <= Len(p)
  <2> DEFINE b == SubSeq(p, 1, Len(q))
  <2>1. b \in Seq(T) /\ Len(b) = Len(q) /\ \A i \in 1 .. Len(q) : b[i] = p[i]
    <3>1. CASE Len(q) = 0
      BY <1>1, <3>1
    <3>2. CASE Len(q) # 0
      <4>1. 1 \in 1 .. Len(p) + 1 /\ Len(q) \in 1 .. Len(p) /\ Len(q) - 1 + 1 = Len(q)
        BY <1>1, <1>3, <3>2
      <4>2. \A i \in 1 .. Len(q) : 1 + i - 1 = i
        BY <1>1
      <4> QED
        BY <1>1, <4>1, <4>2
    <3> QED
      BY <3>1, <3>2
  <2>2. IsPrefix(q, p) <=> q = b
    BY <1>2, <1>3 DEF IsPrefix
  <2> HIDE DEF b
  <2>3. q = b <=> \A i \in 1 .. Len(q) : q[i] = b[i]
    BY <2>1, SeqEqual
  <2> QED
    BY <1>3, <2>1, <2>2, <2>3
<1>4. CASE ~(Len(q) <= Len(p))
  BY <1>4 DEF IsPrefix
<1> QED
  BY <1>3, <1>4

\* Of two prefixes one after the other the second is a prefix of what is behind
\* the first.
LEMMA PrefixBehind ==
    ASSUME NEW p \in Seq(Segments), NEW q \in Seq(Segments), NEW s \in Seq(Segments), IsPrefix(q, p)
    PROVE  IsPrefix(q \o s, p) <=> IsPrefix(s, Behind(p, Len(q)))
<1> DEFINE b == Behind(p, Len(q))
<1> DEFINE c == q \o s
<1>1. Len(q) \in Nat /\ Len(p) \in Nat /\ Len(s) \in Nat
  BY LenProperties
<1>2. Len(q) <= Len(p) /\ \A i \in 1 .. Len(q) : q[i] = p[i]
  BY PrefixIs
<1>3. Len(q) \in 0 .. Len(p)
  BY <1>1, <1>2
<1>4. b \in Seq(Segments) /\ Len(b) = Len(p) - Len(q) /\ \A i \in 1 .. Len(p) - Len(q) : b[i] = p[Len(q) + i]
  BY <1>3, BehindIs
<1>5. /\ c \in Seq(Segments) /\ Len(c) = Len(q) + Len(s)
      /\ \A i \in 1 .. Len(c) : c[i] = IF i <= Len(q) THEN q[i] ELSE s[i - Len(q)]
  BY ConcatProperties
<1> HIDE DEF b, c
<1>6. IsPrefix(c, p) <=> Len(c) <= Len(p) /\ \A i \in 1 .. Len(c) : c[i] = p[i]
  BY <1>5, PrefixIs
<1>7. IsPrefix(s, b) <=> Len(s) <= Len(b) /\ \A i \in 1 .. Len(s) : s[i] = b[i]
  BY <1>4, PrefixIs
<1>8. Len(c) <= Len(p) <=> Len(s) <= Len(b)
  BY <1>1, <1>4, <1>5
<1>9. ASSUME Len(s) <= Len(b)
      PROVE  (\A i \in 1 .. Len(c) : c[i] = p[i]) <=> (\A i \in 1 .. Len(s) : s[i] = b[i])
  <2>1. ASSUME NEW i \in 1 .. Len(s)
        PROVE  /\ Len(q) + i \in 1 .. Len(c) /\ c[Len(q) + i] = s[i]
               /\ b[i] = p[Len(q) + i]
    <3>1. Len(q) + i \in 1 .. Len(c) /\ ~(Len(q) + i <= Len(q)) /\ (Len(q) + i) - Len(q) = i
      BY <1>1, <1>5
    <3>2. i \in 1 .. Len(p) - Len(q)
      BY <1>1, <1>4, <1>9
    <3> QED
      BY <1>4, <1>5, <3>1, <3>2
  <2>2. ASSUME NEW i \in 1 .. Len(c)
        PROVE  \/ i \in 1 .. Len(q) /\ c[i] = p[i]
               \/ i - Len(q) \in 1 .. Len(s) /\ Len(q) + (i - Len(q)) = i
    <3>1. CASE i <= Len(q)
      <4>1. i \in 1 .. Len(q)
        BY <1>1, <1>5, <3>1
      <4> QED
        BY <1>2, <1>5, <3>1, <4>1
    <3>2. CASE ~(i <= Len(q))
      BY <1>1, <1>5, <3>2
    <3> QED
      BY <3>1, <3>2
  <2>3. ASSUME \A i \in 1 .. Len(c) : c[i] = p[i], NEW i \in 1 .. Len(s) PROVE s[i] = b[i]
    BY <2>1, <2>3
  <2>4. ASSUME \A i \in 1 .. Len(s) : s[i] = b[i], NEW i \in 1 .. Len(c) PROVE c[i] = p[i]
    <3>1. CASE i \in 1 .. Len(q) /\ c[i] = p[i]
      BY <3>1
    <3>2. CASE i - Len(q) \in 1 .. Len(s) /\ Len(q) + (i - Len(q)) = i
      <4> DEFINE j == i - Len(q)
      <4>1. j \in 1 .. Len(s) /\ Len(q) + j = i
        BY <3>2
      <4> HIDE DEF j
      <4>2. c[Len(q) + j] = s[j] /\ b[j] = p[Len(q) + j]
        BY <2>1, <4>1
      <4> QED
        BY <2>4, <4>1, <4>2
    <3> QED
      BY <2>2, <3>1, <3>2
  <2> QED
    BY <2>3, <2>4
<1> QED
  BY <1>6, <1>7, <1>8, <1>9 DEF b, c

\* A position in a pipeline, and the prefix of the routes behind it.
LEMMA ChainIs ==
    ASSUME NEW k \in Seq(Elements), k # << >>, Head(k).kind = "chain",
           NEW p \in Seq(Segments), Linked(k), Under(k, p)
    PROVE  /\ Head(k).router \in Routers /\ Head(k).index \in Nat \ {0}
           /\ Tail(k) \in Seq(Elements) /\ FirstOf(Tail(k)) = k[2]
           /\ k[2].prefix \in Seq(Segments) /\ IsPrefix(k[2].prefix, p)
           /\ Len(k[2].prefix) \in 0 .. Len(p)
<1>1. /\ Len(k) \in Nat /\ Len(k) >= 1 /\ Head(k) = k[1] /\ k[1] \in Elements
      /\ Tail(k) \in Seq(Elements) /\ Len(Tail(k)) = Len(k) - 1
      /\ \A i \in 1 .. Len(k) - 1 : Tail(k)[i] = k[i + 1]
  BY TailIs
<1>2. Head(k).router \in Routers /\ Head(k).index \in Nat \ {0}
  BY <1>1, ElementKinds
<1>3. Len(k) >= 2 /\ k[2].kind = "routes"
  <2>1. 1 \in 1 .. Len(k) /\ 1 + 1 = 2
    BY <1>1
  <2> QED
    BY <1>1, <2>1 DEF Linked
<1>4. 1 \in 1 .. Len(k) - 1 /\ 2 \in 1 .. Len(k) /\ 1 + 1 = 2 /\ Len(Tail(k)) > 0
  BY <1>1, <1>3
<1>5. Tail(k)[1] = k[2] /\ k[2] \in Elements
  <2>1. Tail(k)[1] = k[1 + 1]
    BY <1>1, <1>4
  <2> QED
    BY <1>4, <2>1
<1>6. k[2].prefix \in Seq(Segments) /\ IsPrefix(k[2].prefix, p)
  BY <1>3, <1>4, <1>5, ElementKinds DEF Under
<1>7. Len(k[2].prefix) \in 0 .. Len(p)
  <2>1. Len(k[2].prefix) \in Nat /\ Len(p) \in Nat /\ Len(k[2].prefix) <= Len(p)
    BY <1>6, LenProperties DEF IsPrefix
  <2> QED
    BY <2>1
<1> QED
  BY <1>1, <1>2, <1>4, <1>5, <1>6, <1>7 DEF FirstOf

\* The answers of a pipeline, from a position on.
LEMMA PipeJoin ==
    ASSUME NEW t \in Tables, NEW p \in Seq(Segments), NEW m,
           NEW r \in Routers, NEW n \in 0 .. Len(p), NEW i \in Nat \ {0}
    PROVE  /\ PipeAnswers(t, p, m, r, n, i) \in Seq(Answers)
           /\ i > Len(t[r].pipeline) => PipeAnswers(t, p, m, r, n, i) = << >>
           /\ i <= Len(t[r].pipeline) => EntryAnswers(t, p, m, n, t[r].pipeline[i]) \in Seq(Answers)
<1>1. /\ PipeAnswers(t, p, m, r, n, i) \in Seq(Answers)
      /\ i > Len(t[r].pipeline) => PipeAnswers(t, p, m, r, n, i) = << >>
  BY PipeIs
<1>2. ASSUME i <= Len(t[r].pipeline) PROVE EntryAnswers(t, p, m, n, t[r].pipeline[i]) \in Seq(Answers)
  <2>1. DOMAIN t[r].pipeline = 1 .. Len(t[r].pipeline) /\ Len(t[r].pipeline) \in Nat
    BY MountOf
  <2>2. i \in DOMAIN t[r].pipeline
    BY <1>2, <2>1
  <2> QED
    BY <2>2, EntryTyped
<1> QED
  BY <1>1, <1>2

\* The first entry, then the others.
LEMMA PipeFrom ==
    ASSUME NEW t \in Tables, NEW p \in Seq(Segments), NEW m,
           NEW r \in Routers, NEW n \in 0 .. Len(p), NEW i \in Nat \ {0},
           i <= Len(t[r].pipeline),
           NEW e, e = EntryAnswers(t, p, m, n, t[r].pipeline[i]),
           NEW a, a = PipeAnswers(t, p, m, r, n, i + 1)
    PROVE  PipeAnswers(t, p, m, r, n, i) = Join(e, a)
<1>1. PipeAnswers(t, p, m, r, n, i) =
        EntryAnswers(t, p, m, n, t[r].pipeline[i]) \o PipeAnswers(t, p, m, r, n, i + 1)
  BY PipeIs, Zenon
<1> QED
  BY <1>1 DEF Join

\* Past the end of a pipeline its routes are ahead.
LEMMA AheadPast ==
    ASSUME NEW t \in Tables, NEW p \in Seq(Segments), NEW m,
           NEW k \in Seq(Elements), k # << >>, Head(k).kind = "chain", Linked(k), Under(k, p),
           Head(k).index > Len(t[Head(k).router].pipeline),
           NEW u, Ahead(t, p, m, k, u)
    PROVE  Ahead(t, p, m, Tail(k), u)
<1>1. PICK r \in Routers, i \in Nat \ {0}, n \in 0 .. Len(p) :
        r = Head(k).router /\ i = Head(k).index /\ n = Len(FirstOf(Tail(k)).prefix)
  BY ChainIs
<1>2. PICK v \in Seq(Answers) :
        /\ Ahead(t, p, m, Tail(k), v)
        /\ u = AnswersFirst(t, p, m, Head(k), Tail(k), v)
  BY AheadTail
<1>3. u = Join(PipeAnswers(t, p, m, r, n, i), v)
  BY <1>1, <1>2, FirstIs
<1>4. PipeAnswers(t, p, m, r, n, i) = << >>
  BY <1>1, PipeJoin
<1> QED
  BY <1>2, <1>3, <1>4, JoinIs

\* The next function behind an entry.
PastEntry(k) == <<Chain(Head(k).router, Head(k).index + 1)>> \o Tail(k)

\* An entry is passed, and the next ones are ahead.  Its own answers are among
\* those of the pipeline.
LEMMA AheadEntry ==
    ASSUME NEW t \in Tables, NEW p \in Seq(Segments), NEW m,
           NEW k \in Seq(Elements), k # << >>, Head(k).kind = "chain", Linked(k), Under(k, p),
           Head(k).index <= Len(t[Head(k).router].pipeline),
           NEW u, Ahead(t, p, m, k, u)
    PROVE  \E w \in Seq(Answers) :
              /\ Ahead(t, p, m, PastEntry(k), w)
              /\ u = Join(EntryAnswers(t, p, m, Len(k[2].prefix),
                                       t[Head(k).router].pipeline[Head(k).index]), w)
<1>1. PICK r \in Routers, i \in Nat \ {0}, n \in 0 .. Len(p) :
        r = Head(k).router /\ i = Head(k).index /\ n = Len(k[2].prefix)
  BY ChainIs
<1>2. Tail(k) \in Seq(Elements) /\ FirstOf(Tail(k)) = k[2] /\ i + 1 \in Nat \ {0}
  BY ChainIs
<1>3. PICK v \in Seq(Answers) :
        /\ Ahead(t, p, m, Tail(k), v)
        /\ u = AnswersFirst(t, p, m, Head(k), Tail(k), v)
  BY AheadTail
<1>4. u = Join(PipeAnswers(t, p, m, r, n, i), v)
  BY <1>1, <1>2, <1>3, FirstIs
<1>5. PICK e \in Seq(Answers) : e = EntryAnswers(t, p, m, n, t[r].pipeline[i])
  BY <1>1, PipeJoin
<1>6. PICK a \in Seq(Answers) : a = PipeAnswers(t, p, m, r, n, i + 1)
  BY <1>2, PipeJoin
<1>7. PipeAnswers(t, p, m, r, n, i) = Join(e, a)
  <2>1. i <= Len(t[r].pipeline)
    BY <1>1
  <2> QED
    BY <1>5, <1>6, <2>1, PipeFrom
<1>8. PICK d \in Elements : d = Chain(r, i + 1) /\ d.kind = "chain" /\ d.router = r /\ d.index = i + 1
  BY <1>2, ElementsMade DEF Chain
<1>9. PICK w \in Seq(Answers) : w = Join(a, v)
  BY JoinIs
<1>10. Ahead(t, p, m, PastEntry(k), w)
  <2>1. w = AnswersFirst(t, p, m, d, Tail(k), v)
    BY <1>1, <1>2, <1>6, <1>8, <1>9, FirstIs
  <2>2. Ahead(t, p, m, <<d>> \o Tail(k), w)
    BY <1>2, <1>3, <2>1, AheadCons
  <2> QED
    BY <1>1, <1>8, <2>2 DEF PastEntry
<1>11. u = Join(e, w)
  BY <1>4, <1>7, <1>9, JoinIs
<1> QED
  BY <1>1, <1>5, <1>10, <1>11

\* An entry that is no mount, or one that does not match, is passed.
LEMMA AheadPassed ==
    ASSUME NEW t \in Tables, NEW p \in Seq(Segments), NEW m,
           NEW k \in Seq(Elements), k # << >>, Head(k).kind = "chain", Linked(k), Under(k, p),
           Head(k).index <= Len(t[Head(k).router].pipeline),
           NEW u, Ahead(t, p, m, k, u),
           NEW e, e = t[Head(k).router].pipeline[Head(k).index]
    PROVE  ~(e.kind = "mount" /\ IsPrefix(e.prefix, Behind(p, Len(k[2].prefix))))
           => Ahead(t, p, m, PastEntry(k), u)
<1>1. PICK w \in Seq(Answers) :
        /\ Ahead(t, p, m, PastEntry(k), w)
        /\ u = Join(EntryAnswers(t, p, m, Len(k[2].prefix), e), w)
  <2>1. PICK w \in Seq(Answers) :
          /\ Ahead(t, p, m, PastEntry(k), w)
          /\ u = Join(EntryAnswers(t, p, m, Len(k[2].prefix),
                                   t[Head(k).router].pipeline[Head(k).index]), w)
    BY AheadEntry
  <2> QED
    BY <2>1
<1>2. CASE e.kind = "mount" /\ IsPrefix(e.prefix, Behind(p, Len(k[2].prefix)))
  BY <1>2
<1>3. CASE ~(e.kind = "mount" /\ IsPrefix(e.prefix, Behind(p, Len(k[2].prefix))))
  <2>1. EntryAnswers(t, p, m, Len(k[2].prefix), e) = << >>
    BY <1>3 DEF EntryAnswers, EntryIn
  <2> QED
    BY <1>1, <2>1, JoinIs
<1> QED
  BY <1>2, <1>3

\* A router put before a next function has its answers ahead.
LEMMA AheadRouter ==
    ASSUME NEW t \in Tables, NEW p \in Seq(Segments), NEW m,
           NEW r \in Routers, NEW q \in Seq(Segments), Len(q) \in 0 .. Len(p),
           NEW k \in Seq(Elements), NEW u, Ahead(t, p, m, k, u)
    PROVE  /\ AnswersIn(t, p, m)[<<r, Len(q)>>] \in Seq(Answers)
           /\ Ahead(t, p, m, RouterHandle(r, q, k), Join(AnswersIn(t, p, m)[<<r, Len(q)>>], u))
<1>1. PICK n \in 0 .. Len(p) : n = Len(q)
  OBVIOUS
<1>2. u \in Seq(Answers)
  BY AheadTyped
<1>3. PICK a \in Seq(Answers) : a = PipeAnswers(t, p, m, r, n, 1)
  BY PipeJoin
<1>4. PICK b \in Seq(Answers) : b = RoutesAnswers(t, p, m, r, n)
  BY RouterAnswersAre
<1>5. AnswersIn(t, p, m)[<<r, n>>] = Join(a, b)
  <2>1. AnswersIn(t, p, m)[<<r, n>>] = PipeAnswers(t, p, m, r, n, 1) \o RoutesAnswers(t, p, m, r, n)
    BY RouterAnswersAre, Zenon
  <2> QED
    BY <1>3, <1>4, <2>1 DEF Join
<1>6. PICK d \in Elements : d = RouteTail(r, q) /\ d.kind = "routes" /\ d.router = r /\ d.prefix = q
  BY ElementsMade DEF RouteTail
<1>7. PICK c \in Elements : c = Chain(r, 1) /\ c.kind = "chain" /\ c.router = r /\ c.index = 1
  <2>1. 1 \in Nat \ {0}
    OBVIOUS
  <2> QED
    BY <2>1, ElementsMade DEF Chain
<1>8. PICK v \in Seq(Answers) : v = Join(b, u)
  BY <1>2, JoinIs
<1>9. PICK w \in Seq(Answers) : w = Join(a, v)
  BY JoinIs
<1>10. PICK h \in Seq(Elements) : h = <<d>> \o k /\ FirstOf(h) = d
  <2>1. <<d>> \o k \in Seq(Elements) /\ Len(<<d>> \o k) > 0 /\ (<<d>> \o k)[1] = d
    BY ConsIs
  <2> QED
    BY <2>1 DEF FirstOf
<1>11. Ahead(t, p, m, h, v)
  <2>1. v = AnswersFirst(t, p, m, d, k, u)
    BY <1>1, <1>2, <1>4, <1>6, <1>8, FirstIs
  <2> QED
    BY <1>10, <2>1, AheadCons
<1>12. Ahead(t, p, m, <<c>> \o h, w)
  <2>1. w = AnswersFirst(t, p, m, c, h, v)
    BY <1>1, <1>3, <1>6, <1>7, <1>9, <1>10, FirstIs
  <2> QED
    BY <1>11, <2>1, AheadCons
<1>13. RouterHandle(r, q, k) = <<c>> \o h
  BY <1>6, <1>7, <1>10 DEF RouterHandle
<1>14. w = Join(Join(a, b), u)
  BY <1>2, <1>8, <1>9, JoinIs
<1>15. Join(a, b) \in Seq(Answers)
  BY JoinIs
<1> QED
  BY <1>1, <1>5, <1>12, <1>13, <1>14, <1>15

\* The return into the parent, and what is behind it.
LEMMA AheadBack ==
    ASSUME NEW t, NEW p, NEW m, NEW k \in Seq(Elements), k # << >>, Head(k).kind = "back",
           NEW u, Ahead(t, p, m, k, u)
    PROVE  Ahead(t, p, m, Tail(k), u)
<1>1. PICK v \in Seq(Answers) :
        /\ Ahead(t, p, m, Tail(k), v)
        /\ u = AnswersFirst(t, p, m, Head(k), Tail(k), v)
  BY AheadTail
<1> QED
  BY <1>1, FirstIs

LEMMA AheadReturn ==
    ASSUME NEW t, NEW p, NEW m, NEW k \in Seq(Elements), NEW s \in SavedPrefixes,
           NEW u, Ahead(t, p, m, k, u)
    PROVE  <<ChildNext(s)>> \o k \in Seq(Elements) /\ Ahead(t, p, m, <<ChildNext(s)>> \o k, u)
<1>1. PICK e \in Elements : e = ChildNext(s) /\ e.kind = "back"
  BY ElementsMade DEF ChildNext
<1>2. u \in Seq(Answers)
  BY AheadTyped
<1>3. u = AnswersFirst(t, p, m, e, k, u)
  BY <1>1, <1>2, FirstIs
<1>4. Ahead(t, p, m, <<e>> \o k, u)
  BY <1>2, <1>3, AheadCons
<1>5. <<e>> \o k \in Seq(Elements)
  BY ConsIs
<1> QED
  BY <1>1, <1>4, <1>5

\* A mount that matches is entered.
LEMMA MountEntered ==
    ASSUME NEW t \in Tables, NEW p \in Seq(Segments), NEW m,
           NEW e, e.kind = "mount", NEW c \in Routers, e.child = c,
           NEW x \in Seq(Segments), e.prefix = x,
           NEW z \in Seq(Segments), IsPrefix(z, p), Len(z) \in 0 .. Len(p),
           NEW q \in Seq(Segments), q = JoinPrefix(z, x), IsPrefix(q, p),
           NEW s \in SavedPrefixes,
           NEW rest \in Seq(Elements), NEW w, Ahead(t, p, m, rest, w)
    PROVE  Ahead(t, p, m, RouterHandle(c, q, <<ChildNext(s)>> \o rest),
                 Join(EntryAnswers(t, p, m, Len(z), e), w))
<1>1. Len(q) = Len(z) + Len(x)
  BY ConcatProperties DEF JoinPrefix
<1>2. IsPrefix(x, Behind(p, Len(z)))
  BY PrefixBehind DEF JoinPrefix
<1>3. Len(q) \in 0 .. Len(p)
  <2>1. Len(q) \in Nat /\ Len(p) \in Nat /\ Len(q) <= Len(p)
    BY LenProperties DEF IsPrefix
  <2> QED
    BY <2>1
<1>4. EntryAnswers(t, p, m, Len(z), e) = AnswersIn(t, p, m)[<<c, Len(q)>>]
  BY <1>1, <1>2 DEF EntryAnswers, EntryIn
<1>5. PICK b \in Seq(Elements) : b = <<ChildNext(s)>> \o rest /\ Ahead(t, p, m, b, w)
  BY AheadReturn
<1>6. Ahead(t, p, m, RouterHandle(c, q, b), Join(AnswersIn(t, p, m)[<<c, Len(q)>>], w))
  BY <1>3, <1>5, AheadRouter
<1> QED
  BY <1>4, <1>5, <1>6

\* The mount is one of the table.
LEMMA MountIn ==
    ASSUME NEW t \in Tables, NEW r \in Routers, NEW i \in Nat \ {0}, i <= Len(t[r].pipeline),
           t[r].pipeline[i].kind = "mount"
    PROVE  t[r].pipeline[i].prefix \in Seq(Segments) /\ t[r].pipeline[i].child \in Routers
<1>1. DOMAIN t[r].pipeline = 1 .. Len(t[r].pipeline) /\ Len(t[r].pipeline) \in Nat
  BY MountOf
<1>2. i \in DOMAIN t[r].pipeline
  BY <1>1
<1> QED
  BY <1>2, MountOf

\* So the answers are the same ahead of the child.
LEMMA AheadMount ==
    ASSUME NEW t \in Tables, NEW p \in Seq(Segments), NEW m,
           NEW k \in Seq(Elements), k # << >>, Head(k).kind = "chain", Linked(k), Under(k, p),
           Head(k).index <= Len(t[Head(k).router].pipeline),
           NEW u, Ahead(t, p, m, k, u),
           NEW e, e = t[Head(k).router].pipeline[Head(k).index], e.kind = "mount"
    PROVE  \A s \in SavedPrefixes, q \in Seq(Segments) :
              q = JoinPrefix(k[2].prefix, e.prefix) /\ IsPrefix(q, p)
              => Ahead(t, p, m, RouterHandle(e.child, q, <<ChildNext(s)>> \o PastEntry(k)), u)
<1>1. PICK w \in Seq(Answers) :
        /\ Ahead(t, p, m, PastEntry(k), w)
        /\ u = Join(EntryAnswers(t, p, m, Len(k[2].prefix), e), w)
  <2>1. PICK w \in Seq(Answers) :
          /\ Ahead(t, p, m, PastEntry(k), w)
          /\ u = Join(EntryAnswers(t, p, m, Len(k[2].prefix),
                                   t[Head(k).router].pipeline[Head(k).index]), w)
    BY AheadEntry
  <2> QED
    BY <2>1
<1>2. e.prefix \in Seq(Segments) /\ e.child \in Routers
  <2>1. Head(k).router \in Routers /\ Head(k).index \in Nat \ {0}
    BY ChainIs
  <2> QED
    BY <2>1, MountIn
<1>3. PICK z \in Seq(Segments) : z = k[2].prefix /\ IsPrefix(z, p) /\ Len(z) \in 0 .. Len(p)
  BY ChainIs
<1>4. PICK rest \in Seq(Elements) : rest = PastEntry(k)
  BY NextEntry DEF PastEntry
<1>5. PICK c \in Routers, x \in Seq(Segments) : c = e.child /\ x = e.prefix
  BY <1>2
<1>6. ASSUME NEW s \in SavedPrefixes, NEW q \in Seq(Segments), q = JoinPrefix(z, x), IsPrefix(q, p)
      PROVE  Ahead(t, p, m, RouterHandle(c, q, <<ChildNext(s)>> \o rest),
                   Join(EntryAnswers(t, p, m, Len(z), e), w))
  BY <1>1, <1>3, <1>4, <1>5, <1>6, MountEntered
<1> QED
  BY <1>1, <1>3, <1>4, <1>5, <1>6

\* The routes of a router, and what is behind them.
LEMMA AheadRoutes ==
    ASSUME NEW t, NEW p, NEW m, NEW k \in Seq(Elements), k # << >>, Head(k).kind = "routes",
           NEW u, Ahead(t, p, m, k, u)
    PROVE  \E v \in Seq(Answers) :
              /\ Ahead(t, p, m, Tail(k), v)
              /\ u = Join(RoutesAnswers(t, p, m, Head(k).router, Len(Head(k).prefix)), v)
<1>1. PICK v \in Seq(Answers) :
        /\ Ahead(t, p, m, Tail(k), v)
        /\ u = AnswersFirst(t, p, m, Head(k), Tail(k), v)
  BY AheadTail
<1> QED
  BY <1>1, FirstIs

\* The application behind the root router.
LEMMA AheadOuter ==
    ASSUME NEW t, NEW p, NEW m
    PROVE  /\ <<Outer>> \in Seq(Elements) /\ Ahead(t, p, m, <<Outer>>, BehindOuter)
           /\ \A k \in Seq(Elements) : \A u :
                 k # << >> /\ Head(k).kind = "outer" /\ Ahead(t, p, m, k, u) => u = BehindOuter
<1>1. PICK e \in Elements : e = Outer /\ e.kind = "outer"
  BY ElementsMade DEF Outer
<1>2. BehindOuter \in Seq(Answers) /\ Behind404 \in Seq(Answers)
  BY Joined
<1>3. PICK k \in Seq(Elements) : k = << >>
  <2>1. << >> \in Seq(Elements)
    OBVIOUS
  <2> QED
    BY <2>1
<1>4. Ahead(t, p, m, k, Behind404)
  BY <1>3, AheadNil
<1>5. Ahead(t, p, m, <<e>> \o k, BehindOuter)
  <2>1. BehindOuter = AnswersFirst(t, p, m, e, k, Behind404)
    BY <1>1, <1>2, FirstIs
  <2> QED
    BY <1>2, <1>4, <2>1, AheadCons
<1>6. <<e>> \o k = <<Outer>>
  BY <1>1, <1>3
<1>7. ASSUME NEW h \in Seq(Elements), NEW u, h # << >>, Head(h).kind = "outer", Ahead(t, p, m, h, u)
      PROVE  u = BehindOuter
  BY <1>7, AheadTail, FirstIs
<1>8. <<Outer>> \in Seq(Elements)
  BY <1>1
<1> QED
  BY <1>5, <1>6, <1>7, <1>8

-----------------------------------------------------------------------------
(* A next function, and the fallbacks that led to it. *)

Ended(o) == IF o THEN BehindOuter ELSE Behind404

ResolutionIn(t, p, m, o) == Join(AnswersIn(t, p, m)[<<Root, 0>>], Ended(o))

\* The answers of the root router, and what follows them.
LEMMA ResolutionIs == Resolution = ResolutionIn(table, path, method, hasOuter)
BY AnswersFromIs DEF Resolution, ResolutionIn, Join, Ended, BehindOuter, Behind404

\* The first f answers of the resolution are fallbacks, and the others are those of k.
FallbacksOnly(w) == \A i \in 1 .. Len(w) : w[i].by = "fallback"

Leads(t, p, m, o, k, f) ==
    \E w, u \in Seq(Answers) :
        /\ Len(w) = f /\ FallbacksOnly(w)
        /\ Ahead(t, p, m, k, u)
        /\ ResolutionIn(t, p, m, o) = Join(w, u)

\* The answers of a next function begin with a, and go on as those of another do.
Begins(t, p, m, k, a, k2) ==
    \A u : Ahead(t, p, m, k, u) =>
        \E v \in Seq(Answers) : Ahead(t, p, m, k2, v) /\ u = Join(<<a>>, v)

\* A next function with the same answers.
LEMMA LeadsOn ==
    ASSUME NEW t, NEW p, NEW m, NEW o, NEW f, NEW k, NEW k2, Leads(t, p, m, o, k, f),
           \A u : Ahead(t, p, m, k, u) => Ahead(t, p, m, k2, u)
    PROVE  Leads(t, p, m, o, k2, f)
BY DEF Leads

\* A sequence of one.
LEMMA OneAnswer ==
    ASSUME NEW T, NEW a \in T
    PROVE  <<a>> \in Seq(T) /\ Len(<<a>>) = 1 /\ <<a>>[1] = a
OBVIOUS

\* The one of a fallback, that is passed.
LEMMA LeadsPast ==
    ASSUME NEW t, NEW p, NEW m, NEW o, NEW f \in Nat, NEW k, NEW k2, Leads(t, p, m, o, k, f),
           NEW a \in Answers, a.by = "fallback", Begins(t, p, m, k, a, k2)
    PROVE  Leads(t, p, m, o, k2, f + 1)
<1>1. PICK w \in Seq(Answers), u \in Seq(Answers) :
        /\ Len(w) = f /\ FallbacksOnly(w)
        /\ Ahead(t, p, m, k, u)
        /\ ResolutionIn(t, p, m, o) = Join(w, u)
  BY DEF Leads
<1>2. PICK v \in Seq(Answers) : Ahead(t, p, m, k2, v) /\ u = Join(<<a>>, v)
  BY <1>1 DEF Begins
<1>3. PICK x \in Seq(Answers) : x = <<a>> /\ Len(x) = 1 /\ x[1] = a
  BY OneAnswer
<1>4. PICK y \in Seq(Answers) : y = Join(w, x)
  BY JoinIs
<1>5. Len(y) = f + 1 /\ \A i \in 1 .. Len(y) : y[i] = IF i <= f THEN w[i] ELSE x[i - f]
  BY <1>1, <1>3, <1>4, ConcatProperties DEF Join
<1>6. FallbacksOnly(y)
  <2>1. ASSUME NEW i \in 1 .. Len(y) PROVE y[i].by = "fallback"
    <3>1. CASE i <= f
      <4>1. i \in 1 .. Len(w)
        BY <1>1, <1>5, <3>1
      <4> QED
        BY <1>1, <1>5, <3>1, <4>1 DEF FallbacksOnly
    <3>2. CASE ~(i <= f)
      <4>1. i - f = 1
        BY <1>5, <3>2
      <4> QED
        BY <1>3, <1>5, <3>2, <4>1
    <3> QED
      BY <3>1, <3>2
  <2> QED
    BY <2>1 DEF FallbacksOnly
<1>7. ResolutionIn(t, p, m, o) = Join(y, v)
  <2>1. ResolutionIn(t, p, m, o) = Join(w, Join(x, v))
    BY <1>1, <1>2, <1>3
  <2>2. Join(Join(w, x), v) = Join(w, Join(x, v))
    BY JoinIs
  <2> QED
    BY <1>4, <2>1, <2>2
<1> QED
  BY <1>2, <1>5, <1>6, <1>7 DEF Leads

\* The answer the resolution has next.
LEMMA LeadsAnswer ==
    ASSUME NEW t, NEW p, NEW m, NEW o, NEW f \in Nat, NEW k, Leads(t, p, m, o, k, f),
           NEW a \in Answers,
           \A u : Ahead(t, p, m, k, u) => \E v \in Seq(Answers) : u = Join(<<a>>, v),
           NEW R, R = ResolutionIn(t, p, m, o)
    PROVE  f < Len(R) /\ R[f + 1] = a /\ \A i \in 1 .. f : R[i].by = "fallback"
<1>1. PICK w \in Seq(Answers), u \in Seq(Answers) :
        /\ Len(w) = f /\ FallbacksOnly(w)
        /\ Ahead(t, p, m, k, u)
        /\ R = Join(w, u)
  BY DEF Leads
<1>2. PICK v \in Seq(Answers) : u = Join(<<a>>, v)
  BY <1>1
<1>3. Len(u) \in Nat /\ Len(u) >= 1 /\ u[1] = a
  <2>1. PICK x \in Seq(Answers) : x = <<a>> /\ Len(x) = 1 /\ x[1] = a
    BY OneAnswer
  <2>2. Len(u) = Len(x) + Len(v) /\ \A i \in 1 .. Len(u) : u[i] = IF i <= Len(x) THEN x[i] ELSE v[i - Len(x)]
    BY <1>2, <2>1, ConcatProperties DEF Join
  <2>3. Len(u) \in Nat /\ Len(v) \in Nat
    BY LenProperties
  <2>4. Len(u) >= 1 /\ 1 \in 1 .. Len(u)
    BY <2>1, <2>2, <2>3
  <2> QED
    BY <2>1, <2>2, <2>3, <2>4
<1>4. Len(R) = f + Len(u) /\ \A i \in 1 .. Len(R) : R[i] = IF i <= f THEN w[i] ELSE u[i - f]
  <2>1. /\ Len(w \o u) = Len(w) + Len(u)
        /\ \A i \in 1 .. Len(w \o u) : (w \o u)[i] = IF i <= Len(w) THEN w[i] ELSE u[i - Len(w)]
    BY ConcatProperties
  <2>2. R = w \o u
    BY <1>1 DEF Join
  <2> QED
    BY <1>1, <2>1, <2>2
<1>5. f < Len(R) /\ f + 1 \in 1 .. Len(R) /\ ~(f + 1 <= f) /\ (f + 1) - f = 1
  BY <1>3, <1>4
<1>6. \A i \in 1 .. f : i \in 1 .. Len(R) /\ i <= f
  BY <1>3, <1>4
<1> QED
  BY <1>1, <1>3, <1>4, <1>5, <1>6 DEF FallbacksOnly

\* Of the first d coroutines of s: the fallbacks.
FallbacksWithin(s, d) == Cardinality({i \in 1 .. d : s[i].kind = "fallback"})

\* They are counted coroutine by coroutine.
LEMMA WithinIs ==
    ASSUME NEW s, NEW d \in Nat
    PROVE  /\ FallbacksWithin(s, 0) = 0 /\ FallbacksWithin(s, d) \in Nat
           /\ FallbacksWithin(s, d + 1) =
                 IF s[d + 1].kind = "fallback" THEN FallbacksWithin(s, d) + 1 ELSE FallbacksWithin(s, d)
<1> DEFINE S(n) == {i \in 1 .. n : s[i].kind = "fallback"}
<1>1. S(0) = {}
  OBVIOUS
<1>2. IsFiniteSet(S(d))
  <2>1. IsFiniteSet(1 .. d) /\ S(d) \subseteq 1 .. d
    BY FS_Interval
  <2> HIDE DEF S
  <2> QED
    BY <2>1, FS_Subset
<1>3. S(d + 1) = IF s[d + 1].kind = "fallback" THEN S(d) \cup {d + 1} ELSE S(d)
  <2>1. \A i : i \in 1 .. d + 1 <=> i \in 1 .. d \/ i = d + 1
    OBVIOUS
  <2> QED
    BY <2>1
<1>4. d + 1 \notin S(d)
  OBVIOUS
<1> HIDE DEF S
<1>5. Cardinality(S(d)) \in Nat /\ Cardinality(S(0)) = 0
  BY <1>1, <1>2, FS_CardinalityType, FS_EmptySet
<1>6. Cardinality(S(d) \cup {d + 1}) = Cardinality(S(d)) + 1
  BY <1>2, <1>4, FS_AddElement
<1>7. \A n : FallbacksWithin(s, n) = Cardinality(S(n))
  BY DEF FallbacksWithin, S
<1> QED
  BY <1>3, <1>5, <1>6, <1>7

\* They are those of another stack with the same coroutines.
LEMMA WithinSame ==
    ASSUME NEW s, NEW s2, NEW d, \A i \in 1 .. d : s2[i] = s[i]
    PROVE  /\ RetryWithin(s2, d) <=> RetryWithin(s, d)
           /\ FallbacksWithin(s2, d) = FallbacksWithin(s, d)
<1>1. RetryWithin(s2, d) <=> RetryWithin(s, d)
  BY DEF RetryWithin, IsHandler
<1>2. {i \in 1 .. d : s2[i].kind = "fallback"} = {i \in 1 .. d : s[i].kind = "fallback"}
  OBVIOUS
<1> QED
  BY <1>1, <1>2 DEF FallbacksWithin

\* Of the whole stack.
LEMMA FallbacksPassedIs ==
    ASSUME stack \in Seq(Frames)
    PROVE  /\ FallbacksPassed = FallbacksWithin(stack, Len(stack))
           /\ FallbacksPassed \in Nat /\ Len(stack) \in Nat
           /\ RetryInsideMount <=> RetryWithin(stack, Len(stack))
<1>1. DOMAIN stack = 1 .. Len(stack) /\ Len(stack) \in Nat
  OBVIOUS
<1>2. FallbacksPassed = FallbacksWithin(stack, Len(stack))
  BY <1>1 DEF FallbacksPassed, FallbacksWithin
<1>3. FallbacksPassed \in Nat
  BY <1>1, <1>2, WithinIs
<1> QED
  BY <1>1, <1>2, <1>3 DEF RetryInsideMount, RetryWithin

\* Unless a retry goes on inside a mounted router, the next function being called,
\* and that of every coroutine, has the answers of the resolution that are left
\* after one for each fallback up to it.
DownLeads(t, p, m, o, md, s, k) ==
    md = "down" /\ ~RetryWithin(s, Len(s)) => Leads(t, p, m, o, k, FallbacksWithin(s, Len(s)))

FrameLeads(t, p, m, o, s, j) ==
    IsHandler(s[j]) /\ ~RetryWithin(s, j - 1) => Leads(t, p, m, o, s[j].next, FallbacksWithin(s, j))

AnswersInv ==
    touched # "path" =>
        /\ DownLeads(table, path, method, hasOuter, mode, stack, next)
        /\ \A j \in 1 .. Len(stack) : FrameLeads(table, path, method, hasOuter, stack, j)

\* What holds of a coroutine holds of it in another stack.
LEMMA FrameSame ==
    ASSUME NEW t, NEW p, NEW m, NEW o, NEW s, NEW s2, NEW d \in Nat, \A i \in 1 .. d : s2[i] = s[i],
           NEW j \in 1 .. d, FrameLeads(t, p, m, o, s, j)
    PROVE  FrameLeads(t, p, m, o, s2, j)
<1>1. \A i \in 1 .. j : i \in 1 .. d
  OBVIOUS
<1>2. \A i \in 1 .. j - 1 : i \in 1 .. d
  OBVIOUS
<1>3. RetryWithin(s2, j - 1) <=> RetryWithin(s, j - 1)
  BY <1>2, WithinSame
<1>4. FallbacksWithin(s2, j) = FallbacksWithin(s, j)
  BY <1>1, WithinSame
<1> QED
  BY <1>3, <1>4 DEF FrameLeads

\* The coroutines that stay have what they had.
LEMMA AnswersKept ==
    ASSUME AnswersInv, table' = table, method' = method, hasOuter' = hasOuter,
           touched' # "path" => touched # "path" /\ path' = path,
           Len(stack) \in Nat, Len(stack') \in Nat,
           NEW d \in Nat, d <= Len(stack), \A i \in 1 .. d : stack'[i] = stack[i],
           touched' # "path" =>
              /\ DownLeads(table, path, method, hasOuter, mode', stack', next')
              /\ \A j \in 1 .. Len(stack') :
                    j \in 1 .. d \/ FrameLeads(table, path, method, hasOuter, stack', j)
    PROVE  AnswersInv'
<1> SUFFICES ASSUME touched' # "path"
             PROVE  /\ DownLeads(table, path, method, hasOuter, mode', stack', next')
                    /\ \A j \in 1 .. Len(stack') : FrameLeads(table, path, method, hasOuter, stack', j)
  BY DEF AnswersInv
<1>1. \A j \in 1 .. d : j \in 1 .. Len(stack)
  OBVIOUS
<1>2. ASSUME NEW j \in 1 .. d PROVE FrameLeads(table, path, method, hasOuter, stack', j)
  <2>1. FrameLeads(table, path, method, hasOuter, stack, j)
    BY <1>1 DEF AnswersInv
  <2> QED
    BY <2>1, FrameSame
<1> QED
  BY <1>2

\* What the routes of a router find for a path under their prefix.
LEMMA LookupIs ==
    ASSUME ConfigInv, NEW r \in Routers, NEW at \in Seq(Segments), IsPrefix(at, path)
    PROVE  /\ ~OutOfRange(at)
           /\ Bucket(r, at) = ChosenIn(table, r, NormalizePath(Behind(path, Len(at))))
<1>1. table \in Tables
  BY DEF ConfigInv
<1>2. MatchesPrefix(path, at)
  BY DEF MatchesPrefix
<1>3. ~OutOfRange(at)
  BY <1>2 DEF OutOfRange
<1>4. Bucket(r, at) = FindBucket(r, RelativePath(path, at))
  BY <1>2 DEF Bucket
<1>5. RelativePath(path, at) = NormalizePath(Behind(path, Len(at)))
  BY <1>2 DEF RelativePath, Behind
<1> QED
  BY <1>1, <1>3, <1>4, <1>5, BucketIsChosen

\* The answer of the routes, before those of the next function behind them.
LEMMA RoutesBegin ==
    ASSUME NEW t \in Tables, NEW p \in Seq(Segments), NEW m,
           NEW k \in Seq(Elements), k # << >>, Head(k).kind = "routes",
           NEW r \in Routers, r = Head(k).router,
           NEW b, b = ChosenIn(t, r, NormalizePath(Behind(p, Len(Head(k).prefix))))
    PROVE  /\ b = {} /\ ~t[r].fallback => \A u : Ahead(t, p, m, k, u) => Ahead(t, p, m, Tail(k), u)
           /\ b = {} /\ t[r].fallback =>
                 Begins(t, p, m, k, [by |-> "fallback", router |-> r], Tail(k))
           /\ \A x \in b : x \in Routes /\ Begins(t, p, m, k, AnswerOf(m, r, x), Tail(k))
<1>1. PICK own \in Seq(Answers) : own = RoutesAnswers(t, p, m, r, Len(Head(k).prefix))
  BY OwnIs DEF RoutesAnswers
<1>2. /\ b = {} => own = IF t[r].fallback THEN <<[by |-> "fallback", router |-> r]>> ELSE << >>
      /\ \A x \in b : x \in Routes /\ own = <<AnswerOf(m, r, x)>>
  <2>1. PICK rel : rel = NormalizePath(Behind(p, Len(Head(k).prefix)))
    OBVIOUS
  <2>2. own = OwnIn(t, m, r, rel) /\ b = ChosenIn(t, r, rel)
    BY <1>1, <2>1 DEF RoutesAnswers
  <2>3. b = {} => own = IF t[r].fallback THEN <<[by |-> "fallback", router |-> r]>> ELSE << >>
    BY <2>2 DEF OwnIn
  <2>4. \A x \in b : x \in Routes /\ own = <<AnswerOf(m, r, x)>>
    BY <2>2, OwnIs
  <2> QED
    BY <2>3, <2>4
<1>3. ASSUME NEW u, Ahead(t, p, m, k, u)
      PROVE  \E v \in Seq(Answers) : Ahead(t, p, m, Tail(k), v) /\ u = Join(own, v)
  BY <1>1, <1>3, AheadRoutes
<1>4. ASSUME b = {}, ~t[r].fallback, NEW u, Ahead(t, p, m, k, u) PROVE Ahead(t, p, m, Tail(k), u)
  <2>1. PICK v \in Seq(Answers) : Ahead(t, p, m, Tail(k), v) /\ u = Join(own, v)
    BY <1>3, <1>4
  <2>2. own = << >>
    BY <1>2, <1>4
  <2>3. Join(<< >>, v) = v
    BY JoinIs
  <2> QED
    BY <2>1, <2>2, <2>3
<1>5. ASSUME NEW a, own = <<a>> PROVE Begins(t, p, m, k, a, Tail(k))
  BY <1>3, <1>5 DEF Begins
<1>6. ASSUME b = {}, t[r].fallback
      PROVE  Begins(t, p, m, k, [by |-> "fallback", router |-> r], Tail(k))
  BY <1>2, <1>5, <1>6
<1>7. ASSUME NEW x \in b PROVE x \in Routes /\ Begins(t, p, m, k, AnswerOf(m, r, x), Tail(k))
  BY <1>2, <1>5, <1>7
<1> QED
  BY <1>4, <1>6, <1>7

\* The last answers.
LEMMA LastAnswers ==
    /\ [by |-> "404"] \in Answers /\ \E v \in Seq(Answers) : Behind404 = Join(<<[by |-> "404"]>>, v)
    /\ [by |-> "outer"] \in Answers /\ \E v \in Seq(Answers) : BehindOuter = Join(<<[by |-> "outer"]>>, v)
<1>1. ASSUME NEW a \in Answers PROVE \E v \in Seq(Answers) : <<a>> = Join(<<a>>, v)
  <2>1. PICK v \in Seq(Answers) : v = << >>
    BY Joined
  <2>2. PICK x \in Seq(Answers) : x = <<a>>
    BY OneAnswer
  <2>3. x \o << >> = x
    BY <2>2
  <2> QED
    BY <2>1, <2>2, <2>3 DEF Join
<1>2. [by |-> "404"] \in Answers /\ [by |-> "outer"] \in Answers
  BY DEF Answers
<1> QED
  BY <1>1, <1>2 DEF Behind404, BehindOuter

\* What is known while a next function is called.
LEMMA DownKnown ==
    ASSUME IInv, AnswersInv, mode = "down", touched # "path", ~RetryWithin(stack, Len(stack))
    PROVE  /\ Linked(next) /\ Under(next, path) /\ Fits(next, prefix)
           /\ Leads(table, path, method, hasOuter, next, FallbacksWithin(stack, Len(stack)))
<1>1. TypeOK /\ ConfigInv /\ StackInv /\ ScopeInv
  BY DEF IInv
<1>2. Linked(next) /\ Under(next, path)
  BY <1>1 DEF StackInv, Good
<1>3. Fits(next, prefix)
  BY <1>1 DEF ScopeInv
<1> QED
  BY <1>2, <1>3 DEF AnswersInv, DownLeads

\* What IInv says of the state.
LEMMA StateTypes ==
    ASSUME IInv
    PROVE  /\ table \in Tables /\ path \in Seq(Segments) /\ hasOuter \in BOOLEAN
           /\ next \in Seq(Elements) /\ prefix \in SavedPrefixes
           /\ stack \in Seq(Frames) /\ Len(stack) \in Nat
           /\ FallbacksWithin(stack, Len(stack)) \in Nat
<1>1. /\ table \in Tables /\ path \in Seq(Segments) /\ hasOuter \in BOOLEAN
      /\ next \in Seq(Elements) /\ prefix \in SavedPrefixes /\ stack \in Seq(Frames)
  BY DEF IInv, TypeOK, ConfigInv
<1>2. Len(stack) \in Nat
  BY <1>1, LenProperties
<1> QED
  BY <1>1, <1>2, WithinIs

\* The call goes on, in the same coroutine or in a mount.
LEMMA AnswersGoOn ==
    ASSUME IInv, AnswersInv, config' = config,
           \/ stack' = stack
           \/ \E f \in Frames : f.kind = "mount" /\ stack' = Append(stack, f),
           touched # "path" /\ ~RetryWithin(stack, Len(stack)) =>
              Leads(table, path, method, hasOuter, next', FallbacksWithin(stack, Len(stack)))
    PROVE  AnswersInv'
<1>1. /\ table' = table /\ method' = method /\ hasOuter' = hasOuter
      /\ touched' = touched /\ path' = path
  BY DEF config
<1>2. stack \in Seq(Frames) /\ Len(stack) \in Nat
  BY StateTypes
<1>3. CASE stack' = stack
  <2>1. DownLeads(table, path, method, hasOuter, mode', stack', next') \/ touched' = "path"
    BY <1>1, <1>3 DEF DownLeads
  <2>2. Len(stack') \in Nat /\ Len(stack) <= Len(stack) /\ \A i \in 1 .. Len(stack) : stack'[i] = stack[i]
    BY <1>2, <1>3
  <2>3. \A j \in 1 .. Len(stack') : j \in 1 .. Len(stack)
    BY <1>3
  <2> QED
    BY <1>1, <1>2, <2>1, <2>2, <2>3, AnswersKept
<1>4. CASE \E f \in Frames : f.kind = "mount" /\ stack' = Append(stack, f)
  <2>1. PICK f \in Frames : f.kind = "mount" /\ stack' = Append(stack, f)
    BY <1>4
  <2>2. /\ Len(stack') = Len(stack) + 1 /\ Len(stack') \in Nat /\ Len(stack) <= Len(stack)
        /\ stack'[Len(stack')] = f
        /\ \A i \in 1 .. Len(stack) : stack'[i] = stack[i]
        /\ RetryWithin(stack, Len(stack)) => RetryWithin(stack', Len(stack'))
    BY <1>2, <2>1, StackPushed
  <2>3. FallbacksWithin(stack', Len(stack')) = FallbacksWithin(stack, Len(stack))
    <3>1. PICK s : s = stack'
      OBVIOUS
    <3>2. FallbacksWithin(s, Len(stack)) = FallbacksWithin(stack, Len(stack))
      BY <2>2, <3>1, WithinSame
    <3>3. s[Len(stack) + 1].kind = "mount"
      BY <2>1, <2>2, <3>1
    <3>4. FallbacksWithin(s, Len(stack) + 1) = FallbacksWithin(s, Len(stack))
      BY <1>2, <3>3, WithinIs
    <3> QED
      BY <2>2, <3>1, <3>2, <3>4
  <2>4. DownLeads(table, path, method, hasOuter, mode', stack', next') \/ touched' = "path"
    BY <1>1, <2>2, <2>3 DEF DownLeads
  <2>5. \A j \in 1 .. Len(stack') : j \in 1 .. Len(stack) \/ j = Len(stack')
    BY <1>2, <2>2
  <2>6. FrameLeads(table, path, method, hasOuter, stack', Len(stack'))
    BY <2>1, <2>2 DEF FrameLeads, IsHandler
  <2> QED
    BY <1>1, <1>2, <2>2, <2>4, <2>5, <2>6, AnswersKept
<1> QED
  BY <1>3, <1>4

\* A coroutine starts, that goes on with what it was given.
LEMMA AnswersStart ==
    ASSUME IInv, AnswersInv, config' = config, mode' # "down",
           NEW f \in Frames, stack' = Append(stack, f),
           IsHandler(f) /\ touched # "path" /\ ~RetryWithin(stack, Len(stack)) =>
              Leads(table, path, method, hasOuter, f.next,
                    IF f.kind = "fallback" THEN FallbacksWithin(stack, Len(stack)) + 1
                    ELSE FallbacksWithin(stack, Len(stack)))
    PROVE  AnswersInv'
<1>1. /\ table' = table /\ method' = method /\ hasOuter' = hasOuter
      /\ touched' = touched /\ path' = path
  BY DEF config
<1>2. stack \in Seq(Frames) /\ Len(stack) \in Nat
  BY StateTypes
<1>3. /\ Len(stack') = Len(stack) + 1 /\ Len(stack') \in Nat /\ Len(stack) <= Len(stack)
      /\ stack'[Len(stack')] = f
      /\ \A i \in 1 .. Len(stack) : stack'[i] = stack[i]
  BY <1>2, StackPushed
<1>4. FrameLeads(table, path, method, hasOuter, stack', Len(stack')) \/ touched' = "path"
  <2>1. PICK s : s = stack'
    OBVIOUS
  <2>2. /\ FallbacksWithin(s, Len(stack)) = FallbacksWithin(stack, Len(stack))
        /\ RetryWithin(s, Len(stack)) <=> RetryWithin(stack, Len(stack))
    BY <1>3, <2>1, WithinSame
  <2>3. s[Len(stack) + 1] = f
    BY <1>3, <2>1
  <2>4. FallbacksWithin(s, Len(stack) + 1) =
          IF f.kind = "fallback" THEN FallbacksWithin(stack, Len(stack)) + 1
          ELSE FallbacksWithin(stack, Len(stack))
    BY <1>2, <2>2, <2>3, WithinIs
  <2>5. (Len(stack) + 1) - 1 = Len(stack)
    BY <1>2
  <2>6. FrameLeads(table, path, method, hasOuter, s, Len(stack) + 1) \/ touched = "path"
    BY <2>2, <2>3, <2>4, <2>5 DEF FrameLeads
  <2> QED
    BY <1>1, <1>3, <2>1, <2>6
<1>5. DownLeads(table, path, method, hasOuter, mode', stack', next')
  BY DEF DownLeads
<1>6. \A j \in 1 .. Len(stack') : j \in 1 .. Len(stack) \/ j = Len(stack')
  BY <1>2, <1>3
<1> QED
  BY <1>1, <1>2, <1>3, <1>4, <1>5, <1>6, AnswersKept

\* Nothing is called, and no coroutine starts.
LEMMA AnswersReturn ==
    ASSUME IInv, AnswersInv, config' = config, mode' # "down",
           stack' = stack \/ (stack # << >> /\ stack' = Front(stack))
    PROVE  AnswersInv'
<1>1. /\ table' = table /\ method' = method /\ hasOuter' = hasOuter
      /\ touched' = touched /\ path' = path
  BY DEF config
<1>2. stack \in Seq(Frames) /\ Len(stack) \in Nat
  BY StateTypes
<1>3. /\ Len(stack') \in Nat /\ Len(stack') <= Len(stack)
      /\ \A i \in 1 .. Len(stack') : stack'[i] = stack[i]
  <2>1. CASE stack' = stack
    BY <1>2, <2>1
  <2>2. CASE stack # << >> /\ stack' = Front(stack)
    <3>1. Len(stack) >= 1 /\ Len(stack') = Len(stack) - 1 /\ \A i \in 1 .. Len(stack') : stack'[i] = stack[i]
      BY <2>2, StackPopped
    <3> QED
      BY <1>2, <3>1
  <2> QED
    BY <2>1, <2>2
<1>4. DownLeads(table, path, method, hasOuter, mode', stack', next')
  BY DEF DownLeads
<1>5. \A j \in 1 .. Len(stack') : j \in 1 .. Len(stack')
  OBVIOUS
<1> QED
  BY <1>1, <1>2, <1>3, <1>4, <1>5, AnswersKept

-----------------------------------------------------------------------------
(* The steps keep the answers that are left. *)

\* The application calls the root router: the whole resolution is ahead.
LEMMA HandleAnswers ==
    ASSUME IInv, AnswersInv, Handle
    PROVE  AnswersInv'
<1> DEFINE end == IF hasOuter THEN <<Outer>> ELSE NoNext
<1>1. /\ mode = "idle" /\ next' = RouterHandle(Root, CurrentPrefix, end)
      /\ config' = config /\ stack' = stack
  BY DEF Handle, Call
<1>2. /\ table \in Tables /\ path \in Seq(Segments) /\ hasOuter \in BOOLEAN
      /\ Len(path) \in Nat
  BY StateTypes, LenProperties
<1>3. stack = << >> /\ Len(stack) = 0 /\ CurrentPrefix = << >>
  <2>1. StackInv
    BY DEF IInv
  <2>2. stack = << >> /\ Len(stack) = 0
    BY <1>1, <2>1 DEF StackInv
  <2>3. prefix = None
    BY <2>1, <2>2 DEF StackInv, MountWithin
  <2> QED
    BY <2>2, <2>3 DEF CurrentPrefix
<1>4. PICK k \in Seq(Elements) :
        k = end /\ Ahead(table, path, method, k, Ended(hasOuter))
  <2>1. CASE hasOuter
    BY <2>1, AheadOuter DEF Ended
  <2>2. CASE ~hasOuter
    <3>1. << >> \in Seq(Elements)
      OBVIOUS
    <3> QED
      BY <2>2, <3>1, AheadNil DEF Ended, NoNext
  <2> QED
    BY <2>1, <2>2
<1> HIDE DEF end
<1>5. PICK q \in Seq(Segments) : q = << >> /\ Len(q) = 0 /\ Len(q) \in 0 .. Len(path)
  <2>1. << >> \in Seq(Segments) /\ Len(<< >>) = 0 /\ 0 \in 0 .. Len(path)
    BY <1>2
  <2> QED
    BY <2>1
<1>6. /\ AnswersIn(table, path, method)[<<Root, 0>>] \in Seq(Answers)
      /\ Ahead(table, path, method, next', ResolutionIn(table, path, method, hasOuter))
  <2>1. /\ AnswersIn(table, path, method)[<<Root, Len(q)>>] \in Seq(Answers)
        /\ Ahead(table, path, method, RouterHandle(Root, q, k),
                 Join(AnswersIn(table, path, method)[<<Root, Len(q)>>], Ended(hasOuter)))
    BY <1>2, <1>4, <1>5, RootAssumption, AheadRouter
  <2>2. next' = RouterHandle(Root, q, k)
    BY <1>1, <1>3, <1>4, <1>5
  <2> QED
    BY <1>5, <2>1, <2>2 DEF ResolutionIn
<1>7. Leads(table, path, method, hasOuter, next', 0)
  <2>1. PICK u \in Seq(Answers) : u = ResolutionIn(table, path, method, hasOuter)
    <3>1. Ended(hasOuter) \in Seq(Answers)
      BY Joined DEF Ended
    <3> QED
      BY <1>6, <3>1, JoinIs DEF ResolutionIn
  <2>2. PICK w \in Seq(Answers) : w = << >> /\ Len(w) = 0 /\ FallbacksOnly(w)
    <3>1. << >> \in Seq(Answers) /\ Len(<< >>) = 0 /\ FallbacksOnly(<< >>)
      BY Joined DEF FallbacksOnly
    <3> QED
      BY <3>1
  <2>3. u = Join(w, u)
    BY <2>2, JoinIs
  <2> QED
    BY <1>6, <2>1, <2>2, <2>3 DEF Leads
<1>8. FallbacksWithin(stack, Len(stack)) = 0
  <2>1. FallbacksWithin(stack, 0) = 0
    BY WithinIs
  <2> QED
    BY <1>3, <2>1
<1> QED
  BY <1>1, <1>7, <1>8, AnswersGoOn

\* A middleware has no answer of its own.
LEMMA PipelineAnswers ==
    ASSUME IInv, AnswersInv, DispatchPipeline
    PROVE  AnswersInv'
<1> DEFINE f == [kind |-> "mw", calls |-> 0, next |-> PastEntry(next)]
<1>1. /\ mode = "down" /\ next # << >> /\ Head(next).kind = "chain" /\ config' = config
      /\ \/ /\ Head(next).index > Len(table[Head(next).router].pipeline)
            /\ next' = Tail(next) /\ stack' = stack
         \/ /\ Head(next).index <= Len(table[Head(next).router].pipeline)
            /\ table[Head(next).router].pipeline[Head(next).index] = Middleware
            /\ mode' = "at" /\ stack' = Append(stack, f)
  BY DEF DispatchPipeline, NoNext, Call, Push, Pipeline, PastEntry
<1>2. table \in Tables /\ path \in Seq(Segments) /\ next \in Seq(Elements)
  BY StateTypes
<1>3. CASE /\ Head(next).index > Len(table[Head(next).router].pipeline)
           /\ next' = Tail(next) /\ stack' = stack
  <2>1. ASSUME touched # "path", ~RetryWithin(stack, Len(stack))
        PROVE  Leads(table, path, method, hasOuter, next', FallbacksWithin(stack, Len(stack)))
    <3>1. /\ Linked(next) /\ Under(next, path)
          /\ Leads(table, path, method, hasOuter, next, FallbacksWithin(stack, Len(stack)))
      BY <1>1, <2>1, DownKnown
    <3>2. \A u : Ahead(table, path, method, next, u) => Ahead(table, path, method, Tail(next), u)
      BY <1>1, <1>2, <1>3, <3>1, AheadPast
    <3> QED
      BY <1>3, <3>1, <3>2, LeadsOn
  <2> QED
    BY <1>1, <1>3, <2>1, AnswersGoOn
<1>4. CASE /\ Head(next).index <= Len(table[Head(next).router].pipeline)
           /\ table[Head(next).router].pipeline[Head(next).index] = Middleware
           /\ mode' = "at" /\ stack' = Append(stack, f)
  <2>1. f \in Frames /\ f.kind = "mw" /\ f.next = PastEntry(next)
    <3>1. PastEntry(next) \in Seq(Elements)
      BY <1>1, <1>2, NextEntry DEF PastEntry
    <3> QED
      BY <3>1, BoundAssumption DEF Frames
  <2>2. ASSUME touched # "path", ~RetryWithin(stack, Len(stack))
        PROVE  Leads(table, path, method, hasOuter, PastEntry(next), FallbacksWithin(stack, Len(stack)))
    <3>1. /\ Linked(next) /\ Under(next, path)
          /\ Leads(table, path, method, hasOuter, next, FallbacksWithin(stack, Len(stack)))
      BY <1>1, <2>2, DownKnown
    <3>2. PICK e : e = table[Head(next).router].pipeline[Head(next).index] /\ e.kind # "mount"
      BY <1>4 DEF Middleware
    <3>3. \A u : Ahead(table, path, method, next, u) => Ahead(table, path, method, PastEntry(next), u)
      BY <1>1, <1>2, <1>4, <3>1, <3>2, AheadPassed
    <3> QED
      BY <3>1, <3>3, LeadsOn
  <2> HIDE DEF f
  <2> QED
    BY <1>1, <1>4, <2>1, <2>2, AnswersStart
<1> QED
  BY <1>1, <1>3, <1>4

\* The joined prefix of a mount matches if its own matches what is behind the parent's.
LEMMA MatchIs ==
    ASSUME NEW p \in Seq(Segments), NEW z \in Seq(Segments), IsPrefix(z, p), NEW x \in Seq(Segments)
    PROVE  MatchesPrefix(p, JoinPrefix(z, x)) <=> IsPrefix(x, Behind(p, Len(z)))
BY PrefixBehind DEF MatchesPrefix, JoinPrefix

\* A mount that matches has those of its child, one that does not has none.
LEMMA MountAnswers ==
    ASSUME IInv, AnswersInv, DispatchMount
    PROVE  AnswersInv'
<1>1. /\ mode = "down" /\ next # << >> /\ Head(next).kind = "chain" /\ config' = config
      /\ Head(next).index <= Len(table[Head(next).router].pipeline)
      /\ table[Head(next).router].pipeline[Head(next).index].kind = "mount"
  BY DEF DispatchMount, NoNext, Pipeline
<1>2. /\ table \in Tables /\ path \in Seq(Segments) /\ next \in Seq(Elements)
      /\ prefix \in SavedPrefixes
  BY StateTypes
<1>3. PICK e : e = table[Head(next).router].pipeline[Head(next).index] /\ e.kind = "mount"
  BY <1>1
<1>4. PICK eff : eff = JoinPrefix(CurrentPrefix, e.prefix)
  OBVIOUS
<1>5. \/ /\ MatchesPrefix(path, eff)
         /\ stack' = Append(stack, [kind |-> "mount", saved |-> prefix])
         /\ next' = RouterHandle(e.child, eff, <<ChildNext(prefix)>> \o PastEntry(next))
      \/ ~MatchesPrefix(path, eff) /\ next' = PastEntry(next) /\ stack' = stack
  BY <1>3, <1>4 DEF DispatchMount, Call, Pipeline, PastEntry
<1>6. e.prefix \in Seq(Segments) /\ eff \in Seq(Segments)
  <2>1. Head(next).router \in Routers /\ Head(next).index \in Nat \ {0}
    <3>1. Head(next) \in Elements
      BY <1>1, <1>2, TailIs
    <3> QED
      BY <1>1, <3>1, ElementKinds
  <2>2. e.prefix \in Seq(Segments)
    BY <1>1, <1>2, <1>3, <2>1, MountIn
  <2> QED
    BY <1>2, <1>4, <2>2, PrefixesAre
<1>7. ASSUME touched # "path", ~RetryWithin(stack, Len(stack))
      PROVE  Leads(table, path, method, hasOuter, next', FallbacksWithin(stack, Len(stack)))
  <2>1. /\ Linked(next) /\ Under(next, path) /\ Fits(next, prefix)
        /\ Leads(table, path, method, hasOuter, next, FallbacksWithin(stack, Len(stack)))
    BY <1>1, <1>7, DownKnown
  <2>2. PICK z \in Seq(Segments) : z = next[2].prefix /\ IsPrefix(z, path)
    BY <1>1, <1>2, <2>1, ChainIs
  <2>3. CurrentPrefix = z
    <3>1. Len(next) >= 2
      BY <1>1, <1>2, <2>1, NextEntry
    <3>2. next[1].kind = "chain"
      BY <1>1, <1>2, TailIs
    <3> QED
      BY <1>2, <2>1, <2>2, <3>1, <3>2, PrefixesAre DEF Fits
  <2>4. MatchesPrefix(path, eff) <=> IsPrefix(e.prefix, Behind(path, Len(z)))
    BY <1>2, <1>4, <1>6, <2>2, <2>3, MatchIs
  <2>5. CASE /\ MatchesPrefix(path, eff)
             /\ next' = RouterHandle(e.child, eff, <<ChildNext(prefix)>> \o PastEntry(next))
    <3>1. PICK k2 : k2 = RouterHandle(e.child, eff, <<ChildNext(prefix)>> \o PastEntry(next))
      OBVIOUS
    <3>2. eff = JoinPrefix(next[2].prefix, e.prefix) /\ IsPrefix(eff, path)
      BY <1>4, <2>2, <2>3, <2>5 DEF MatchesPrefix
    <3>3. ASSUME NEW u, Ahead(table, path, method, next, u) PROVE Ahead(table, path, method, k2, u)
      <4>1. \A s \in SavedPrefixes, q \in Seq(Segments) :
              q = JoinPrefix(next[2].prefix, e.prefix) /\ IsPrefix(q, path)
              => Ahead(table, path, method, RouterHandle(e.child, q, <<ChildNext(s)>> \o PastEntry(next)), u)
        BY <1>1, <1>2, <1>3, <2>1, <3>3, AheadMount
      <4> QED
        BY <1>2, <1>6, <3>1, <3>2, <4>1
    <3> QED
      BY <2>1, <2>5, <3>1, <3>3, LeadsOn
  <2>6. CASE ~MatchesPrefix(path, eff) /\ next' = PastEntry(next)
    <3>1. ASSUME NEW u, Ahead(table, path, method, next, u)
          PROVE  Ahead(table, path, method, PastEntry(next), u)
      BY <1>1, <1>2, <1>3, <2>1, <2>2, <2>4, <2>6, <3>1, AheadPassed
    <3> QED
      BY <2>1, <2>6, <3>1, LeadsOn
  <2> QED
    BY <1>5, <2>5, <2>6
<1>8. \/ stack' = stack
      \/ \E f \in Frames : f.kind = "mount" /\ stack' = Append(stack, f)
  <2>1. PICK f \in Frames : f = [kind |-> "mount", saved |-> prefix]
    BY <1>2 DEF Frames
  <2>2. f.kind = "mount"
    BY <2>1
  <2> QED
    BY <1>5, <2>1, <2>2
<1> QED
  BY <1>1, <1>7, <1>8, AnswersGoOn

\* Those of a child are passed when it falls through to its parent.
LEMMA LeaveChildAnswers ==
    ASSUME IInv, AnswersInv, LeaveChild
    PROVE  AnswersInv'
<1>1. /\ mode = "down" /\ next # << >> /\ Head(next).kind = "back" /\ config' = config
      /\ next' = Tail(next) /\ stack' = stack
  BY DEF LeaveChild, NoNext, Call
<1>2. next \in Seq(Elements)
  BY StateTypes
<1>3. ASSUME touched # "path", ~RetryWithin(stack, Len(stack))
      PROVE  Leads(table, path, method, hasOuter, next', FallbacksWithin(stack, Len(stack)))
  <2>1. Leads(table, path, method, hasOuter, next, FallbacksWithin(stack, Len(stack)))
    BY <1>1, <1>3, DownKnown
  <2>2. \A u : Ahead(table, path, method, next, u) => Ahead(table, path, method, Tail(next), u)
    BY <1>1, <1>2, AheadBack
  <2> QED
    BY <1>1, <2>1, <2>2, LeadsOn
<1> QED
  BY <1>1, <1>3, AnswersGoOn

\* What is known where the routes of a router are looked up.
LEMMA RoutesKnown ==
    ASSUME IInv, AnswersInv, DispatchRoute, touched # "path", ~RetryWithin(stack, Len(stack))
    PROVE  LET r == Head(next).router
               at == Head(next).prefix
           IN  /\ r \in Routers /\ at \in Seq(Segments) /\ ~OutOfRange(at)
               /\ Bucket(r, at) = ChosenIn(table, r, NormalizePath(Behind(path, Len(at))))
               /\ Leads(table, path, method, hasOuter, next, FallbacksWithin(stack, Len(stack)))
<1>1. mode = "down" /\ next # << >> /\ Head(next).kind = "routes"
  BY DEF DispatchRoute, NoNext
<1>2. /\ Under(next, path)
      /\ Leads(table, path, method, hasOuter, next, FallbacksWithin(stack, Len(stack)))
  BY <1>1, DownKnown
<1>3. next \in Seq(Elements)
  BY StateTypes
<1>4. Head(next) = next[1] /\ Head(next) \in Elements /\ 1 \in 1 .. Len(next)
  <2>1. Len(next) \in Nat /\ Len(next) >= 1 /\ Head(next) = next[1] /\ next[1] \in Elements
    BY <1>1, <1>3, TailIs
  <2> QED
    BY <2>1
<1>5. Head(next).router \in Routers /\ Head(next).prefix \in Seq(Segments)
  BY <1>1, <1>4, ElementKinds
<1>6. IsPrefix(Head(next).prefix, path)
  BY <1>1, <1>2, <1>4 DEF Under
<1>7. ConfigInv
  BY DEF IInv
<1> QED
  BY <1>2, <1>5, <1>6, <1>7, LookupIs

\* The routes of a router have one, or the fallback, or none.
LEMMA RouteKeepsAnswers ==
    ASSUME IInv, AnswersInv, DispatchRoute
    PROVE  AnswersInv'
<1> DEFINE r == Head(next).router
<1> DEFINE at == Head(next).prefix
<1> DEFINE bucket == IF OutOfRange(at) THEN {} ELSE Bucket(r, at)
<1> DEFINE f == [kind |-> "fallback", calls |-> 0, next |-> Tail(next)]
<1>1. /\ mode = "down" /\ next # << >> /\ Head(next).kind = "routes" /\ config' = config
  BY DEF DispatchRoute, NoNext
<1>2. \/ mode' # "down" /\ stack' = stack
      \/ /\ mode' = "down" /\ next' = Tail(next) /\ stack' = stack
         /\ ~OutOfRange(at) /\ bucket = {} /\ ~HasFallback(r)
      \/ /\ mode' = "at" /\ stack' = Append(stack, f)
         /\ ~OutOfRange(at) /\ bucket = {} /\ HasFallback(r)
      \/ mode' = "at" /\ stack' = Append(stack, [kind |-> "endpoint", saved |-> params])
  BY DEF DispatchRoute, NoNext, Call, Push, Respond
<1>3. /\ table \in Tables /\ path \in Seq(Segments) /\ next \in Seq(Elements)
      /\ FallbacksWithin(stack, Len(stack)) \in Nat
  BY StateTypes
<1>4. CASE mode' # "down" /\ stack' = stack
  BY <1>1, <1>4, AnswersReturn
<1>5. ASSUME touched # "path", ~RetryWithin(stack, Len(stack)), ~OutOfRange(at), bucket = {}
      PROVE  /\ r \in Routers
             /\ ChosenIn(table, r, NormalizePath(Behind(path, Len(Head(next).prefix)))) = {}
             /\ Leads(table, path, method, hasOuter, next, FallbacksWithin(stack, Len(stack)))
  BY <1>5, RoutesKnown
<1>6. CASE /\ mode' = "down" /\ next' = Tail(next) /\ stack' = stack
           /\ ~OutOfRange(at) /\ bucket = {} /\ ~HasFallback(r)
  <2>1. ASSUME touched # "path", ~RetryWithin(stack, Len(stack))
        PROVE  Leads(table, path, method, hasOuter, next', FallbacksWithin(stack, Len(stack)))
    <3>1. /\ r \in Routers
          /\ ChosenIn(table, r, NormalizePath(Behind(path, Len(Head(next).prefix)))) = {}
          /\ Leads(table, path, method, hasOuter, next, FallbacksWithin(stack, Len(stack)))
      BY <1>5, <1>6, <2>1
    <3>2. ~table[r].fallback
      BY <1>6 DEF HasFallback
    <3>3. \A u : Ahead(table, path, method, next, u) => Ahead(table, path, method, Tail(next), u)
      BY <1>1, <1>3, <3>1, <3>2, RoutesBegin
    <3> QED
      BY <1>6, <3>1, <3>3, LeadsOn
  <2> QED
    BY <1>1, <1>6, <2>1, AnswersGoOn
<1>7. CASE /\ mode' = "at" /\ stack' = Append(stack, f)
           /\ ~OutOfRange(at) /\ bucket = {} /\ HasFallback(r)
  <2>1. f \in Frames /\ f.kind = "fallback" /\ f.next = Tail(next)
    <3>1. Tail(next) \in Seq(Elements)
      BY <1>1, <1>3, TailIs
    <3> QED
      BY <3>1, BoundAssumption DEF Frames
  <2>2. ASSUME touched # "path", ~RetryWithin(stack, Len(stack))
        PROVE  Leads(table, path, method, hasOuter, Tail(next), FallbacksWithin(stack, Len(stack)) + 1)
    <3>1. /\ r \in Routers
          /\ ChosenIn(table, r, NormalizePath(Behind(path, Len(Head(next).prefix)))) = {}
          /\ Leads(table, path, method, hasOuter, next, FallbacksWithin(stack, Len(stack)))
      BY <1>5, <1>7, <2>2
    <3>2. table[r].fallback
      BY <1>7 DEF HasFallback
    <3>3. Begins(table, path, method, next, [by |-> "fallback", router |-> r], Tail(next))
      BY <1>1, <1>3, <3>1, <3>2, RoutesBegin
    <3>4. [by |-> "fallback", router |-> r] \in Answers /\ [by |-> "fallback", router |-> r].by = "fallback"
      BY <3>1 DEF Answers
    <3> HIDE DEF r
    <3> QED
      BY <1>3, <3>1, <3>3, <3>4, LeadsPast
  <2> HIDE DEF f
  <2> QED
    BY <1>1, <1>7, <2>1, <2>2, AnswersStart
<1>8. CASE mode' = "at" /\ stack' = Append(stack, [kind |-> "endpoint", saved |-> params])
  <2>1. PICK e : e = [kind |-> "endpoint", saved |-> params]
    OBVIOUS
  <2>2. e \in Frames /\ ~IsHandler(e)
    <3>1. params \in {None, OwnParams}
      <4>1. TypeOK /\ ScopeInv /\ ParamsInv
        BY DEF IInv
      <4>2. params = OutsideParams
        BY <1>1, <4>1 DEF ParamsInv
      <4> QED
        BY <4>2 DEF OutsideParams
    <3> QED
      BY <2>1, <3>1 DEF Frames, IsHandler
  <2> QED
    BY <1>1, <1>8, <2>1, <2>2, AnswersStart
<1> QED
  BY <1>2, <1>4, <1>6, <1>7, <1>8

\* A coroutine that awaits its next function again has the same ahead of it.
LEMMA AwaitNextAnswers ==
    ASSUME IInv, AnswersInv, AwaitNext
    PROVE  AnswersInv'
<1>1. /\ mode = "at" /\ IsHandler(Innermost) /\ Innermost.calls < MaxCalls
      /\ stack' = [stack EXCEPT ![Len(stack)].calls = @ + 1]
      /\ mode' = "down" /\ next' = Innermost.next
      /\ table' = table /\ method' = method /\ hasOuter' = hasOuter
      /\ touched' # "path" => touched # "path" /\ path' = path
  BY DEF AwaitNext, Call
<1>2. TypeOK /\ StackInv /\ stack # << >>
  BY <1>1 DEF IInv, TypeOK
<1>3. PICK n \in Nat : n = Len(stack) /\ n >= 1
  BY <1>1, <1>2, StackBumped
<1>4. PICK s : s = stack'
  OBVIOUS
<1>5. /\ Len(s) = n /\ Innermost = stack[n] /\ s[n].kind = stack[n].kind
      /\ \A i \in 1 .. n - 1 : s[i] = stack[i]
  BY <1>1, <1>2, <1>3, <1>4, StackBumped
<1>6. s[n].next = next' /\ stack[n].next = next' /\ IsHandler(s[n]) /\ IsHandler(stack[n])
  <2>1. stack \in Seq(Frames) /\ Innermost = Last(stack)
    BY StateTypes DEF Innermost
  <2>2. s[n].next = stack[n].next
    BY <1>1, <1>2, <1>3, <1>4, <2>1, Bumped
  <2> QED
    BY <1>1, <1>5, <2>2 DEF IsHandler
<1>7. /\ RetryWithin(s, n - 1) <=> RetryWithin(stack, n - 1)
      /\ FallbacksWithin(s, n) = FallbacksWithin(stack, n)
  <2>1. /\ RetryWithin(s, n - 1) <=> RetryWithin(stack, n - 1)
        /\ FallbacksWithin(s, n - 1) = FallbacksWithin(stack, n - 1)
    BY <1>5, WithinSame
  <2>2. n - 1 \in Nat /\ (n - 1) + 1 = n
    BY <1>3
  <2>3. PICK d \in Nat : d = n - 1 /\ d + 1 = n
    BY <2>2
  <2>4. FallbacksWithin(s, d + 1) = FallbacksWithin(stack, d + 1)
    <3>1. s[d + 1].kind = stack[d + 1].kind /\ FallbacksWithin(s, d) = FallbacksWithin(stack, d)
      BY <1>5, <2>1, <2>3
    <3> QED
      BY <2>3, <3>1, WithinIs
  <2> QED
    BY <2>1, <2>3, <2>4
<1>8. ASSUME touched' # "path"
      PROVE  /\ FrameLeads(table, path, method, hasOuter, s, n)
             /\ DownLeads(table, path, method, hasOuter, mode', s, next')
  <2>1. FrameLeads(table, path, method, hasOuter, stack, n)
    BY <1>1, <1>3, <1>8 DEF AnswersInv
  <2>2. FrameLeads(table, path, method, hasOuter, s, n)
    BY <1>6, <1>7, <2>1 DEF FrameLeads
  <2>3. ~RetryWithin(s, n) => ~RetryWithin(s, n - 1)
    <3>1. \A i \in 1 .. n - 1 : i \in 1 .. n
      BY <1>3
    <3> QED
      BY <3>1 DEF RetryWithin
  <2> QED
    BY <1>5, <1>6, <2>2, <2>3 DEF FrameLeads, DownLeads
<1>9. PICK d \in Nat : d = n - 1 /\ d <= Len(stack)
  BY <1>3
<1>10. \A j \in 1 .. n : j \in 1 .. d \/ j = n
  BY <1>3, <1>9
<1>11. Len(stack') \in Nat /\ Len(stack') = n /\ Len(stack) \in Nat
       /\ \A i \in 1 .. d : stack'[i] = stack[i]
  BY <1>3, <1>4, <1>5, <1>9
<1>12. touched' # "path" =>
          /\ DownLeads(table, path, method, hasOuter, mode', stack', next')
          /\ \A j \in 1 .. Len(stack') :
                j \in 1 .. d \/ FrameLeads(table, path, method, hasOuter, stack', j)
  BY <1>4, <1>8, <1>10, <1>11
<1> QED
  BY <1>1, <1>9, <1>11, <1>12, AnswersKept

\* The invariant, at first and at every step.
LEMMA InitAnswers == Init => AnswersInv
BY DEF Init, AnswersInv, DownLeads

LEMMA NextAnswers == IInv /\ AnswersInv /\ [Next]_vars => AnswersInv'
<1> SUFFICES ASSUME IInv, AnswersInv, [Next]_vars PROVE AnswersInv'
  OBVIOUS
<1>1. CASE UNCHANGED vars
  BY <1>1 DEF vars, config, AnswersInv
<1>2. CASE DispatchOuter
  BY <1>2, AnswersReturn DEF DispatchOuter, Respond
<1>3. CASE Leave("up") \/ Leave("fail")
  <2>1. stack # << >>
    BY <1>3 DEF Leave, IInv, TypeOK
  <2> QED
    BY <1>3, <2>1, AnswersReturn DEF Leave, Pop
<1>4. CASE Resume
  BY <1>4, AnswersReturn DEF Resume
<1>5. CASE Propagate
  BY <1>5, AnswersReturn DEF Propagate, Pop
<1>6. CASE LeaveMount
  BY <1>6, AnswersReturn DEF LeaveMount, Pop
<1>7. CASE Finish
  BY <1>7, AnswersReturn DEF Finish
<1> QED
  BY <1>1, <1>2, <1>3, <1>4, <1>5, <1>6, <1>7, HandleAnswers, PipelineAnswers, MountAnswers,
     RouteKeepsAnswers, LeaveChildAnswers, AwaitNextAnswers DEF Next

-----------------------------------------------------------------------------
(* The answers given are those. *)

\* parse_method finds the methods of routes, however they are written.
LEMMA MethodFound ==
    ASSUME NEW b \in Routes
    PROVE  /\ ParseMethod(method) \cap b.methods # {} <=> Upper(method) \in b.methods
           /\ ToSet(AllowHeaderValue(b)) = b.methods
<1>1. b.methods \subseteq ToSet(MethodOrder)
  BY DEF Routes
<1>2. ParseMethod(method) \cap b.methods # {} <=> Upper(method) \in b.methods
  BY <1>1 DEF ParseMethod
<1> QED
  BY <1>1, <1>2, AllowHeaderIs

\* A next answer as the resolution has it.
AnswerIs(a) ==
    /\ FallbacksPassed < Len(Resolution)
    /\ a = Resolution[FallbacksPassed + 1]
    /\ \A i \in 1 .. FallbacksPassed : Resolution[i].by = "fallback"

\* The first answer ahead is the next of the resolution.
LEMMA AnswersNext ==
    ASSUME IInv,
           Leads(table, path, method, hasOuter, next, FallbacksWithin(stack, Len(stack))),
           NEW a \in Answers,
           \A u : Ahead(table, path, method, next, u) => \E v \in Seq(Answers) : u = Join(<<a>>, v)
    PROVE  AnswerIs(a)
<1>1. PICK f \in Nat : f = FallbacksPassed /\ f = FallbacksWithin(stack, Len(stack))
  BY StateTypes, FallbacksPassedIs
<1>2. PICK R : R = Resolution /\ R = ResolutionIn(table, path, method, hasOuter)
  BY ResolutionIs
<1>3. f < Len(R) /\ R[f + 1] = a /\ \A i \in 1 .. f : R[i].by = "fallback"
  BY <1>1, <1>2, LeadsAnswer
<1> QED
  BY <1>1, <1>2, <1>3 DEF AnswerIs

\* The answer of routes is followed by others.
LEMMA BeginsNext ==
    ASSUME NEW a, Begins(table, path, method, next, a, Tail(next)),
           NEW u, Ahead(table, path, method, next, u)
    PROVE  \E v \in Seq(Answers) : u = Join(<<a>>, v)
BY DEF Begins

\* The steps that answer.
LEMMA OuterAnswers ==
    ASSUME IInv, AnswersInv, DispatchOuter, touched # "path", ~RetryWithin(stack, Len(stack))
    PROVE  AnswerIs(Named(answer'))
<1>1. mode = "down" /\ next # << >> /\ Head(next).kind = "outer" /\ answer' = [by |-> "outer"]
  BY DEF DispatchOuter, NoNext, Respond
<1>2. next \in Seq(Elements)
  BY StateTypes
<1>3. Leads(table, path, method, hasOuter, next, FallbacksWithin(stack, Len(stack)))
  BY <1>1, DownKnown
<1>4. ASSUME NEW u, Ahead(table, path, method, next, u)
      PROVE  \E v \in Seq(Answers) : u = Join(<<[by |-> "outer"]>>, v)
  <2>1. u = BehindOuter
    BY <1>1, <1>2, <1>4, AheadOuter
  <2> QED
    BY <2>1, LastAnswers
<1>5. AnswerIs([by |-> "outer"])
  BY <1>3, <1>4, LastAnswers, AnswersNext
<1>6. Named(answer') = [by |-> "outer"]
  BY <1>1 DEF Named
<1> QED
  BY <1>5, <1>6

LEMMA RouteAnswers ==
    ASSUME IInv, AnswersInv, DispatchRoute, touched # "path", ~RetryWithin(stack, Len(stack)),
           answer' # answer
    PROVE  AnswerIs(Named(answer'))
<1>1. mode = "down" /\ next # << >> /\ Head(next).kind = "routes"
  BY DEF DispatchRoute, NoNext
<1>2. PICK r \in Routers, at \in Seq(Segments) :
        /\ r = Head(next).router /\ at = Head(next).prefix /\ ~OutOfRange(at)
        /\ Bucket(r, at) = ChosenIn(table, r, NormalizePath(Behind(path, Len(at))))
        /\ Leads(table, path, method, hasOuter, next, FallbacksWithin(stack, Len(stack)))
  BY RoutesKnown
<1>3. table \in Tables /\ path \in Seq(Segments) /\ next \in Seq(Elements)
  BY StateTypes
<1>4. \/ Bucket(r, at) = {} /\ HasFallback(r) /\ answer' = [by |-> "fallback", router |-> r]
      \/ Bucket(r, at) = {} /\ ~HasFallback(r) /\ Tail(next) = << >> /\ answer' = [by |-> "404"]
      \/ \E b \in Bucket(r, at) :
            /\ ParseMethod(method) \cap b.methods = {}
            /\ answer' = [by |-> "405", router |-> r, path |-> b.path, allow |-> AllowHeaderValue(b)]
      \/ \E b \in Bucket(r, at) :
            /\ ParseMethod(method) \cap b.methods # {}
            /\ answer' = [by |-> "endpoint", router |-> r, path |-> b.path]
  BY <1>2 DEF DispatchRoute, Push, Call, Respond, NoNext
<1>5. PICK B : B = Bucket(r, at) /\ B = ChosenIn(table, r, NormalizePath(Behind(path, Len(Head(next).prefix))))
  BY <1>2
<1>6. CASE Bucket(r, at) = {} /\ HasFallback(r) /\ answer' = [by |-> "fallback", router |-> r]
  <2>1. PICK a \in Answers : a = [by |-> "fallback", router |-> r]
    BY DEF Answers
  <2>2. Begins(table, path, method, next, a, Tail(next))
    BY <1>1, <1>2, <1>3, <1>5, <1>6, <2>1, RoutesBegin DEF HasFallback
  <2>3. AnswerIs(a)
    BY <1>2, <2>2, BeginsNext, AnswersNext
  <2>4. Named(answer') = a
    BY <1>6, <2>1 DEF Named
  <2> QED
    BY <2>3, <2>4
<1>7. CASE Bucket(r, at) = {} /\ ~HasFallback(r) /\ Tail(next) = << >> /\ answer' = [by |-> "404"]
  <2>1. ASSUME NEW u, Ahead(table, path, method, next, u)
        PROVE  \E v \in Seq(Answers) : u = Join(<<[by |-> "404"]>>, v)
    <3>1. Ahead(table, path, method, << >>, u)
      BY <1>1, <1>2, <1>3, <1>5, <1>7, <2>1, RoutesBegin DEF HasFallback
    <3>2. u = Behind404
      BY <3>1, AheadNil
    <3> QED
      BY <3>2, LastAnswers
  <2>2. AnswerIs([by |-> "404"])
    BY <1>2, <2>1, LastAnswers, AnswersNext
  <2>3. Named(answer') = [by |-> "404"]
    BY <1>7 DEF Named
  <2> QED
    BY <2>2, <2>3
<1>8. ASSUME NEW b \in Bucket(r, at)
      PROVE  /\ b \in Routes /\ AnswerIs(AnswerOf(method, r, b))
             /\ ParseMethod(method) \cap b.methods # {} <=> Upper(method) \in b.methods
             /\ ToSet(AllowHeaderValue(b)) = b.methods
  <2>1. b \in Routes /\ Begins(table, path, method, next, AnswerOf(method, r, b), Tail(next))
    BY <1>1, <1>2, <1>3, <1>5, <1>8, RoutesBegin
  <2>2. PICK a \in Answers : a = AnswerOf(method, r, b)
    BY <2>1, AnswerOfIs
  <2>3. AnswerIs(a)
    BY <1>2, <2>1, <2>2, BeginsNext, AnswersNext
  <2> QED
    BY <2>1, <2>2, <2>3, MethodFound
<1>9. ASSUME NEW b \in Bucket(r, at), ParseMethod(method) \cap b.methods = {},
             answer' = [by |-> "405", router |-> r, path |-> b.path, allow |-> AllowHeaderValue(b)]
      PROVE  AnswerIs(Named(answer'))
  <2>1. /\ AnswerIs(AnswerOf(method, r, b)) /\ Upper(method) \notin b.methods
        /\ ToSet(AllowHeaderValue(b)) = b.methods
    BY <1>8, <1>9
  <2>2. Named(answer') = [by |-> "405", router |-> r, path |-> b.path, allow |-> ToSet(AllowHeaderValue(b))]
    BY <1>9 DEF Named
  <2> QED
    BY <2>1, <2>2 DEF AnswerOf
<1>10. ASSUME NEW b \in Bucket(r, at), ParseMethod(method) \cap b.methods # {},
              answer' = [by |-> "endpoint", router |-> r, path |-> b.path]
       PROVE  AnswerIs(Named(answer'))
  <2>1. AnswerIs(AnswerOf(method, r, b)) /\ Upper(method) \in b.methods
    BY <1>8, <1>10
  <2>2. Named(answer') = [by |-> "endpoint", router |-> r, path |-> b.path]
    BY <1>10 DEF Named
  <2> QED
    BY <2>1, <2>2 DEF AnswerOf
<1> QED
  BY <1>4, <1>6, <1>7, <1>9, <1>10

-----------------------------------------------------------------------------
(* Theorems. *)

\* The inductive invariant holds of every configuration of routers, of every
\* request and of middlewares that await next as often as they like.
THEOREM Invariance == Spec => []IInv
<1>1. Init => IInv
  BY InitIInv
<1>2. IInv /\ [Next]_vars => IInv'
  BY NextIInv
<1> QED
  BY <1>1, <1>2, PTL DEF Spec

\* The context, the coroutines and their next functions are well formed.
THEOREM TypeCorrect == Spec => []TypeOK
<1>1. IInv => TypeOK
  BY DEF IInv
<1> QED
  BY <1>1, Invariance, PTL

\* However a request ends, the prefix of the mount it went through and the
\* parameters of the route it matched are gone from its context.
THEOREM RestoresTheContext == Spec => []Restored
<1>1. IInv => Restored
  <2> SUFFICES ASSUME IInv, mode = "done"
               PROVE  prefix = None /\ params = (IF touched = "params" THEN OwnParams ELSE None)
    BY DEF Restored
  <2>1. stack = << >> /\ Len(stack) = 0
    BY DEF IInv, StackInv
  <2>2. prefix = None
    BY <2>1 DEF IInv, StackInv, MountWithin
  <2>3. params = OutsideParams
    BY <2>1 DEF IInv, ParamsInv
  <2> QED
    BY <2>2, <2>3 DEF OutsideParams
<1> QED
  BY <1>1, Invariance, PTL

\* Parameters of a route are seen by its endpoint alone, and are the segments of
\* the path that the route has parameters for, but for the first segment of a path
\* that a middleware has changed: of that one, relative_path_for may leave the end.
THEOREM KeepsParamsInScope == Spec => []ParamsInScope
<1>1. IInv => ParamsInScope
  <2> SUFFICES ASSUME IInv, params \notin {None, OwnParams}
               PROVE  mode = "at" /\ Innermost.kind = "endpoint" /\ answer.by = "endpoint"
                      /\ Matched(answer.path)
    BY DEF ParamsInScope, Matched, BoundNames
  <2>1. params # OutsideParams
    BY DEF OutsideParams
  <2>2. PICK j \in 1 .. Len(stack) : stack[j].kind = "endpoint"
    BY <2>1 DEF IInv, ParamsInv
  <2>3. /\ j = Len(stack) /\ mode = "at" /\ answer.by = "endpoint"
        /\ Matched(answer.path)
    BY <2>1, <2>2 DEF IInv, ParamsInv
  <2>4. Innermost = stack[Len(stack)]
    BY DEF Innermost, Last
  <2> QED
    BY <2>2, <2>3, <2>4
<1> QED
  BY <1>1, Invariance, PTL

\* A router runs under the prefix its routes are relative to, which the path has
\* unless a middleware has changed it.
THEOREM RunsUnderItsPrefix == Spec => []ScopeFollows
<1>1. IInv => ScopeFollows
  <2> DEFINE own == CHOOSE i \in DOMAIN next :
                       next[i].kind = "routes" /\ \A j \in 1..(i - 1) : next[j].kind # "routes"
  <2> SUFFICES ASSUME IInv, mode = "down", next # << >>,
                      Head(next).kind \in {"chain", "routes"}, ~RetryInsideMount
               PROVE  /\ CurrentPrefix = next[own].prefix
                      /\ touched # "path" => MatchesPrefix(path, CurrentPrefix)
    BY DEF ScopeFollows, NoNext
  <2>1. TypeOK /\ StackInv /\ ScopeInv
    BY DEF IInv
  <2>2. next \in Seq(Elements) /\ Len(next) \in Nat /\ Len(next) >= 1 /\ Head(next) = next[1]
        /\ DOMAIN next = 1 .. Len(next) /\ DOMAIN stack = 1 .. Len(stack)
    BY <2>1 DEF TypeOK
  <2>3. ~RetryWithin(stack, Len(stack))
    BY <2>2 DEF RetryInsideMount, RetryWithin
  <2>4. Linked(next) /\ Fits(next, prefix) /\ (touched # "path" => Under(next, path))
    BY <2>1, <2>3 DEF StackInv, ScopeInv, Good
  <2> DEFINE first == IF next[1].kind = "routes" THEN 1 ELSE 2
  <2>5. /\ first \in 1 .. Len(next) /\ next[first].kind = "routes"
        /\ \A j \in 1 .. (first - 1) : next[j].kind # "routes"
    <3>1. CASE next[1].kind = "routes"
      BY <2>2, <3>1
    <3>2. CASE next[1].kind # "routes"
      <4>1. 1 \in 1 .. Len(next) /\ 1 + 1 = 2 /\ next[1].kind = "chain"
        BY <2>2, <3>2
      <4>2. 2 <= Len(next) /\ next[2].kind = "routes"
        BY <2>4, <4>1 DEF Linked
      <4> QED
        BY <2>2, <3>2, <4>2
    <3> QED
      BY <3>1, <3>2
  <2>6. own = first
    <3> HIDE DEF first
    <3>1. own \in 1 .. Len(next) /\ next[own].kind = "routes"
          /\ \A j \in 1 .. (own - 1) : next[j].kind # "routes"
      BY <2>2, <2>5
    <3> HIDE DEF own
    <3>2. ~(own < first)
      <4>1. own < first => own \in 1 .. (first - 1)
        BY <2>2, <2>5, <3>1
      <4> QED
        BY <2>5, <3>1, <4>1
    <3>3. ~(first < own)
      <4>1. first < own => first \in 1 .. (own - 1)
        BY <2>2, <2>5, <3>1
      <4> QED
        BY <2>5, <3>1, <4>1
    <3> QED
      BY <2>2, <2>5, <3>1, <3>2, <3>3
  <2> HIDE DEF own
  <2>7. CurrentPrefix = next[own].prefix
    <3>1. CurrentPrefix = InForce(prefix)
      BY <2>1, PrefixesAre DEF TypeOK
    <3>2. InForce(prefix) = next[first].prefix
      BY <2>2, <2>4, <2>5 DEF Fits
    <3> QED
      BY <2>6, <3>1, <3>2
  <2>8. touched # "path" => MatchesPrefix(path, CurrentPrefix)
    BY <2>4, <2>5, <2>6, <2>7 DEF Under, MatchesPrefix
  <2> QED
    BY <2>7, <2>8
<1> QED
  BY <1>1, Invariance, PTL

\* Whoever answers, the application behind the root router or a router on the way,
\* is the one the resolution has next.
THEOREM AnswersAsResolved == Spec => AnsweredAsResolved
<1>1. Init => IInv /\ AnswersInv
  BY InitIInv, InitAnswers
<1>2. IInv /\ AnswersInv /\ [Next]_vars => (IInv /\ AnswersInv)'
  BY NextIInv, NextAnswers
<1> DEFINE A == answer' # answer /\ ~RetryInsideMount /\ touched # "path"
                => /\ FallbacksPassed < Len(Resolution)
                   /\ Named(answer') = Resolution[FallbacksPassed + 1]
                   /\ \A i \in 1..FallbacksPassed : Resolution[i].by = "fallback"
<1>3. IInv /\ AnswersInv /\ [Next]_vars => [A]_vars
  <2> SUFFICES ASSUME IInv, AnswersInv, Next, answer' # answer, ~RetryInsideMount, touched # "path"
               PROVE  AnswerIs(Named(answer'))
    BY DEF AnswerIs
  <2>1. ~RetryWithin(stack, Len(stack))
    BY StateTypes, FallbacksPassedIs
  <2>2. DispatchRoute \/ DispatchOuter
    BY DEF Next, Handle, DispatchPipeline, DispatchMount, LeaveChild, AwaitNext, Leave, Resume,
           Propagate, LeaveMount, Finish
  <2> QED
    BY <2>1, <2>2, RouteAnswers, OuterAnswers
<1>4. AnsweredAsResolved <=> [][A]_vars
  BY DEF AnsweredAsResolved
<1> HIDE DEF A
<1> QED
  BY <1>1, <1>2, <1>3, <1>4, PTL DEF Spec
=============================================================================
