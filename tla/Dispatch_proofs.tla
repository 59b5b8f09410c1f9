--------------------------- MODULE Dispatch_proofs ---------------------------
(***************************************************************************)
(* Proofs about Dispatch: whatever the middlewares do, a next function     *)
(* leads to exactly the layers that come after them, and each step of the  *)
(* recursion through the composed handlers is a step of Onion, or none.    *)
(*                                                                         *)
(* The first part is about FlattenSeq, the second about the layers of an   *)
(* application, which are a function defined by recursion along the        *)
(* composition: it exists since handlers are composed without a cycle.     *)
(***************************************************************************)
EXTENDS Dispatch, SequenceTheorems, WellFoundedInduction, TLAPS

-----------------------------------------------------------------------------
(* Flattening. *)

\* Induction on the natural numbers, in terms of sets.
LEMMA Induction ==
    ASSUME NEW S, 0 \in S, \A n \in Nat : n \in S => n + 1 \in S
    PROVE  Nat \subseteq S
<1> DEFINE R == {ss \in Nat \X Nat : ss[1] < ss[2]}
<1>1. IsWellFoundedOn(R, Nat)
  BY NatLessThanWellFounded DEF OpToRel
<1> DEFINE T == Nat \ S
<1>2. ASSUME T # {} PROVE FALSE
  <2> HIDE DEF R
  <2>1. T \subseteq Nat
    OBVIOUS
  <2>2. PICK x \in T : \A y \in T : ~(<<y, x>> \in R)
    BY <1>1, <1>2, <2>1, WFMin
  <2>3. x # 0 /\ x \in Nat
    OBVIOUS
  <2>4. x - 1 \in Nat /\ x = (x - 1) + 1
    BY <2>3
  <2>5. x - 1 \notin S
    BY <2>4
  <2>6. <<x - 1, x>> \in R
    BY <2>3, <2>4 DEF R
  <2> QED
    BY <2>2, <2>4, <2>5, <2>6
<1> QED
  BY <1>2

\* f flattens the first n members of s one after the other.
Flattens(f, s, n) == f = [i \in 1..n |-> IF i = 1 THEN s[i] ELSE f[i-1] \o s[i]]

\* Such a function exists.
LEMMA FlattensExists ==
    ASSUME NEW s, NEW n \in Nat
    PROVE  \E f : Flattens(f, s, n)
<1> DEFINE I == {m \in Nat : \E f : Flattens(f, s, m)}
<1>1. 0 \in I
  <2> DEFINE f == [i \in 1..0 |-> s]
  <2>1. f = [i \in 1..0 |-> IF i = 1 THEN s[i] ELSE f[i-1] \o s[i]]
    OBVIOUS
  <2>2. Flattens(f, s, 0)
    BY <2>1 DEF Flattens
  <2> HIDE DEF f
  <2> QED
    BY <2>2
<1>2. ASSUME NEW m \in Nat, m \in I PROVE m + 1 \in I
  <2>1. PICK g : Flattens(g, s, m)
    BY <1>2
  <2>2. \A i \in 1..m : g[i] = IF i = 1 THEN s[i] ELSE g[i-1] \o s[i]
    BY <2>1 DEF Flattens
  <2> DEFINE f == [i \in 1..(m+1) |-> IF i = m + 1
                                      THEN IF i = 1 THEN s[i] ELSE g[i-1] \o s[i]
                                      ELSE g[i]]
  <2>3. ASSUME NEW i \in 1..(m+1)
        PROVE  f[i] = IF i = 1 THEN s[i] ELSE f[i-1] \o s[i]
    <3>1. CASE i = 1
      BY <2>2, <3>1
    <3>2. CASE i # 1
      <4>1. i - 1 \in 1..(m+1) /\ i - 1 # m + 1 /\ (i - 1) \in 1..m
        BY <3>2
      <4>2. f[i-1] = g[i-1]
        BY <4>1
      <4>3. f[i] = g[i-1] \o s[i]
        <5>1. CASE i = m + 1
          BY <3>2, <5>1
        <5>2. CASE i # m + 1
          <6>1. i \in 1..m /\ f[i] = g[i]
            BY <5>2
          <6> HIDE DEF f
          <6> QED
            BY <2>2, <3>2, <6>1
        <5> QED
          BY <5>1, <5>2
      <4> HIDE DEF f
      <4> QED
        BY <3>2, <4>2, <4>3
    <3> QED
      BY <3>1, <3>2
  <2>4. f = [i \in 1..(m+1) |-> f[i]]
    OBVIOUS
  <2> HIDE DEF f
  <2>5. Flattens(f, s, m + 1)
    BY <2>3, <2>4 DEF Flattens
  <2> QED
    BY <2>5
<1>3. Nat \subseteq I
  <2> HIDE DEF I
  <2> QED
    BY <1>1, <1>2, Induction
<1> QED
  BY <1>3

\* FlattenSeq is the last value of one.
LEMMA FlattenSeqIs ==
    ASSUME NEW s, Len(s) \in Nat \ {0}
    PROVE  \E f : Flattens(f, s, Len(s)) /\ FlattenSeq(s) = f[Len(s)]
<1> DEFINE f == CHOOSE g : g = [i \in 1..Len(s) |-> IF i = 1 THEN s[i] ELSE g[i-1] \o s[i]]
<1>1. FlattenSeq(s) = f[Len(s)]
  BY DEF FlattenSeq
<1>2. f = CHOOSE g : Flattens(g, s, Len(s))
  BY DEF Flattens
<1> HIDE DEF f
<1>3. Flattens(f, s, Len(s))
  BY <1>2, FlattensExists
<1> QED
  BY <1>1, <1>3

\* It depends on these members alone.
Agree(s, t, n) == \A i \in 1..n : s[i] = t[i]

\* Sequences that agree are flattened to values that agree.
LEMMA FlattensUnique ==
    ASSUME NEW s, NEW t, NEW m \in Nat, NEW n \in Nat, n <= m,
           Agree(s, t, n),
           NEW f, Flattens(f, s, m), NEW g, Flattens(g, t, n)
    PROVE  Agree(f, g, n)
<1>0. \A i \in 1..n : s[i] = t[i]
  BY DEF Agree
<1>1. \A i \in 1..m : f[i] = IF i = 1 THEN s[i] ELSE f[i-1] \o s[i]
  BY DEF Flattens
<1>2. \A i \in 1..n : g[i] = IF i = 1 THEN t[i] ELSE g[i-1] \o t[i]
  BY DEF Flattens
<1> DEFINE I == {i \in Nat : i \in 1..n => f[i] = g[i]}
<1>3. 0 \in I
  OBVIOUS
<1>4. ASSUME NEW i \in Nat, i \in I PROVE i + 1 \in I
  <2> SUFFICES ASSUME i + 1 \in 1..n PROVE f[i+1] = g[i+1]
    OBVIOUS
  <2>1. i + 1 \in 1..m /\ (i + 1) - 1 = i
    OBVIOUS
  <2>2. CASE i = 0
    BY <1>0, <1>1, <1>2, <2>1, <2>2
  <2>3. CASE i # 0
    <3>1. i \in 1..n
      BY <2>3
    <3>2. f[i] = g[i]
      BY <1>4, <3>1
    <3>3. f[i+1] = f[i] \o s[i+1] /\ g[i+1] = g[i] \o t[i+1]
      <4>1. i + 1 # 1
        BY <2>3
      <4>2. f[i+1] = f[(i+1)-1] \o s[i+1]
        BY <1>1, <2>1, <4>1
      <4>3. g[i+1] = g[(i+1)-1] \o t[i+1]
        BY <1>2, <4>1
      <4> QED
        BY <2>1, <4>2, <4>3
    <3> QED
      BY <1>0, <3>2, <3>3
  <2> QED
    BY <2>2, <2>3
<1>5. Nat \subseteq I
  <2> HIDE DEF I
  <2> QED
    BY <1>3, <1>4, Induction
<1> QED
  BY <1>5 DEF Agree

\* Nothing is flattened to nothing.
LEMMA FlattenEmpty == FlattenSeq(<< >>) = << >>
BY DEF FlattenSeq

\* What is flattened has the members of the parts,
LEMMA FlattenTyped ==
    ASSUME NEW S, NEW s \in Seq(Seq(S))
    PROVE  FlattenSeq(s) \in Seq(S)
<1>1. CASE s = << >>
  BY <1>1, FlattenEmpty, EmptySeq
<1>2. CASE s # << >>
  <2>1. Len(s) \in Nat \ {0}
    BY <1>2, EmptySeq
  <2>2. PICK f : Flattens(f, s, Len(s)) /\ FlattenSeq(s) = f[Len(s)]
    BY <2>1, FlattenSeqIs
  <2>3. \A i \in 1..Len(s) : f[i] = IF i = 1 THEN s[i] ELSE f[i-1] \o s[i]
    BY <2>2 DEF Flattens
  <2> DEFINE I == {i \in Nat : i \in 1..Len(s) => f[i] \in Seq(S)}
  <2>4. 0 \in I
    OBVIOUS
  <2>5. ASSUME NEW i \in Nat, i \in I PROVE i + 1 \in I
    <3> SUFFICES ASSUME i + 1 \in 1..Len(s) PROVE f[i+1] \in Seq(S)
      OBVIOUS
    <3>0. s[i+1] \in Seq(S)
      BY ElementOfSeq
    <3>1. CASE i = 0
      BY <2>3, <3>0, <3>1
    <3>2. CASE i # 0
      <4>1. i \in 1..Len(s) /\ (i + 1) - 1 = i
        BY <2>1, <3>2
      <4>2. f[i] \in Seq(S)
        BY <2>5, <4>1
      <4>3. f[i+1] = f[i] \o s[i+1]
        <5>1. i + 1 # 1
          BY <3>2
        <5>2. f[i+1] = f[(i+1)-1] \o s[i+1]
          BY <2>3, <5>1
        <5> QED
          BY <4>1, <5>2
      <4> QED
        BY <3>0, <4>2, <4>3, ConcatProperties
    <3> QED
      BY <3>1, <3>2
  <2>6. Nat \subseteq I
    <3> HIDE DEF I
    <3> QED
      BY <2>4, <2>5, Induction
  <2> QED
    BY <2>1, <2>2, <2>6
<1> QED
  BY <1>1, <1>2

\* and a part that is appended comes last.
LEMMA FlattenAppend ==
    ASSUME NEW S, NEW s \in Seq(Seq(S)), NEW x \in Seq(S)
    PROVE  FlattenSeq(Append(s, x)) = FlattenSeq(s) \o x
<1> DEFINE t == Append(s, x)
<1>1. /\ t \in Seq(Seq(S))
      /\ Len(t) = Len(s) + 1
      /\ \A i \in 1..Len(s) : s[i] = t[i]
      /\ t[Len(s) + 1] = x
      /\ Len(s) \in Nat
  BY AppendProperties
<1> HIDE DEF t
<1>2. PICK f : Flattens(f, t, Len(t)) /\ FlattenSeq(t) = f[Len(t)]
  <2>1. Len(t) \in Nat \ {0}
    BY <1>1
  <2> QED
    BY <2>1, FlattenSeqIs
<1>3. \A i \in 1..Len(t) : f[i] = IF i = 1 THEN t[i] ELSE f[i-1] \o t[i]
  BY <1>2 DEF Flattens
<1>4. CASE s = << >>
  <2>1. FlattenSeq(t) = x
    BY <1>1, <1>2, <1>3, <1>4
  <2> QED
    BY <1>4, <2>1, FlattenEmpty, ConcatEmptySeq DEF t
<1>5. CASE s # << >>
  <2>1. Len(s) \in Nat \ {0}
    BY <1>5, EmptySeq
  <2>2. PICK g : Flattens(g, s, Len(s)) /\ FlattenSeq(s) = g[Len(s)]
    BY <2>1, FlattenSeqIs
  <2>3. \A i \in 1..Len(s) : g[i] = f[i]
    <3>1. Len(t) \in Nat /\ Len(s) <= Len(t) /\ Agree(t, s, Len(s))
      BY <1>1 DEF Agree
    <3>2. Flattens(f, t, Len(t)) /\ Flattens(g, s, Len(s))
      BY <1>2, <2>2
    <3>3. Len(s) \in Nat
      BY <1>1
    <3>4. Agree(f, g, Len(s))
      BY <3>1, <3>2, <3>3, FlattensUnique
    <3> QED
      BY <3>4 DEF Agree
  <2>4. f[Len(s) + 1] = f[Len(s)] \o x
    <3>1. Len(s) + 1 \in 1..Len(t) /\ Len(s) + 1 # 1 /\ (Len(s) + 1) - 1 = Len(s)
      BY <1>1, <2>1
    <3>2. f[Len(s) + 1] = f[(Len(s) + 1) - 1] \o t[Len(s) + 1]
      BY <1>3, <3>1
    <3> QED
      BY <1>1, <3>1, <3>2
  <2>5. f[Len(s)] = g[Len(s)]
    BY <2>1, <2>3
  <2>6. FlattenSeq(t) = FlattenSeq(s) \o x
    BY <1>1, <1>2, <2>2, <2>4, <2>5
  <2> QED
    BY <2>6 DEF t
<1> QED
  BY <1>4, <1>5

\* Flattening a sequence with one more in front.
LEMMA FlattenPrepend ==
    ASSUME NEW S, NEW x \in Seq(S), NEW s \in Seq(Seq(S))
    PROVE  FlattenSeq(<<x>> \o s) = x \o FlattenSeq(s)
<1> DEFINE I == {n \in Nat : \A u \in Seq(Seq(S)) :
                     Len(u) = n => FlattenSeq(<<x>> \o u) = x \o FlattenSeq(u)}
<1>0. <<x>> \in Seq(Seq(S)) /\ << >> \in Seq(Seq(S))
  OBVIOUS
<1>1. 0 \in I
  <2> SUFFICES ASSUME NEW u \in Seq(Seq(S)), Len(u) = 0
               PROVE  FlattenSeq(<<x>> \o u) = x \o FlattenSeq(u)
    OBVIOUS
  <2>1. u = << >>
    OBVIOUS
  <2>2. <<x>> \o u = Append(<< >>, x)
    BY <2>1
  <2>3. FlattenSeq(<<x>> \o u) = << >> \o x
    BY <1>0, <2>2, FlattenAppend, FlattenEmpty
  <2> QED
    BY <2>1, <2>3, FlattenEmpty, ConcatEmptySeq
<1>2. ASSUME NEW n \in Nat, n \in I PROVE n + 1 \in I
  <2> SUFFICES ASSUME NEW u \in Seq(Seq(S)), Len(u) = n + 1
               PROVE  FlattenSeq(<<x>> \o u) = x \o FlattenSeq(u)
    <3>1. n + 1 \in Nat
      OBVIOUS
    <3> QED
      BY <3>1
  <2>1. u # << >>
    OBVIOUS
  <2>2. PICK v \in Seq(Seq(S)), y \in Seq(S) : u = Append(v, y)
    BY <2>1, SequenceEmptyOrAppend
  <2>3. Len(v) = n
    BY <2>2, AppendProperties
  <2>4. FlattenSeq(<<x>> \o v) = x \o FlattenSeq(v)
    BY <1>2, <2>3
  <2>5. <<x>> \o u = Append(<<x>> \o v, y)
    <3>1. u = v \o <<y>> /\ Append(<<x>> \o v, y) = (<<x>> \o v) \o <<y>>
      BY <1>0, <2>2, AppendIsConcat, ConcatProperties
    <3>2. <<y>> \in Seq(Seq(S))
      OBVIOUS
    <3> QED
      BY <1>0, <3>1, <3>2, ConcatAssociative
  <2>6. <<x>> \o v \in Seq(Seq(S))
    BY <1>0, ConcatProperties
  <2>7. FlattenSeq(<<x>> \o u) = (x \o FlattenSeq(v)) \o y
    BY <2>4, <2>5, <2>6, FlattenAppend
  <2>8. FlattenSeq(u) = FlattenSeq(v) \o y
    BY <2>2, FlattenAppend
  <2>9. FlattenSeq(v) \in Seq(S)
    BY FlattenTyped
  <2>10. (x \o FlattenSeq(v)) \o y = x \o (FlattenSeq(v) \o y)
    <3>1. PICK z \in Seq(S) : z = FlattenSeq(v)
      BY <2>9
    <3>2. (x \o z) \o y = x \o (z \o y)
      BY <2>2, <3>1, ConcatAssociative
    <3> QED
      BY <3>1, <3>2
  <2> QED
    BY <2>7, <2>8, <2>10
<1>3. Nat \subseteq I
  <2> HIDE DEF I
  <2> QED
    BY <1>1, <1>2, Induction
<1>4. Len(s) \in I
  BY <1>3, LenProperties
<1> QED
  BY <1>4

-----------------------------------------------------------------------------
(* The layers of an application. *)

\* Chains composed as the model composes them, and fallbacks.
IsChains(c) ==
    /\ c \in [Handlers -> Seq(Entries)]
    /\ \A h \in Handlers : \A i \in 1..Len(c[h]) :
          c[h][i] \in Handlers => <<h, c[h][i]>> \in MayContain

IsFallbacks(f) == f \in [Handlers -> Middlewares \cup {Null}]

\* One unfolding of the recursion.
Body(c, f, L, h) ==
    FlattenSeq([i \in 1..Len(c[h]) |-> Expanded(c[h][i], L)]) \o LastLayer(f, h)

\* A set of handlers with all that is composed into them, and the recursion on it.
Closed(D) ==
    /\ D \subseteq Handlers
    /\ \A h \in D, g \in Handlers : <<h, g>> \in MayContain => g \in D

Solves(c, f, D, L) == L = [h \in D |-> Body(c, f, L, h)]

\* A solution has the value of its unfolding.
LEMMA SolvesValue ==
    ASSUME NEW c, NEW f, NEW D, NEW L, Solves(c, f, D, L), NEW h \in D
    PROVE  L[h] = Body(c, f, L, h)
BY DEF Solves

\* Some handler of every set has none of the set composed into it.
LEMMA MinimalHandler ==
    ASSUME NEW S, S \subseteq Handlers, S # {}
    PROVE  \E h \in S : \A g \in S : <<h, g>> \notin MayContain
BY NoCycleAssumption DEF NoCycle

\* What a handler's layers are depends on the handlers composed into it alone.
SameBelow(h, L, M) == \A g \in Handlers : <<h, g>> \in MayContain => L[g] = M[g]

\* Two functions that agree there have the same unfolding.
LEMMA BodyLocal ==
    ASSUME NEW c, IsChains(c), NEW f, NEW L, NEW M, NEW h \in Handlers, SameBelow(h, L, M)
    PROVE  Body(c, f, L, h) = Body(c, f, M, h)
<1>1. \A i \in 1..Len(c[h]) : Expanded(c[h][i], L) = Expanded(c[h][i], M)
  BY DEF Expanded, SameBelow, IsChains
<1>2. [i \in 1..Len(c[h]) |-> Expanded(c[h][i], L)] = [i \in 1..Len(c[h]) |-> Expanded(c[h][i], M)]
  BY <1>1
<1> QED
  BY <1>2 DEF Body

\* Two solutions agree where both are defined,
LEMMA SolvesUnique ==
    ASSUME NEW c, IsChains(c), NEW f, NEW D, NEW E, Closed(D), Closed(E),
           NEW L, NEW M, Solves(c, f, D, L), Solves(c, f, E, M),
           NEW h \in D, h \in E
    PROVE  L[h] = M[h]
<1> DEFINE S == {g \in D : g \in E /\ L[g] # M[g]}
<1>1. ASSUME S # {} PROVE FALSE
  <2>0. S \subseteq Handlers
    BY DEF Closed
  <2> HIDE DEF S
  <2>1. PICK g \in S : \A k \in S : <<g, k>> \notin MayContain
    BY <1>1, <2>0, MinimalHandler
  <2>2. g \in D /\ g \in E /\ g \in Handlers /\ L[g] # M[g]
    BY <2>0, <2>1 DEF S
  <2>3. SameBelow(g, L, M)
    BY <2>1, <2>2 DEF Closed, S, SameBelow
  <2>4. L[g] = Body(c, f, L, g) /\ M[g] = Body(c, f, M, g)
    BY <2>2, SolvesValue
  <2>5. Body(c, f, L, g) = Body(c, f, M, g)
    BY <2>2, <2>3, BodyLocal
  <2> QED
    BY <2>2, <2>4, <2>5
<1> QED
  BY <1>1

\* and there is one for all handlers: if a handler had none, one would have none
\* though all that is composed into it has.
LEMMA SolvesExists ==
    ASSUME NEW c, IsChains(c), NEW f
    PROVE  \E L : Solves(c, f, Handlers, L)
<1> DEFINE Sol(h, D, L) == Closed(D) /\ h \in D /\ Solves(c, f, D, L)
<1> DEFINE G == {h \in Handlers : \E D, L : Sol(h, D, L)}
<1> DEFINE Of(h) == CHOOSE L : \E D : Sol(h, D, L)
<1> DEFINE M == [h \in G |-> Of(h)[h]]
<1>1. ASSUME NEW D, NEW L, NEW h, Sol(h, D, L) PROVE h \in G /\ M[h] = L[h]
  <2>1. h \in G
    BY <1>1 DEF Closed
  <2>2. \E E : Sol(h, E, Of(h))
    <3>1. \E K : \E E : Sol(h, E, K)
      BY <1>1
    <3> HIDE DEF Sol
    <3> QED
      BY <3>1
  <2> HIDE DEF Of, G
  <2>3. PICK E : Sol(h, E, Of(h))
    BY <2>2
  <2>4. Of(h)[h] = L[h]
    BY <1>1, <2>3, SolvesUnique
  <2>5. M[h] = Of(h)[h]
    BY <2>1
  <2> QED
    BY <2>1, <2>4, <2>5
<1>2. ASSUME NEW h \in G PROVE M[h] = Body(c, f, M, h)
  <2>1. PICK D, L : Sol(h, D, L)
    BY <1>2
  <2>2. L[h] = Body(c, f, L, h)
    BY <2>1, SolvesValue
  <2>3. M[h] = L[h]
    <3> HIDE DEF M, G, Sol
    <3> QED
      BY <1>1, <2>1
  <2>4. ASSUME NEW g \in Handlers, <<h, g>> \in MayContain PROVE L[g] = M[g]
    <3>1. Sol(g, D, L)
      BY <2>1, <2>4 DEF Closed
    <3> HIDE DEF M, G, Sol
    <3> QED
      BY <1>1, <3>1
  <2>5. SameBelow(h, L, M)
    <3> HIDE DEF M
    <3> QED
      BY <2>4 DEF SameBelow
  <2>6. h \in Handlers
    OBVIOUS
  <2> HIDE DEF M, G, Sol
  <2>7. Body(c, f, L, h) = Body(c, f, M, h)
    BY <2>5, <2>6, BodyLocal
  <2> QED
    BY <2>2, <2>3, <2>7
<1>3. Closed(G)
  <2> SUFFICES ASSUME NEW h \in G, NEW g \in Handlers, <<h, g>> \in MayContain PROVE g \in G
    BY DEF Closed
  <2>1. PICK D, L : Sol(h, D, L)
    OBVIOUS
  <2>2. Sol(g, D, L)
    BY <2>1 DEF Closed
  <2> QED
    BY <2>2
<1>4. ASSUME NEW h \in Handlers, h \notin G,
             \A g \in Handlers : g \notin G => <<h, g>> \notin MayContain
      PROVE  FALSE
  <2> DEFINE D == G \cup {h}
  <2> DEFINE L == [g \in D |-> IF g = h THEN Body(c, f, M, h) ELSE M[g]]
  <2>0. G \subseteq Handlers
    OBVIOUS
  <2>1. Closed(D)
    <3> HIDE DEF G
    <3> QED
      BY <1>3, <1>4, <2>0 DEF Closed
  <2>2. \A g \in G : L[g] = M[g]
    <3> HIDE DEF G, M
    <3> QED
      BY <1>4
  <2>3. ASSUME NEW g \in D PROVE L[g] = Body(c, f, L, g)
    <3>1. g \in Handlers
      BY <2>0
    <3>2. SameBelow(g, M, L)
      <4> HIDE DEF G, M, L
      <4> QED
        BY <1>3, <1>4, <2>2, <2>3 DEF SameBelow, Closed
    <3>3. L[g] = Body(c, f, M, g)
      <4>1. CASE g = h
        <5> HIDE DEF G, M
        <5> QED
          BY <4>1
      <4>2. CASE g # h
        <5>1. g \in G
          BY <2>3, <4>2
        <5> HIDE DEF G, M, L
        <5> QED
          BY <1>2, <2>2, <5>1
      <4> QED
        BY <4>1, <4>2
    <3> HIDE DEF G, M, L, D
    <3>4. Body(c, f, M, g) = Body(c, f, L, g)
      BY <3>1, <3>2, BodyLocal
    <3> QED
      BY <3>3, <3>4
  <2>4. L = [g \in D |-> L[g]]
    <3> HIDE DEF D, M
    <3> QED
      OBVIOUS
  <2>5. Solves(c, f, D, L)
    <3> HIDE DEF L, D
    <3> QED
      BY <2>3, <2>4 DEF Solves
  <2>6. Sol(h, D, L)
    <3> HIDE DEF L
    <3> QED
      BY <2>1, <2>5
  <2> HIDE DEF L, D, Sol
  <2>7. h \in G
    BY <1>4, <2>6
  <2> QED
    BY <1>4, <2>7
<1>5. G = Handlers
  <2> DEFINE S == Handlers \ G
  <2>1. ASSUME S # {} PROVE FALSE
    <3> HIDE DEF G
    <3>1. S \subseteq Handlers
      OBVIOUS
    <3>2. PICK h \in S : \A g \in S : <<h, g>> \notin MayContain
      BY <2>1, <3>1, MinimalHandler
    <3> QED
      BY <1>4, <3>2
  <2>2. G \subseteq Handlers
    OBVIOUS
  <2> HIDE DEF G
  <2> QED
    BY <2>1, <2>2
<1>6. M = [h \in G |-> M[h]]
  <2> HIDE DEF G, Of
  <2> QED
    OBVIOUS
<1>7. Solves(c, f, Handlers, M)
  <2> HIDE DEF M, G
  <2> QED
    BY <1>2, <1>5, <1>6 DEF Solves
<1> HIDE DEF M
<1> QED
  BY <1>7

\* LayersIn is it.
LEMMA LayersInIs ==
    ASSUME NEW c, IsChains(c), NEW f
    PROVE  Solves(c, f, Handlers, LayersIn(c, f))
<1>1. LayersIn(c, f) = CHOOSE L : Solves(c, f, Handlers, L)
  BY DEF LayersIn, Solves, Body
<1> QED
  BY <1>1, SolvesExists

\* Layers are middlewares.
LEMMA ExpandedTyped ==
    ASSUME NEW e \in Entries, NEW L, e \in Handlers => L[e] \in Seq(Middlewares)
    PROVE  Expanded(e, L) \in Seq(Middlewares)
BY DEF Expanded, Entries

\* A fallback is a layer, or there is none.
LEMMA LastLayerTyped ==
    ASSUME NEW f, IsFallbacks(f), NEW h \in Handlers
    PROVE  LastLayer(f, h) \in Seq(Middlewares)
BY DEF LastLayer, IsFallbacks

\* So the layers of every handler are a sequence of middlewares.
LEMMA LayersInTyped ==
    ASSUME NEW c, IsChains(c), NEW f, IsFallbacks(f), NEW h \in Handlers
    PROVE  LayersIn(c, f)[h] \in Seq(Middlewares)
<1> DEFINE L == LayersIn(c, f)
<1>0. Solves(c, f, Handlers, L)
  BY LayersInIs
<1> DEFINE S == {g \in Handlers : L[g] \notin Seq(Middlewares)}
<1> HIDE DEF L
<1>1. ASSUME S # {} PROVE FALSE
  <2>0. S \subseteq Handlers
    OBVIOUS
  <2> HIDE DEF S
  <2>1. PICK g \in S : \A k \in S : <<g, k>> \notin MayContain
    BY <1>1, <2>0, MinimalHandler
  <2>2. g \in Handlers /\ L[g] \notin Seq(Middlewares)
    BY <2>0, <2>1 DEF S
  <2> DEFINE s == [i \in 1..Len(c[g]) |-> Expanded(c[g][i], L)]
  <2>3. c[g] \in Seq(Entries) /\ Len(c[g]) \in Nat
    BY <2>2 DEF IsChains
  <2>4. ASSUME NEW i \in 1..Len(c[g]) PROVE Expanded(c[g][i], L) \in Seq(Middlewares)
    <3>1. c[g][i] \in Entries
      BY <2>3
    <3>2. c[g][i] \in Handlers => L[c[g][i]] \in Seq(Middlewares)
      BY <2>1, <2>2 DEF IsChains, S
    <3> QED
      BY <3>1, <3>2, ExpandedTyped
  <2>5. s \in Seq(Seq(Middlewares))
    BY <2>3, <2>4
  <2>6. L[g] = FlattenSeq(s) \o LastLayer(f, g)
    BY <1>0, <2>2, SolvesValue DEF Body
  <2> HIDE DEF s
  <2>7. FlattenSeq(s) \in Seq(Middlewares) /\ LastLayer(f, g) \in Seq(Middlewares)
    BY <2>2, <2>5, FlattenTyped, LastLayerTyped
  <2> QED
    BY <2>2, <2>6, <2>7, ConcatProperties
<1> QED
  BY <1>1 DEF L

-----------------------------------------------------------------------------
(* The layers a next function leads to. *)

\* The positions of a next function are in the chains, or right behind one.
Positions(c) == {p \in Handlers \X Nat : p[2] \in 1..(Len(c[p[1]]) + 1)}

\* An application under construction or in use, and its layers.
IsApplication(c, f) == IsChains(c) /\ IsFallbacks(f)

\* The layers of the entries of h from index i on.
EntriesFrom(c, f, h, i) ==
    [j \in 1..(Len(c[h]) + 1 - i) |-> Expanded(c[h][i + j - 1], LayersIn(c, f))]

\* Chains are sequences of entries.
LEMMA ChainTyped ==
    ASSUME NEW c, NEW f, IsApplication(c, f), NEW h \in Handlers
    PROVE  c[h] \in Seq(Entries) /\ Len(c[h]) \in Nat
BY DEF IsApplication, IsChains

\* An entry stands for layers.
LEMMA EntryTyped ==
    ASSUME NEW c, NEW f, IsApplication(c, f), NEW h \in Handlers, NEW i \in 1..Len(c[h])
    PROVE  Expanded(c[h][i], LayersIn(c, f)) \in Seq(Middlewares)
<1>1. c[h][i] \in Entries
  BY ChainTyped
<1>2. c[h][i] \in Handlers => LayersIn(c, f)[c[h][i]] \in Seq(Middlewares)
  BY LayersInTyped DEF IsApplication
<1> QED
  BY <1>1, <1>2, ExpandedTyped

\* As many of them as there are entries left.
LEMMA EntriesFromTyped ==
    ASSUME NEW c, NEW f, IsApplication(c, f), NEW h \in Handlers,
           NEW i \in Nat, i \in 1..(Len(c[h]) + 1)
    PROVE  /\ EntriesFrom(c, f, h, i) \in Seq(Seq(Middlewares))
           /\ Len(EntriesFrom(c, f, h, i)) = Len(c[h]) + 1 - i
<1> DEFINE n == Len(c[h]) + 1 - i
<1>1. Len(c[h]) \in Nat /\ n \in Nat
  BY ChainTyped
<1>2. ASSUME NEW j \in 1..n PROVE Expanded(c[h][i + j - 1], LayersIn(c, f)) \in Seq(Middlewares)
  <2>1. i + j - 1 \in 1..Len(c[h])
    BY <1>1
  <2> QED
    BY <2>1, EntryTyped
<1> QED
  BY <1>1, <1>2 DEF EntriesFrom

\* The layers from a position on are those of the entries, and the fallback.
LEMMA LayersFromIs ==
    ASSUME NEW c, NEW f, NEW h, NEW i
    PROVE  LayersFrom(c, f, <<h, i>>) = FlattenSeq(EntriesFrom(c, f, h, i)) \o LastLayer(f, h)
BY DEF LayersFrom, EntriesFrom

\* They are middlewares.
LEMMA LayersFromTyped ==
    ASSUME NEW c, NEW f, IsApplication(c, f), NEW p \in Positions(c)
    PROVE  LayersFrom(c, f, p) \in Seq(Middlewares)
<1>1. PICK h \in Handlers, i \in Nat : p = <<h, i>> /\ i \in 1..(Len(c[h]) + 1)
  BY DEF Positions
<1>2. FlattenSeq(EntriesFrom(c, f, h, i)) \in Seq(Middlewares)
  BY <1>1, EntriesFromTyped, FlattenTyped
<1>3. LastLayer(f, h) \in Seq(Middlewares)
  BY <1>1, LastLayerTyped DEF IsApplication
<1>4. FlattenSeq(EntriesFrom(c, f, h, i)) \o LastLayer(f, h) \in Seq(Middlewares)
  BY <1>2, <1>3, ConcatProperties
<1>5. LayersFrom(c, f, <<h, i>>) \in Seq(Middlewares)
  BY <1>4, LayersFromIs
<1> QED
  BY <1>1, <1>5

\* Behind the chain only the fallback is left,
LEMMA LayersFromEnd ==
    ASSUME NEW c, NEW f, IsApplication(c, f), NEW h \in Handlers
    PROVE  LayersFrom(c, f, <<h, Len(c[h]) + 1>>) = LastLayer(f, h)
<1>1. Len(c[h]) \in Nat /\ Len(c[h]) + 1 \in Nat /\ Len(c[h]) + 1 \in 1..(Len(c[h]) + 1)
  BY ChainTyped
<1> DEFINE s == EntriesFrom(c, f, h, Len(c[h]) + 1)
<1>2. s \in Seq(Seq(Middlewares)) /\ Len(s) = Len(c[h]) + 1 - (Len(c[h]) + 1)
  BY <1>1, EntriesFromTyped
<1> HIDE DEF s
<1>3. s = << >>
  BY <1>1, <1>2
<1>4. LayersFrom(c, f, <<h, Len(c[h]) + 1>>) = FlattenSeq(s) \o LastLayer(f, h)
  BY LayersFromIs DEF s
<1>5. LastLayer(f, h) \in Seq(Middlewares)
  BY LastLayerTyped DEF IsApplication
<1> QED
  BY <1>3, <1>4, <1>5, FlattenEmpty, ConcatEmptySeq

\* before it there are the entries one by one,
LEMMA LayersFromEntry ==
    ASSUME NEW c, NEW f, IsApplication(c, f), NEW h \in Handlers, NEW i \in 1..Len(c[h])
    PROVE  LayersFrom(c, f, <<h, i>>)
             = Expanded(c[h][i], LayersIn(c, f)) \o LayersFrom(c, f, <<h, i + 1>>)
<1>0. PICK n \in Nat : n = Len(c[h])
  BY ChainTyped
<1>1. /\ i \in Nat /\ i + 1 \in Nat /\ 1 <= i /\ i <= n
      /\ i \in 1..(Len(c[h]) + 1) /\ i + 1 \in 1..(Len(c[h]) + 1)
  BY <1>0
<1>2. PICK x \in Seq(Middlewares) : x = Expanded(c[h][i], LayersIn(c, f))
  BY EntryTyped
<1>3. PICK s \in Seq(Seq(Middlewares)) : s = EntriesFrom(c, f, h, i)
  BY <1>1, EntriesFromTyped
<1>4. PICK t \in Seq(Seq(Middlewares)) : t = EntriesFrom(c, f, h, i + 1)
  BY <1>1, EntriesFromTyped
<1>5. Len(s) = n + 1 - i /\ Len(t) = n - i
  <2>1. Len(s) = Len(c[h]) + 1 - i
    BY <1>1, <1>3, EntriesFromTyped
  <2>2. Len(t) = Len(c[h]) + 1 - (i + 1)
    BY <1>1, <1>4, EntriesFromTyped
  <2>3. Len(t) = n + 1 - (i + 1)
    BY <1>0, <2>2
  <2>4. Len(s) = n + 1 - i
    BY <1>0, <2>1
  <2>5. n \in Nat /\ i \in Nat
    BY <1>0, <1>1
  <2>6. n + 1 - (i + 1) = n - i
    BY <2>5
  <2> QED
    BY <2>3, <2>4, <2>6
<1>6. s[1] = x
  BY <1>0, <1>1, <1>2, <1>3 DEF EntriesFrom
<1>7. ASSUME NEW j \in 1..(n - i) PROVE s[j + 1] = t[j]
  <2>1. j + 1 \in 1..(n + 1 - i) /\ j \in 1..(n + 1 - (i + 1))
    BY <1>1
  <2>2. i + (j + 1) - 1 = (i + 1) + j - 1
    BY <1>1
  <2>3. s[j + 1] = Expanded(c[h][i + (j + 1) - 1], LayersIn(c, f))
    BY <1>0, <1>3, <2>1 DEF EntriesFrom
  <2>4. t[j] = Expanded(c[h][(i + 1) + j - 1], LayersIn(c, f))
    BY <1>0, <1>4, <2>1 DEF EntriesFrom
  <2> QED
    BY <2>2, <2>3, <2>4
<1>8. s = <<x>> \o t
  <2>0. n - i \in Nat
    BY <1>1
  <2>1. <<x>> \in Seq(Seq(Middlewares)) /\ Len(<<x>>) = 1 /\ <<x>>[1] = x
    BY <1>2
  <2>2. PICK w \in Seq(Seq(Middlewares)) : w = <<x>> \o t
    BY <1>4, <2>1, ConcatProperties
  <2>3. Len(w) = n + 1 - i
    <3>0. Len(w) = Len(<<x>>) + Len(t)
      BY <1>4, <2>1, <2>2, ConcatProperties
    <3>1. Len(w) = 1 + (n - i)
      BY <1>5, <2>1, <3>0
    <3> QED
      BY <1>1, <3>1
  <2>4. \A j \in 1..(1 + (n - i)) : w[j] = IF j <= 1 THEN <<x>>[j] ELSE t[j - 1]
    BY <1>4, <1>5, <2>1, <2>2, ConcatProperties
  <2>5. ASSUME NEW j \in 1..Len(s) PROVE s[j] = w[j]
    <3>1. j \in 1..(1 + (n - i))
      BY <1>1, <1>5
    <3>2. CASE j = 1
      BY <1>6, <2>1, <2>4, <3>1, <3>2
    <3>3. CASE j # 1
      <4>1. j - 1 \in 1..(n - i) /\ (j - 1) + 1 = j /\ ~(j <= 1)
        BY <1>1, <3>1, <3>3
      <4>2. s[j] = t[j - 1]
        BY <1>7, <4>1
      <4>3. w[j] = t[j - 1]
        BY <2>4, <3>1, <4>1
      <4> QED
        BY <4>2, <4>3
    <3> QED
      BY <3>2, <3>3
  <2>6. Len(s) = Len(w)
    BY <1>5, <2>3
  <2>7. s = w
    BY <1>3, <2>2, <2>5, <2>6, SeqEqual
  <2> QED
    BY <2>2, <2>7
<1>9. FlattenSeq(s) = x \o FlattenSeq(t)
  BY <1>2, <1>4, <1>8, FlattenPrepend
<1>10. PICK u \in Seq(Middlewares), v \in Seq(Middlewares) :
          u = FlattenSeq(t) /\ v = LastLayer(f, h)
  BY <1>4, FlattenTyped, LastLayerTyped DEF IsApplication
<1>11. (x \o u) \o v = x \o (u \o v)
  <2>1. x \in Seq(Middlewares) /\ u \in Seq(Middlewares) /\ v \in Seq(Middlewares)
    BY <1>2, <1>10
  <2> QED
    BY <2>1, ConcatAssociative
<1>12. LayersFrom(c, f, <<h, i>>) = FlattenSeq(s) \o LastLayer(f, h)
  BY <1>3, LayersFromIs
<1>13. LayersFrom(c, f, <<h, i + 1>>) = FlattenSeq(t) \o LastLayer(f, h)
  BY <1>4, LayersFromIs
<1> QED
  BY <1>2, <1>9, <1>10, <1>11, <1>12, <1>13

\* and from its start a handler has all its layers.
LEMMA LayersFromStart ==
    ASSUME NEW c, NEW f, IsApplication(c, f), NEW h \in Handlers
    PROVE  LayersFrom(c, f, <<h, 1>>) = LayersIn(c, f)[h]
<1>1. Len(c[h]) \in Nat
  BY ChainTyped
<1>2. EntriesFrom(c, f, h, 1) = [i \in 1..Len(c[h]) |-> Expanded(c[h][i], LayersIn(c, f))]
  <2>1. Len(c[h]) + 1 - 1 = Len(c[h])
    BY <1>1
  <2>2. \A i \in 1..Len(c[h]) : 1 + i - 1 = i
    BY <1>1
  <2> QED
    BY <2>1, <2>2 DEF EntriesFrom
<1>3. Solves(c, f, Handlers, LayersIn(c, f))
  BY LayersInIs DEF IsApplication
<1>4. LayersIn(c, f)[h] = Body(c, f, LayersIn(c, f), h)
  BY <1>3, SolvesValue
<1>5. LayersFrom(c, f, <<h, 1>>) = FlattenSeq(EntriesFrom(c, f, h, 1)) \o LastLayer(f, h)
  BY LayersFromIs
<1>6. LayersIn(c, f)[h] = FlattenSeq([i \in 1..Len(c[h]) |-> Expanded(c[h][i], LayersIn(c, f))])
                            \o LastLayer(f, h)
  BY <1>4 DEF Body
<1> QED
  BY <1>2, <1>5, <1>6

\* The layers of a next function, position by position.
FromEach(c, f, k) == [j \in 1..Len(k) |-> LayersFrom(c, f, k[j])]

\* Each position leads to a sequence of layers.
LEMMA FromEachTyped ==
    ASSUME NEW c, NEW f, IsApplication(c, f), NEW k \in Seq(Positions(c))
    PROVE  FromEach(c, f, k) \in Seq(Seq(Middlewares)) /\ Len(FromEach(c, f, k)) = Len(k)
<1>1. Len(k) \in Nat
  BY LenProperties
<1>2. \A j \in 1..Len(k) : LayersFrom(c, f, k[j]) \in Seq(Middlewares)
  <2>1. \A j \in 1..Len(k) : k[j] \in Positions(c)
    BY ElementOfSeq
  <2> QED
    BY <2>1, LayersFromTyped
<1> QED
  BY <1>1, <1>2 DEF FromEach

\* What is ahead is a sequence of layers:
LEMMA AheadTyped ==
    ASSUME NEW c, NEW f, IsApplication(c, f), NEW k \in Seq(Positions(c))
    PROVE  LayersAhead(c, f, k) \in Seq(Middlewares)
<1>1. LayersAhead(c, f, k) = FlattenSeq(FromEach(c, f, k))
  BY DEF LayersAhead, FromEach
<1> QED
  BY <1>1, FromEachTyped, FlattenTyped

\* none without a next function,
LEMMA AheadEmpty ==
    ASSUME NEW c, NEW f
    PROVE  LayersAhead(c, f, << >>) = << >>
<1>1. FromEach(c, f, << >>) = << >>
  BY DEF FromEach
<1>2. LayersAhead(c, f, << >>) = FlattenSeq(FromEach(c, f, << >>))
  BY DEF LayersAhead, FromEach
<1> QED
  BY <1>1, <1>2, FlattenEmpty

\* otherwise those of its first position, and then those of its tail.
LEMMA AheadFirst ==
    ASSUME NEW c, NEW f, IsApplication(c, f), NEW p \in Positions(c), NEW k \in Seq(Positions(c))
    PROVE  LayersAhead(c, f, <<p>> \o k) = LayersFrom(c, f, p) \o LayersAhead(c, f, k)
<1> DEFINE x == LayersFrom(c, f, p)
<1> DEFINE s == FromEach(c, f, <<p>> \o k)
<1> DEFINE t == FromEach(c, f, k)
<1>0. <<p>> \in Seq(Positions(c)) /\ Len(<<p>>) = 1 /\ Len(k) \in Nat
  OBVIOUS
<1>1. <<p>> \o k \in Seq(Positions(c)) /\ Len(<<p>> \o k) = Len(k) + 1
  BY <1>0, ConcatProperties
<1>2. /\ s \in Seq(Seq(Middlewares)) /\ Len(s) = Len(k) + 1
      /\ t \in Seq(Seq(Middlewares)) /\ Len(t) = Len(k)
  BY <1>1, FromEachTyped
<1>3. x \in Seq(Middlewares)
  BY LayersFromTyped
<1>4. ASSUME NEW j \in 1..Len(s) PROVE s[j] = (<<x>> \o t)[j]
  <2>1. j \in 1..Len(<<p>> \o k)
    BY <1>1, <1>2
  <2>2. s[j] = LayersFrom(c, f, (<<p>> \o k)[j])
    BY <2>1 DEF FromEach
  <2>3. CASE j = 1
    <3>1. (<<p>> \o k)[j] = p
      BY <1>0, <1>1, <2>1, <2>3
    <3> HIDE DEF s, t, x
    <3>2. (<<x>> \o t)[j] = x
      BY <1>0, <1>2, <1>3, <2>3
    <3> QED
      BY <2>2, <3>1, <3>2 DEF x
  <2>4. CASE j # 1
    <3>1. j - 1 \in 1..Len(k) /\ (<<p>> \o k)[j] = k[j - 1]
      BY <1>0, <1>1, <2>1, <2>4
    <3>2. t[j - 1] = LayersFrom(c, f, k[j - 1])
      BY <3>1 DEF FromEach
    <3> HIDE DEF s, t, x
    <3>3. (<<x>> \o t)[j] = t[j - 1]
      BY <1>0, <1>2, <1>3, <2>4, <3>1
    <3> QED
      BY <2>2, <3>1, <3>2, <3>3
  <2> QED
    BY <2>3, <2>4
<1>5. LayersAhead(c, f, <<p>> \o k) = FlattenSeq(s) /\ LayersAhead(c, f, k) = FlattenSeq(t)
  BY DEF LayersAhead, FromEach
<1> HIDE DEF s, t, x
<1>6. s = <<x>> \o t
  <2>1. <<x>> \in Seq(Seq(Middlewares)) /\ Len(<<x>>) = 1
    BY <1>3
  <2>2. <<x>> \o t \in Seq(Seq(Middlewares)) /\ Len(<<x>> \o t) = Len(s)
    BY <1>0, <1>2, <2>1, ConcatProperties
  <2> QED
    BY <1>2, <1>4, <2>2, SeqEqual
<1>7. FlattenSeq(s) = x \o FlattenSeq(t)
  BY <1>2, <1>3, <1>6, FlattenPrepend
<1> QED
  BY <1>5, <1>7 DEF x

-----------------------------------------------------------------------------
(* dispatch(), on the layers that are ahead. *)

\* What dispatch() makes of a next function is one again: the rest of the chain,
LEMMA RestTyped ==
    ASSUME NEW c, NEW f, IsApplication(c, f), NEW h \in Handlers, NEW i \in 1..Len(c[h]),
           NEW k \in Seq(Positions(c))
    PROVE  Rest(h, i, k) \in Seq(Positions(c))
<1>1. Len(c[h]) \in Nat /\ i + 1 \in Nat
  BY ChainTyped
<1>2. <<h, i + 1>> \in Positions(c)
  BY <1>1 DEF Positions
<1> QED
  BY <1>2, ConcatProperties DEF Rest

\* and a composed handler with the rest behind it.
LEMMA ComposedTyped ==
    ASSUME NEW c, NEW f, IsApplication(c, f), NEW g \in Handlers, NEW k \in Seq(Positions(c))
    PROVE  Composed(g, k) \in Seq(Positions(c))
<1>1. Len(c[g]) \in Nat
  BY ChainTyped
<1>2. <<g, 1>> \in Positions(c)
  BY <1>1 DEF Positions
<1> QED
  BY <1>2, ConcatProperties DEF Composed

\* The chain is exhausted.
LEMMA AheadAtEnd ==
    ASSUME NEW c, NEW f, IsApplication(c, f), NEW h \in Handlers, NEW i \in Nat,
           <<h, i>> \in Positions(c), i > Len(c[h]), NEW k \in Seq(Positions(c))
    PROVE  LayersAhead(c, f, << <<h, i>> >> \o k) = LastLayer(f, h) \o LayersAhead(c, f, k)
<1>1. i = Len(c[h]) + 1
  BY ChainTyped DEF Positions
<1>2. LayersFrom(c, f, <<h, i>>) = LastLayer(f, h)
  BY <1>1, LayersFromEnd
<1> QED
  BY <1>2, AheadFirst

\* An entry, with the rest of the chain behind it.
EntryThenRest(c, f, h, i, k) ==
    LayersAhead(c, f, << <<h, i>> >> \o k)
        = Expanded(c[h][i], LayersIn(c, f)) \o LayersAhead(c, f, Rest(h, i, k))

\* So it is at every entry.
LEMMA AheadAtEntry ==
    ASSUME NEW c, NEW f, IsApplication(c, f), NEW h \in Handlers, NEW i \in 1..Len(c[h]),
           NEW k \in Seq(Positions(c))
    PROVE  EntryThenRest(c, f, h, i, k)
<1>0. Len(c[h]) \in Nat /\ i \in Nat /\ i + 1 \in Nat
  BY ChainTyped
<1>1. <<h, i>> \in Positions(c) /\ <<h, i + 1>> \in Positions(c)
  BY <1>0 DEF Positions
<1>2. LayersAhead(c, f, << <<h, i>> >> \o k) = LayersFrom(c, f, <<h, i>>) \o LayersAhead(c, f, k)
  BY <1>1, AheadFirst
<1>3. LayersAhead(c, f, Rest(h, i, k)) = LayersFrom(c, f, <<h, i + 1>>) \o LayersAhead(c, f, k)
  BY <1>1, AheadFirst DEF Rest
<1>4. LayersFrom(c, f, <<h, i>>)
        = Expanded(c[h][i], LayersIn(c, f)) \o LayersFrom(c, f, <<h, i + 1>>)
  BY LayersFromEntry
<1>5. PICK x \in Seq(Middlewares), u \in Seq(Middlewares), v \in Seq(Middlewares) :
         /\ x = Expanded(c[h][i], LayersIn(c, f))
         /\ u = LayersFrom(c, f, <<h, i + 1>>)
         /\ v = LayersAhead(c, f, k)
  <2>1. Expanded(c[h][i], LayersIn(c, f)) \in Seq(Middlewares)
    BY EntryTyped
  <2>2. LayersFrom(c, f, <<h, i + 1>>) \in Seq(Middlewares)
    BY <1>1, LayersFromTyped
  <2>3. LayersAhead(c, f, k) \in Seq(Middlewares)
    BY AheadTyped
  <2> QED
    BY <2>1, <2>2, <2>3
<1>6. (x \o u) \o v = x \o (u \o v)
  <2>1. x \in Seq(Middlewares) /\ u \in Seq(Middlewares) /\ v \in Seq(Middlewares)
    BY <1>5
  <2> QED
    BY <2>1, ConcatAssociative
<1> QED
  BY <1>2, <1>3, <1>4, <1>5, <1>6 DEF EntryThenRest

\* A composed handler, with the rest as its tail.
LEMMA AheadComposed ==
    ASSUME NEW c, NEW f, IsApplication(c, f), NEW g \in Handlers, NEW k \in Seq(Positions(c))
    PROVE  LayersAhead(c, f, Composed(g, k)) = LayersIn(c, f)[g] \o LayersAhead(c, f, k)
<1>1. Len(c[g]) \in Nat
  BY ChainTyped
<1>2. <<g, 1>> \in Positions(c)
  BY <1>1 DEF Positions
<1>3. LayersAhead(c, f, Composed(g, k)) = LayersFrom(c, f, <<g, 1>>) \o LayersAhead(c, f, k)
  BY <1>2, AheadFirst DEF Composed
<1> QED
  BY <1>3, LayersFromStart

-----------------------------------------------------------------------------
(* One request. *)

Modes == {"idle", "down", "at", "up", "fail", "done"}

\* The stack of a request, and the middlewares on it.
Frames(c) == [mw : Middlewares, next : Seq(Positions(c)), calls : Nat]

PassedBy(s) == [j \in 1..Len(s) |-> s[j].mw]

AllLayers(c, f) == LayersIn(c, f)[Root]

\* What is ahead of each middleware on the stack follows those up to it.
Fits(c, f, s) ==
    \A j \in 1..Len(s) :
        SubSeq(PassedBy(s), 1, j) \o LayersAhead(c, f, s[j].next) = AllLayers(c, f)

\* A request whose stack is s, whose mode is m, and which calls k.
InOrder(c, f, s, m, k) ==
    /\ s \in Seq(Frames(c)) /\ m \in Modes /\ k \in Seq(Positions(c))
    /\ m \in {"idle", "done"} => s = << >>
    /\ m = "at" => s # << >>
    /\ m # "down" => k = << >>
    /\ Fits(c, f, s)
    /\ m = "down" => PassedBy(s) \o LayersAhead(c, f, k) = AllLayers(c, f)

\* A request of Onion with the layers l, from within the layers p and mode m to
\* within q and mode n: its actions, or nothing.
Moves(l, p, m, q, n) ==
    \/ q = p /\ n = m
    \/ m = "idle" /\ n = "down" /\ q = p
    \/ m = "down" /\ n = "at" /\ Len(p) < Len(l) /\ q = Append(p, l[Len(p) + 1])
    \/ m = "down" /\ n = "up" /\ Len(p) = Len(l) /\ q = p
    \/ m = "at" /\ n = "down" /\ q = p
    \/ m = "at" /\ n \in {"up", "fail"} /\ q = SubSeq(p, 1, Len(p) - 1)
    \/ m \in {"up", "fail"} /\ n = "at" /\ p # << >> /\ q = p
    \/ m = "fail" /\ n = "fail" /\ p # << >> /\ q = SubSeq(p, 1, Len(p) - 1)
    \/ m \in {"up", "fail"} /\ n = "done" /\ p = << >> /\ q = p

\* A step of one request keeps it in order and is a step of Onion, or none.
Advances(c, f, s, m, s2, m2, k2) ==
    /\ InOrder(c, f, s2, m2, k2)
    /\ Moves(AllLayers(c, f), PassedBy(s), m, PassedBy(s2), m2)

\* The layers of the application are middlewares.
LEMMA AllLayersTyped ==
    ASSUME NEW c, NEW f, IsApplication(c, f)
    PROVE  AllLayers(c, f) \in Seq(Middlewares)
BY LayersInTyped, HandlersAssumption DEF AllLayers, IsApplication

\* So are those a request has passed, as many as it has frames.
LEMMA PassedByTyped ==
    ASSUME NEW c, NEW s \in Seq(Frames(c))
    PROVE  /\ PassedBy(s) \in Seq(Middlewares)
           /\ Len(PassedBy(s)) = Len(s)
           /\ s = << >> <=> PassedBy(s) = << >>
<1>1. Len(s) \in Nat
  BY LenProperties
<1>2. \A j \in 1..Len(s) : s[j].mw \in Middlewares
  <2>1. \A j \in 1..Len(s) : s[j] \in Frames(c)
    BY ElementOfSeq
  <2> QED
    BY <2>1 DEF Frames
<1>3. PassedBy(s) \in Seq(Middlewares) /\ Len(PassedBy(s)) = Len(s)
  BY <1>1, <1>2 DEF PassedBy
<1>4. s = << >> <=> Len(s) = 0
  BY EmptySeq
<1>5. PassedBy(s) = << >> <=> Len(PassedBy(s)) = 0
  BY <1>3, EmptySeq
<1> QED
  BY <1>3, <1>4, <1>5

\* Before the first layer nothing has to fit.
LEMMA FitsEmpty ==
    ASSUME NEW c, NEW f
    PROVE  Fits(c, f, << >>) /\ PassedBy(<< >>) = << >>
BY DEF Fits, PassedBy

\* A middleware is entered.
LEMMA PassedByAppend ==
    ASSUME NEW c, NEW s \in Seq(Frames(c)), NEW x \in Frames(c)
    PROVE  PassedBy(Append(s, x)) = Append(PassedBy(s), x.mw)
<1>1. PICK n \in Nat : n = Len(s)
  BY LenProperties
<1>2. PICK p \in Seq(Middlewares) : p = PassedBy(s) /\ Len(p) = n
  BY <1>1, PassedByTyped
<1>3. x.mw \in Middlewares
  BY DEF Frames
<1>4. PICK t \in Seq(Frames(c)) :
         /\ t = Append(s, x) /\ Len(t) = n + 1 /\ t[n + 1] = x
         /\ \A j \in 1..n : t[j] = s[j]
  <2>1. /\ Append(s, x) \in Seq(Frames(c))
        /\ Len(Append(s, x)) = Len(s) + 1
        /\ \A j \in 1..Len(s) : Append(s, x)[j] = s[j]
        /\ Append(s, x)[Len(s) + 1] = x
    BY AppendProperties
  <2> QED
    BY <1>1, <2>1
<1>5. PICK q \in Seq(Middlewares) : q = PassedBy(t) /\ Len(q) = n + 1
  BY <1>4, PassedByTyped
<1>6. PICK u \in Seq(Middlewares) :
         /\ u = Append(p, x.mw) /\ Len(u) = n + 1 /\ u[n + 1] = x.mw
         /\ \A j \in 1..n : u[j] = p[j]
  <2>1. /\ Append(p, x.mw) \in Seq(Middlewares)
        /\ Len(Append(p, x.mw)) = Len(p) + 1
        /\ \A j \in 1..Len(p) : Append(p, x.mw)[j] = p[j]
        /\ Append(p, x.mw)[Len(p) + 1] = x.mw
    BY <1>2, <1>3, AppendProperties
  <2> QED
    BY <1>2, <2>1
<1>7. ASSUME NEW j \in 1..(n + 1) PROVE q[j] = u[j]
  <2>1. q[j] = t[j].mw
    BY <1>4, <1>5 DEF PassedBy
  <2>2. CASE j = n + 1
    BY <1>4, <1>6, <2>1, <2>2
  <2>3. CASE j # n + 1
    <3>1. j \in 1..n
      BY <1>1, <2>3
    <3>2. p[j] = s[j].mw
      BY <1>1, <1>2, <3>1 DEF PassedBy
    <3> QED
      BY <1>4, <1>6, <2>1, <3>1, <3>2
  <2> QED
    BY <2>2, <2>3
<1>8. q = u
  BY <1>5, <1>6, <1>7, SeqEqual
<1> QED
  BY <1>2, <1>4, <1>5, <1>6, <1>8

\* The new middleware fits if the layers ahead of it are the rest of all.
LEMMA FitsAppend ==
    ASSUME NEW c, NEW f, NEW s \in Seq(Frames(c)), NEW x \in Frames(c), Fits(c, f, s),
           Append(PassedBy(s), x.mw) \o LayersAhead(c, f, x.next) = AllLayers(c, f)
    PROVE  Fits(c, f, Append(s, x))
<1>1. PICK n \in Nat : n = Len(s)
  BY LenProperties
<1>2. PICK p \in Seq(Middlewares) : p = PassedBy(s) /\ Len(p) = n
  BY <1>1, PassedByTyped
<1>3. x.mw \in Middlewares
  BY DEF Frames
<1>4. PICK t \in Seq(Frames(c)) :
         /\ t = Append(s, x) /\ Len(t) = n + 1 /\ t[n + 1] = x
         /\ \A j \in 1..n : t[j] = s[j]
  <2>1. /\ Append(s, x) \in Seq(Frames(c))
        /\ Len(Append(s, x)) = Len(s) + 1
        /\ \A j \in 1..Len(s) : Append(s, x)[j] = s[j]
        /\ Append(s, x)[Len(s) + 1] = x
    BY AppendProperties
  <2> QED
    BY <1>1, <2>1
<1>5. PICK q \in Seq(Middlewares) :
         /\ q = PassedBy(t) /\ q = Append(p, x.mw) /\ Len(q) = n + 1
         /\ \A j \in 1..n : q[j] = p[j]
  <2>1. PICK u \in Seq(Middlewares) :
           /\ u = Append(p, x.mw) /\ Len(u) = n + 1
           /\ \A j \in 1..n : u[j] = p[j]
    <3>1. /\ Append(p, x.mw) \in Seq(Middlewares)
          /\ Len(Append(p, x.mw)) = Len(p) + 1
          /\ \A j \in 1..Len(p) : Append(p, x.mw)[j] = p[j]
          /\ Append(p, x.mw)[Len(p) + 1] = x.mw
      BY <1>2, <1>3, AppendProperties
    <3> QED
      BY <1>2, <3>1
  <2>2. PassedBy(t) = u
    BY <1>2, <1>4, <2>1, PassedByAppend
  <2> QED
    BY <2>1, <2>2
<1>6. ASSUME NEW j \in 1..(n + 1)
      PROVE  SubSeq(q, 1, j) \o LayersAhead(c, f, t[j].next) = AllLayers(c, f)
  <2>1. CASE j = n + 1
    <3>1. SubSeq(q, 1, j) = q
      BY <1>5, <2>1, SubSeqFull
    <3> QED
      BY <1>2, <1>4, <1>5, <2>1, <3>1
  <2>2. CASE j # n + 1
    <3>1. j \in 1..n
      <4>1. n \in Nat /\ j \in 1..(n + 1)
        BY <1>1, <1>6
      <4> QED
        BY <2>2, <4>1
    <3>2. SubSeq(q, 1, j) = SubSeq(p, 1, j)
      <4>1. \A i \in 1..j : q[i] = p[i] /\ p[i] \in Middlewares
        <5>1. \A i \in 1..j : i \in 1..n
          BY <3>1
        <5> QED
          BY <1>2, <1>5, <5>1, ElementOfSeq
      <4>2. PICK u \in Seq(Middlewares) :
               /\ u = SubSeq(q, 1, j) /\ Len(u) = j
               /\ \A i \in 1..j : u[i] = q[i]
        <5>1. /\ SubSeq(q, 1, j) \in Seq(Middlewares)
              /\ Len(SubSeq(q, 1, j)) = IF 1 <= j THEN j - 1 + 1 ELSE 0
              /\ \A i \in 1..(j - 1 + 1) : SubSeq(q, 1, j)[i] = q[1 + i - 1]
          BY <3>1, <4>1, SubSeqProperties
        <5>2. 1 <= j /\ j - 1 + 1 = j /\ \A i \in 1..j : 1 + i - 1 = i
          BY <3>1
        <5> QED
          BY <5>1, <5>2
      <4>3. PICK v \in Seq(Middlewares) :
               /\ v = SubSeq(p, 1, j) /\ Len(v) = j
               /\ \A i \in 1..j : v[i] = p[i]
        <5>1. /\ SubSeq(p, 1, j) \in Seq(Middlewares)
              /\ Len(SubSeq(p, 1, j)) = IF 1 <= j THEN j - 1 + 1 ELSE 0
              /\ \A i \in 1..(j - 1 + 1) : SubSeq(p, 1, j)[i] = p[1 + i - 1]
          BY <3>1, <4>1, SubSeqProperties
        <5>2. 1 <= j /\ j - 1 + 1 = j /\ \A i \in 1..j : 1 + i - 1 = i
          BY <3>1
        <5> QED
          BY <5>1, <5>2
      <4>4. u = v
        BY <4>1, <4>2, <4>3, SeqEqual
      <4> QED
        BY <4>2, <4>3, <4>4
    <3>3. SubSeq(p, 1, j) \o LayersAhead(c, f, s[j].next) = AllLayers(c, f)
      BY <1>1, <1>2, <3>1 DEF Fits
    <3> QED
      BY <1>4, <3>1, <3>2, <3>3
  <2> QED
    BY <2>1, <2>2
<1>7. Fits(c, f, t)
  BY <1>4, <1>5, <1>6 DEF Fits
<1> QED
  BY <1>4, <1>7

\* The innermost one is left.
LEMMA FrontIs ==
    ASSUME NEW S, NEW s \in Seq(S), s # << >>
    PROVE  \E n \in Nat :
              /\ Len(s) = n + 1 /\ Front(s) \in Seq(S) /\ Len(Front(s)) = n
              /\ \A j \in 1..n : Front(s)[j] = s[j]
              /\ Front(s) = SubSeq(s, 1, n) /\ Last(s) = s[n + 1]
<1>1. PICK n \in Nat : n = Len(s) - 1
  <2>1. Len(s) \in Nat \ {0}
    BY EmptySeq
  <2>2. Len(s) - 1 \in Nat
    BY <2>1
  <2> QED
    BY <2>2
<1>2. Len(s) \in Nat /\ Len(s) = n + 1
  BY <1>1, LenProperties
<1>3. Front(s) = SubSeq(s, 1, n) /\ Last(s) = s[n + 1]
  BY <1>1, <1>2 DEF Front, Last
<1>4. \A i \in 1..n : s[i] \in S
  <2>1. \A i \in 1..n : i \in 1..Len(s)
    BY <1>2
  <2> QED
    BY <2>1, ElementOfSeq
<1>5. /\ SubSeq(s, 1, n) \in Seq(S)
      /\ Len(SubSeq(s, 1, n)) = IF 1 <= n THEN n - 1 + 1 ELSE 0
      /\ \A i \in 1..(n - 1 + 1) : SubSeq(s, 1, n)[i] = s[1 + i - 1]
  BY <1>4, SubSeqProperties
<1>6. n - 1 + 1 = n /\ (\A i \in 1..n : 1 + i - 1 = i) /\ (~(1 <= n) => n = 0)
  BY <1>1
<1> QED
  BY <1>2, <1>3, <1>5, <1>6

\* What is left of the stack fits as it did, and the innermost one did.
LEMMA PassedByFront ==
    ASSUME NEW c, NEW f, NEW s \in Seq(Frames(c)), s # << >>, Fits(c, f, s)
    PROVE  /\ Front(s) \in Seq(Frames(c))
           /\ PassedBy(Front(s)) = SubSeq(PassedBy(s), 1, Len(PassedBy(s)) - 1)
           /\ Fits(c, f, Front(s))
           /\ Last(s) \in Frames(c)
           /\ PassedBy(s) \o LayersAhead(c, f, Last(s).next) = AllLayers(c, f)
<1>1. PICK n \in Nat :
         /\ Len(s) = n + 1 /\ Front(s) \in Seq(Frames(c)) /\ Len(Front(s)) = n
         /\ \A j \in 1..n : Front(s)[j] = s[j]
         /\ Last(s) = s[n + 1]
  BY FrontIs
<1>2. PICK t \in Seq(Frames(c)) : t = Front(s) /\ Len(t) = n /\ \A j \in 1..n : t[j] = s[j]
  BY <1>1
<1>3. PICK p \in Seq(Middlewares) : p = PassedBy(s) /\ Len(p) = n + 1
  BY <1>1, PassedByTyped
<1>4. p # << >>
  BY <1>3, EmptySeq
<1>5. PICK q \in Seq(Middlewares) :
         /\ q = SubSeq(p, 1, n) /\ Len(q) = n /\ \A j \in 1..n : q[j] = p[j]
  <2>1. PICK m \in Nat :
           /\ Len(p) = m + 1 /\ Front(p) \in Seq(Middlewares) /\ Len(Front(p)) = m
           /\ \A j \in 1..m : Front(p)[j] = p[j]
           /\ Front(p) = SubSeq(p, 1, m)
    BY <1>3, <1>4, FrontIs
  <2>2. m = n
    BY <1>3, <2>1
  <2> QED
    BY <2>1, <2>2
<1>6. PassedBy(t) = q
  <2>1. PICK u \in Seq(Middlewares) : u = PassedBy(t) /\ Len(u) = n
    BY <1>2, PassedByTyped
  <2>2. ASSUME NEW j \in 1..n PROVE u[j] = q[j]
    <3>1. j \in 1..(n + 1)
      OBVIOUS
    <3>2. u[j] = t[j].mw
      BY <1>2, <2>1 DEF PassedBy
    <3>3. p[j] = s[j].mw
      BY <1>1, <1>3, <3>1 DEF PassedBy
    <3> QED
      BY <1>2, <1>5, <3>2, <3>3
  <2>3. u = q
    BY <1>5, <2>1, <2>2, SeqEqual
  <2> QED
    BY <2>1, <2>3
<1>7. ASSUME NEW j \in 1..n
      PROVE  SubSeq(q, 1, j) \o LayersAhead(c, f, t[j].next) = AllLayers(c, f)
  <2>1. j \in 1..(n + 1)
    OBVIOUS
  <2>2. SubSeq(q, 1, j) = SubSeq(p, 1, j)
    <3>1. 1 \in 1..Len(p) /\ n \in 1..Len(p) /\ 1 \in 1..(n - 1 + 1) /\ j \in 1..(n - 1 + 1)
      BY <1>3
    <3>2. SubSeq(SubSeq(p, 1, n), 1, j) = SubSeq(p, 1 + 1 - 1, 1 + j - 1)
      BY <1>3, <3>1, SubSeqOfSubSeq
    <3>3. 1 + 1 - 1 = 1 /\ 1 + j - 1 = j
      OBVIOUS
    <3> QED
      BY <1>5, <3>2, <3>3
  <2>3. SubSeq(p, 1, j) \o LayersAhead(c, f, s[j].next) = AllLayers(c, f)
    BY <1>1, <1>3, <2>1 DEF Fits
  <2> QED
    BY <1>2, <2>2, <2>3
<1>8. Fits(c, f, t)
  BY <1>2, <1>6, <1>7 DEF Fits
<1>9. s[n + 1] \in Frames(c)
  <2>1. n + 1 \in 1..Len(s)
    BY <1>1
  <2> QED
    BY <2>1, ElementOfSeq
<1>10. p \o LayersAhead(c, f, s[n + 1].next) = AllLayers(c, f)
  <2>1. n + 1 \in 1..Len(s)
    BY <1>1
  <2>2. SubSeq(p, 1, n + 1) = p
    BY <1>3, SubSeqFull
  <2> QED
    BY <1>3, <2>1, <2>2 DEF Fits
<1>11. Len(p) - 1 = n
  BY <1>3
<1> QED
  BY <1>1, <1>2, <1>3, <1>5, <1>6, <1>8, <1>9, <1>10, <1>11

\* Its awaits are counted.
LEMMA CountedFits ==
    ASSUME NEW c, NEW f, NEW s \in Seq(Frames(c)), s # << >>, Fits(c, f, s)
    PROVE  /\ [s EXCEPT ![Len(s)].calls = @ + 1] \in Seq(Frames(c))
           /\ [s EXCEPT ![Len(s)].calls = @ + 1] # << >>
           /\ PassedBy([s EXCEPT ![Len(s)].calls = @ + 1]) = PassedBy(s)
           /\ Fits(c, f, [s EXCEPT ![Len(s)].calls = @ + 1])
<1>1. PICK n \in Nat : n = Len(s) /\ n \in 1..Len(s)
  <2>1. Len(s) \in Nat \ {0}
    BY EmptySeq
  <2> QED
    BY <2>1
<1>2. PICK x \in Frames(c) : x = s[n]
  BY <1>1, ElementOfSeq
<1>3. PICK y \in Frames(c) : y = [x EXCEPT !.calls = @ + 1] /\ y.mw = x.mw /\ y.next = x.next
  <2>1. x \in [mw : Middlewares, next : Seq(Positions(c)), calls : Nat]
    BY <1>2 DEF Frames
  <2>2. x.calls + 1 \in Nat
    BY <2>1
  <2>3. [x EXCEPT !.calls = @ + 1] \in Frames(c)
    BY <2>1, <2>2 DEF Frames
  <2> QED
    BY <2>1, <2>3
<1>4. PICK t \in Seq(Frames(c)) :
         /\ t = [s EXCEPT ![n] = y] /\ Len(t) = n
         /\ \A j \in 1..n : t[j] = IF j = n THEN y ELSE s[j]
  <2>1. /\ [s EXCEPT ![n] = y] \in Seq(Frames(c))
        /\ Len([s EXCEPT ![n] = y]) = Len(s)
        /\ \A j \in 1..Len(s) : [s EXCEPT ![n] = y][j] = IF j = n THEN y ELSE s[j]
    BY <1>1, <1>3, ExceptSeq
  <2> QED
    BY <1>1, <2>1
<1>5. [s EXCEPT ![Len(s)].calls = @ + 1] = t
  <2>1. s \in [1..n -> Frames(c)]
    BY <1>1, LenProperties
  <2> QED
    BY <1>1, <1>2, <1>3, <1>4, <2>1
<1>6. t # << >>
  BY <1>1, <1>4, EmptySeq
<1>7. \A j \in 1..n : t[j].mw = s[j].mw /\ t[j].next = s[j].next
  BY <1>2, <1>3, <1>4
<1>8. PassedBy(t) = PassedBy(s)
  BY <1>1, <1>4, <1>7 DEF PassedBy
<1>9. Fits(c, f, t)
  BY <1>1, <1>4, <1>7, <1>8 DEF Fits
<1> QED
  BY <1>4, <1>5, <1>6, <1>8, <1>9

-----------------------------------------------------------------------------
(* What the steps do to one request. *)

\* The chain goes on without a middleware: the next function that is called now
\* leads to the same layers.
LEMMA CallAdvances ==
    ASSUME NEW c, NEW f, IsApplication(c, f), NEW s, NEW k, InOrder(c, f, s, "down", k),
           NEW l \in Seq(Positions(c)), LayersAhead(c, f, l) = LayersAhead(c, f, k)
    PROVE  Advances(c, f, s, "down", s, "down", l)
BY DEF Advances, InOrder, Moves, Modes

\* A middleware is entered: it is the first of the layers ahead.
LEMMA EnterAdvances ==
    ASSUME NEW c, NEW f, IsApplication(c, f), NEW s, NEW k, InOrder(c, f, s, "down", k),
           NEW m \in Middlewares, NEW l \in Seq(Positions(c)),
           LayersAhead(c, f, k) = <<m>> \o LayersAhead(c, f, l)
    PROVE  Advances(c, f, s, "down", Append(s, [mw |-> m, next |-> l, calls |-> 0]), "at", NoNext)
<1>1. s \in Seq(Frames(c)) /\ Fits(c, f, s)
  BY DEF InOrder
<1>2. PICK x \in Frames(c) : /\ x = [mw |-> m, next |-> l, calls |-> 0]
                             /\ x.mw = m /\ x.next = l
  <2>1. [mw |-> m, next |-> l, calls |-> 0] \in Frames(c)
    BY DEF Frames
  <2> QED
    BY <2>1
<1>3. PICK p \in Seq(Middlewares) : p = PassedBy(s)
  BY <1>1, PassedByTyped
<1>4. PICK a \in Seq(Middlewares) : a = LayersAhead(c, f, l)
  BY AheadTyped
<1>5. PICK t \in Seq(Frames(c)) : t = Append(s, x) /\ t # << >>
  BY <1>1, AppendProperties
<1>6. AllLayers(c, f) = p \o (<<m>> \o a)
  BY <1>3, <1>4 DEF InOrder
<1>7. AllLayers(c, f) = Append(p, m) \o a
  <2>1. <<m>> \in Seq(Middlewares)
    OBVIOUS
  <2>2. p \in Seq(Middlewares) /\ a \in Seq(Middlewares)
    BY <1>3, <1>4
  <2>3. (p \o <<m>>) \o a = p \o (<<m>> \o a)
    BY <2>1, <2>2, ConcatAssociative
  <2>4. Append(p, m) = p \o <<m>>
    BY <2>2, AppendIsConcat
  <2> QED
    BY <1>6, <2>3, <2>4
<1>8. PassedBy(t) = Append(p, m)
  BY <1>1, <1>2, <1>3, <1>5, PassedByAppend
<1>9. Fits(c, f, t)
  BY <1>1, <1>2, <1>3, <1>4, <1>5, <1>7, FitsAppend
<1>10. Len(p) < Len(AllLayers(c, f)) /\ AllLayers(c, f)[Len(p) + 1] = m
  <2>1. PICK n \in Nat : n = Len(p)
    BY <1>3, LenProperties
  <2>2. PICK u \in Seq(Middlewares) : u = Append(p, m) /\ Len(u) = n + 1 /\ u[n + 1] = m
    <3>1. /\ Append(p, m) \in Seq(Middlewares)
          /\ Len(Append(p, m)) = Len(p) + 1
          /\ Append(p, m)[Len(p) + 1] = m
      BY <1>3, AppendProperties
    <3> QED
      BY <2>1, <3>1
  <2>3. PICK j \in Nat : j = Len(a)
    BY <1>4, LenProperties
  <2>4. /\ Len(u \o a) = Len(u) + Len(a)
        /\ \A i \in 1..(Len(u) + Len(a)) : (u \o a)[i] = IF i <= Len(u) THEN u[i] ELSE a[i - Len(u)]
    BY <1>4, <2>2, ConcatProperties
  <2>5. Len(u \o a) = (n + 1) + j
    BY <2>2, <2>3, <2>4
  <2>6. n + 1 \in 1..((n + 1) + j) /\ n + 1 <= n + 1 /\ n < (n + 1) + j
    BY <2>1, <2>3
  <2>7. (u \o a)[n + 1] = m
    BY <2>2, <2>3, <2>4, <2>6
  <2> QED
    BY <1>7, <2>1, <2>2, <2>5, <2>6, <2>7
<1>11. InOrder(c, f, t, "at", NoNext)
  BY <1>5, <1>9, EmptySeq DEF InOrder, Modes, NoNext
<1>12. Moves(AllLayers(c, f), PassedBy(s), "down", PassedBy(t), "at")
  BY <1>3, <1>8, <1>10 DEF Moves
<1> QED
  BY <1>2, <1>5, <1>11, <1>12 DEF Advances

\* A next function is its first position and the tail of that.
LEMMA NextIs ==
    ASSUME NEW c, NEW k \in Seq(Positions(c)), k # NoNext
    PROVE  /\ Head(k)[1] \in Handlers /\ Head(k)[2] \in Nat /\ Tail(k) \in Seq(Positions(c))
           /\ <<Head(k)[1], Head(k)[2]>> \in Positions(c)
           /\ k = << <<Head(k)[1], Head(k)[2]>> >> \o Tail(k)
<1>1. Head(k) \in Positions(c) /\ Tail(k) \in Seq(Positions(c)) /\ k = <<Head(k)>> \o Tail(k)
  BY DEF NoNext
<1>2. PICK p \in Positions(c) : p = Head(k)
  BY <1>1
<1>3. p[1] \in Handlers /\ p[2] \in Nat /\ p = <<p[1], p[2]>>
  BY <1>2 DEF Positions
<1> QED
  BY <1>1, <1>2, <1>3

\* dispatch(), in its five cases.
LEMMA DispatchAdvances ==
    ASSUME NEW c, NEW f, IsApplication(c, f), NEW s, NEW k, InOrder(c, f, s, "down", k),
           NEW h \in Handlers, NEW i \in Nat, <<h, i>> \in Positions(c),
           NEW tail \in Seq(Positions(c)), k = << <<h, i>> >> \o tail
    PROVE  /\ i > Len(c[h]) /\ f[h] # Null =>
                Advances(c, f, s, "down",
                         Append(s, [mw |-> f[h], next |-> tail, calls |-> 0]), "at", NoNext)
           /\ i > Len(c[h]) /\ f[h] = Null => Advances(c, f, s, "down", s, "down", tail)
           /\ i <= Len(c[h]) /\ c[h][i] = Null =>
                Advances(c, f, s, "down", s, "down", Rest(h, i, tail))
           /\ i <= Len(c[h]) /\ c[h][i] \in Handlers =>
                Advances(c, f, s, "down", s, "down", Composed(c[h][i], Rest(h, i, tail)))
           /\ i <= Len(c[h]) /\ c[h][i] \in Middlewares =>
                Advances(c, f, s, "down",
                         Append(s, [mw |-> c[h][i], next |-> Rest(h, i, tail), calls |-> 0]),
                         "at", NoNext)
<1>4. i \in 1..(Len(c[h]) + 1)
  BY DEF Positions
<1>5. Len(c[h]) \in Nat
  BY ChainTyped
<1>6. PICK a \in Seq(Middlewares) : a = LayersAhead(c, f, tail)
  BY AheadTyped
<1>7. ASSUME i > Len(c[h]) PROVE LayersAhead(c, f, k) = LastLayer(f, h) \o a
  <2>1. LayersAhead(c, f, << <<h, i>> >> \o tail) = LastLayer(f, h) \o LayersAhead(c, f, tail)
    BY <1>7, AheadAtEnd
  <2> QED
    BY <1>6, <2>1
<1>8. ASSUME i > Len(c[h]), f[h] # Null
      PROVE  Advances(c, f, s, "down",
                      Append(s, [mw |-> f[h], next |-> tail, calls |-> 0]), "at", NoNext)
  <2>1. f[h] \in Middlewares
    BY <1>8 DEF IsApplication, IsFallbacks
  <2>2. LastLayer(f, h) = <<f[h]>>
    BY <1>8 DEF LastLayer
  <2> QED
    BY <1>6, <1>7, <1>8, <2>1, <2>2, EnterAdvances
<1>9. ASSUME i > Len(c[h]), f[h] = Null PROVE Advances(c, f, s, "down", s, "down", tail)
  <2>1. LastLayer(f, h) = << >>
    BY <1>9 DEF LastLayer
  <2>2. << >> \o a = a
    BY <1>6, ConcatEmptySeq
  <2>3. LayersAhead(c, f, tail) = LayersAhead(c, f, k)
    BY <1>6, <1>7, <1>9, <2>1, <2>2
  <2> QED
    BY <2>3, CallAdvances
<1>10. ASSUME i <= Len(c[h])
       PROVE  /\ Rest(h, i, tail) \in Seq(Positions(c))
              /\ LayersAhead(c, f, k)
                   = Expanded(c[h][i], LayersIn(c, f)) \o LayersAhead(c, f, Rest(h, i, tail))
  <2>1. i \in 1..Len(c[h])
    BY <1>4, <1>5, <1>10
  <2>2. Rest(h, i, tail) \in Seq(Positions(c))
    BY <2>1, RestTyped
  <2>3. LayersAhead(c, f, k)
          = Expanded(c[h][i], LayersIn(c, f)) \o LayersAhead(c, f, Rest(h, i, tail))
    <3>1. EntryThenRest(c, f, h, i, tail)
      BY <2>1, AheadAtEntry
    <3> QED
      BY <3>1 DEF EntryThenRest
  <2> QED
    BY <2>2, <2>3
<1>11. ASSUME i <= Len(c[h]), c[h][i] = Null
       PROVE  Advances(c, f, s, "down", s, "down", Rest(h, i, tail))
  <2>1. Expanded(c[h][i], LayersIn(c, f)) = << >>
    BY <1>11 DEF Expanded
  <2>2. LayersAhead(c, f, Rest(h, i, tail)) \in Seq(Middlewares)
    BY <1>10, <1>11, AheadTyped
  <2>3. << >> \o LayersAhead(c, f, Rest(h, i, tail)) = LayersAhead(c, f, Rest(h, i, tail))
    BY <2>2, ConcatEmptySeq
  <2>4. LayersAhead(c, f, Rest(h, i, tail)) = LayersAhead(c, f, k)
    BY <1>10, <1>11, <2>1, <2>3
  <2> QED
    BY <1>10, <1>11, <2>4, CallAdvances
<1>12. ASSUME i <= Len(c[h]), c[h][i] \in Handlers
       PROVE  Advances(c, f, s, "down", s, "down", Composed(c[h][i], Rest(h, i, tail)))
  <2>1. c[h][i] # Null
    BY <1>12, HandlersAssumption
  <2>2. Expanded(c[h][i], LayersIn(c, f)) = LayersIn(c, f)[c[h][i]]
    BY <1>12, <2>1 DEF Expanded
  <2>3. Composed(c[h][i], Rest(h, i, tail)) \in Seq(Positions(c))
    BY <1>10, <1>12, ComposedTyped
  <2>4. LayersAhead(c, f, Composed(c[h][i], Rest(h, i, tail)))
          = LayersIn(c, f)[c[h][i]] \o LayersAhead(c, f, Rest(h, i, tail))
    BY <1>10, <1>12, AheadComposed
  <2>5. LayersAhead(c, f, Composed(c[h][i], Rest(h, i, tail))) = LayersAhead(c, f, k)
    BY <1>10, <1>12, <2>2, <2>4
  <2> QED
    BY <2>3, <2>5, CallAdvances
<1>13. ASSUME i <= Len(c[h]), c[h][i] \in Middlewares
       PROVE  Advances(c, f, s, "down",
                       Append(s, [mw |-> c[h][i], next |-> Rest(h, i, tail), calls |-> 0]),
                       "at", NoNext)
  <2>1. c[h][i] # Null /\ c[h][i] \notin Handlers
    BY <1>13, HandlersAssumption
  <2>2. Expanded(c[h][i], LayersIn(c, f)) = <<c[h][i]>>
    BY <2>1 DEF Expanded
  <2> QED
    BY <1>10, <1>13, <2>2, EnterAdvances
<1> QED
  BY <1>8, <1>9, <1>11, <1>12, <1>13

\* handle() starts with all layers ahead.
LEMMA HandleAdvances ==
    ASSUME NEW c, NEW f, IsApplication(c, f), NEW s, NEW k, InOrder(c, f, s, "idle", k)
    PROVE  Advances(c, f, s, "idle", s, "down", << <<Root, 1>> >>)
<1>1. Root \in Handlers /\ Len(c[Root]) \in Nat
  BY ChainTyped, HandlersAssumption
<1>2. <<Root, 1>> \in Positions(c) /\ << >> \in Seq(Positions(c))
  BY <1>1 DEF Positions
<1>3. << <<Root, 1>> >> \in Seq(Positions(c)) /\ << <<Root, 1>> >> = << <<Root, 1>> >> \o << >>
  BY <1>2
<1>4. PICK a \in Seq(Middlewares) : a = AllLayers(c, f)
  BY AllLayersTyped
<1>5. LayersFrom(c, f, <<Root, 1>>) = a
  BY <1>1, <1>4, LayersFromStart DEF AllLayers
<1>6. LayersAhead(c, f, << <<Root, 1>> >> \o << >>) = a \o << >>
  <2>1. LayersAhead(c, f, << <<Root, 1>> >> \o << >>)
          = LayersFrom(c, f, <<Root, 1>>) \o LayersAhead(c, f, << >>)
    BY <1>2, AheadFirst
  <2> QED
    BY <1>5, <2>1, AheadEmpty
<1>7. LayersAhead(c, f, << <<Root, 1>> >>) = a
  BY <1>3, <1>4, <1>6, ConcatEmptySeq
<1>8. s = << >>
  BY DEF InOrder
<1>9. PassedBy(s) = << >> /\ << >> \o a = a
  BY <1>4, <1>8, FitsEmpty, ConcatEmptySeq
<1>10. InOrder(c, f, s, "down", << <<Root, 1>> >>)
  BY <1>3, <1>4, <1>7, <1>9 DEF InOrder, Modes
<1>11. Moves(AllLayers(c, f), PassedBy(s), "idle", PassedBy(s), "down")
  BY DEF Moves
<1> QED
  BY <1>10, <1>11 DEF Advances

\* The empty answer: every layer was passed.
LEMMA BottomAdvances ==
    ASSUME NEW c, NEW f, IsApplication(c, f), NEW s, InOrder(c, f, s, "down", NoNext)
    PROVE  Advances(c, f, s, "down", s, "up", NoNext)
<1>1. s \in Seq(Frames(c))
  BY DEF InOrder
<1>2. PICK p \in Seq(Middlewares) : p = PassedBy(s)
  BY <1>1, PassedByTyped
<1>3. AllLayers(c, f) = p \o << >>
  BY <1>2, AheadEmpty DEF InOrder, NoNext
<1>4. AllLayers(c, f) = p
  BY <1>2, <1>3, ConcatEmptySeq
<1>5. Moves(AllLayers(c, f), PassedBy(s), "down", PassedBy(s), "up")
  BY <1>2, <1>4 DEF Moves
<1>6. InOrder(c, f, s, "up", NoNext)
  BY DEF InOrder, Modes, NoNext
<1> QED
  BY <1>5, <1>6 DEF Advances

\* The innermost middleware awaits its next function,
LEMMA AwaitAdvances ==
    ASSUME NEW c, NEW f, IsApplication(c, f), NEW s, NEW k, InOrder(c, f, s, "at", k)
    PROVE  Advances(c, f, s, "at", [s EXCEPT ![Len(s)].calls = @ + 1], "down", Last(s).next)
<1>1. s \in Seq(Frames(c)) /\ s # << >> /\ Fits(c, f, s)
  BY DEF InOrder
<1>2. PICK t \in Seq(Frames(c)) : /\ t = [s EXCEPT ![Len(s)].calls = @ + 1]
                                  /\ t # << >> /\ PassedBy(t) = PassedBy(s) /\ Fits(c, f, t)
  BY <1>1, CountedFits
<1>3. Last(s).next \in Seq(Positions(c))
  BY <1>1, PassedByFront DEF Frames
<1>4. PassedBy(s) \o LayersAhead(c, f, Last(s).next) = AllLayers(c, f)
  BY <1>1, PassedByFront
<1>5. InOrder(c, f, t, "down", Last(s).next)
  BY <1>2, <1>3, <1>4 DEF InOrder, Modes
<1>6. Moves(AllLayers(c, f), PassedBy(s), "at", PassedBy(t), "down")
  BY <1>2 DEF Moves
<1> QED
  BY <1>2, <1>5, <1>6 DEF Advances

\* or is left, by its own doing or by an exception it does not catch,
LEMMA LeaveAdvances ==
    ASSUME NEW c, NEW f, IsApplication(c, f), NEW s, NEW m, NEW k, InOrder(c, f, s, m, k),
           s # << >>, NEW how,
           \/ m = "at" /\ how \in {"up", "fail"}
           \/ m = "fail" /\ how = "fail"
    PROVE  Advances(c, f, s, m, Front(s), how, k)
<1>1. s \in Seq(Frames(c)) /\ Fits(c, f, s)
  BY DEF InOrder
<1>2. PICK t \in Seq(Frames(c)) : /\ t = Front(s) /\ Fits(c, f, t)
                                  /\ PassedBy(t) = SubSeq(PassedBy(s), 1, Len(PassedBy(s)) - 1)
  BY <1>1, PassedByFront
<1>3. InOrder(c, f, t, how, k)
  BY <1>2 DEF InOrder, Modes
<1>4. PassedBy(s) # << >>
  BY <1>1, PassedByTyped
<1>5. Moves(AllLayers(c, f), PassedBy(s), m, PassedBy(t), how)
  BY <1>2, <1>4 DEF Moves
<1> QED
  BY <1>2, <1>3, <1>5 DEF Advances

\* and the one around it goes on; past the outermost one the request is done.
LEMMA ResumeAdvances ==
    ASSUME NEW c, NEW f, IsApplication(c, f), NEW s, NEW m \in {"up", "fail"}, NEW k,
           InOrder(c, f, s, m, k)
    PROVE  /\ s # << >> => Advances(c, f, s, m, s, "at", k)
           /\ s = << >> => Advances(c, f, s, m, s, "done", k)
<1>1. s \in Seq(Frames(c))
  BY DEF InOrder
<1>2. s = << >> <=> PassedBy(s) = << >>
  BY <1>1, PassedByTyped
<1>3. /\ s # << >> => InOrder(c, f, s, "at", k)
      /\ s = << >> => InOrder(c, f, s, "done", k)
  BY DEF InOrder, Modes
<1>4. /\ s # << >> => Moves(AllLayers(c, f), PassedBy(s), m, PassedBy(s), "at")
      /\ s = << >> => Moves(AllLayers(c, f), PassedBy(s), m, PassedBy(s), "done")
  BY <1>2 DEF Moves
<1> QED
  BY <1>3, <1>4 DEF Advances

-----------------------------------------------------------------------------
(* The system. *)

\* Chains, stacks and next functions are what the model makes them.
TypeInv ==
    /\ IsApplication(chain, fallback)
    /\ stack \in [Requests -> Seq(Frames(chain))]
    /\ mode \in [Requests -> Modes]
    /\ next \in [Requests -> Seq(Positions(chain))]

\* The inductive invariant.
IInv ==
    /\ TypeInv
    /\ \A r \in Requests : InOrder(chain, fallback, stack[r], mode[r], next[r])

\* Writing back what was there changes nothing.
LEMMA ExceptSame ==
    ASSUME NEW S, NEW T, NEW f \in [S -> T], NEW x \in S
    PROVE  f = [f EXCEPT ![x] = f[x]]
OBVIOUS

\* A step of r changes what is of r, and so that r is in order.
StepsTo(r, s, m, k) ==
    /\ chain' = chain /\ fallback' = fallback
    /\ stack' = [stack EXCEPT ![r] = s]
    /\ mode' = [mode EXCEPT ![r] = m]
    /\ next' = [next EXCEPT ![r] = k]
    /\ Advances(chain, fallback, stack[r], mode[r], s, m, k)

\* Every step of a request keeps that request in order,
LEMMA StepAdvances ==
    ASSUME IInv, NEW r \in Requests, Step(r)
    PROVE  \E s, m, k : StepsTo(r, s, m, k)
<1> DEFINE s == stack[r]
<1> DEFINE m == mode[r]
<1> DEFINE k == next[r]
<1>1. IsApplication(chain, fallback) /\ InOrder(chain, fallback, s, m, k)
  BY DEF IInv, TypeInv
<1>2. /\ stack = [stack EXCEPT ![r] = s]
      /\ mode = [mode EXCEPT ![r] = m]
      /\ next = [next EXCEPT ![r] = k]
  <2>1. /\ stack \in [Requests -> Seq(Frames(chain))]
        /\ mode \in [Requests -> Modes]
        /\ next \in [Requests -> Seq(Positions(chain))]
    BY DEF IInv, TypeInv
  <2> QED
    BY <2>1, ExceptSame
<1>3. CASE Handle(r)
  <2>1. /\ m = "idle" /\ chain' = chain /\ fallback' = fallback /\ stack' = stack
        /\ mode' = [mode EXCEPT ![r] = "down"]
        /\ next' = [next EXCEPT ![r] = << <<Root, 1>> >>]
    BY <1>3 DEF Handle, Call
  <2>2. Advances(chain, fallback, s, m, s, "down", << <<Root, 1>> >>)
    BY <1>1, <2>1, HandleAdvances
  <2> HIDE DEF s, m, k
  <2>3. StepsTo(r, s, "down", << <<Root, 1>> >>)
    BY <1>2, <2>1, <2>2 DEF StepsTo, s, m
  <2> QED
    BY <2>3
<1>4. CASE Dispatch(r)
  <2>1. m = "down" /\ k # NoNext /\ chain' = chain /\ fallback' = fallback
    BY <1>4 DEF Dispatch
  <2>2. k \in Seq(Positions(chain))
    BY <1>1 DEF InOrder
  <2> DEFINE h == Head(k)[1]
  <2> DEFINE i == Head(k)[2]
  <2> DEFINE tail == Tail(k)
  <2>3. /\ h \in Handlers /\ i \in Nat /\ tail \in Seq(Positions(chain))
        /\ <<h, i>> \in Positions(chain) /\ k = << <<h, i>> >> \o tail
    BY <2>1, <2>2, NextIs
  <2>4. \/ /\ i > Len(chain[h]) /\ fallback[h] # Null
           /\ Enter(r, fallback[h], tail)
        \/ /\ i > Len(chain[h]) /\ fallback[h] = Null
           /\ Call(r, tail) /\ stack' = stack
        \/ /\ i <= Len(chain[h]) /\ chain[h][i] = Null
           /\ Call(r, Rest(h, i, tail)) /\ stack' = stack
        \/ /\ i <= Len(chain[h]) /\ chain[h][i] \in Handlers
           /\ Call(r, Composed(chain[h][i], Rest(h, i, tail))) /\ stack' = stack
        \/ /\ i <= Len(chain[h]) /\ chain[h][i] \in Middlewares
           /\ Enter(r, chain[h][i], Rest(h, i, tail))
    BY <1>4 DEF Dispatch
  <2>0. InOrder(chain, fallback, s, "down", k)
    BY <1>1, <2>1
  <2> HIDE DEF h, i, tail, s, m, k
  <2>5. CASE i > Len(chain[h]) /\ fallback[h] # Null /\ Enter(r, fallback[h], tail)
    <3> DEFINE t == Append(s, [mw |-> fallback[h], next |-> tail, calls |-> 0])
    <3>1. Advances(chain, fallback, s, "down", t, "at", NoNext)
      BY <1>1, <2>0, <2>3, <2>5, DispatchAdvances
    <3>2. /\ stack' = [stack EXCEPT ![r] = t] /\ mode' = [mode EXCEPT ![r] = "at"]
          /\ next' = [next EXCEPT ![r] = NoNext]
      BY <1>2, <2>5 DEF Enter, s
    <3> HIDE DEF t
    <3>3. StepsTo(r, t, "at", NoNext)
      BY <2>1, <3>1, <3>2 DEF StepsTo, s, m
    <3> QED
      BY <3>3
  <2>6. CASE i > Len(chain[h]) /\ fallback[h] = Null /\ Call(r, tail) /\ stack' = stack
    <3>1. Advances(chain, fallback, s, "down", s, "down", tail)
      BY <1>1, <2>0, <2>3, <2>6, DispatchAdvances
    <3>2. StepsTo(r, s, "down", tail)
      BY <1>2, <2>1, <2>6, <3>1 DEF StepsTo, Call, s, m
    <3> QED
      BY <3>2
  <2>7. CASE /\ i <= Len(chain[h]) /\ chain[h][i] = Null
             /\ Call(r, Rest(h, i, tail)) /\ stack' = stack
    <3>1. Advances(chain, fallback, s, "down", s, "down", Rest(h, i, tail))
      BY <1>1, <2>0, <2>3, <2>7, DispatchAdvances
    <3>2. StepsTo(r, s, "down", Rest(h, i, tail))
      BY <1>2, <2>1, <2>7, <3>1 DEF StepsTo, Call, s, m
    <3> QED
      BY <3>2
  <2>8. CASE /\ i <= Len(chain[h]) /\ chain[h][i] \in Handlers
             /\ Call(r, Composed(chain[h][i], Rest(h, i, tail))) /\ stack' = stack
    <3>1. Advances(chain, fallback, s, "down", s, "down", Composed(chain[h][i], Rest(h, i, tail)))
      BY <1>1, <2>0, <2>3, <2>8, DispatchAdvances
    <3>2. StepsTo(r, s, "down", Composed(chain[h][i], Rest(h, i, tail)))
      BY <1>2, <2>1, <2>8, <3>1 DEF StepsTo, Call, s, m
    <3> QED
      BY <3>2
  <2>9. CASE /\ i <= Len(chain[h]) /\ chain[h][i] \in Middlewares
             /\ Enter(r, chain[h][i], Rest(h, i, tail))
    <3> DEFINE t == Append(s, [mw |-> chain[h][i], next |-> Rest(h, i, tail), calls |-> 0])
    <3>1. Advances(chain, fallback, s, "down", t, "at", NoNext)
      BY <1>1, <2>0, <2>3, <2>9, DispatchAdvances
    <3>2. /\ stack' = [stack EXCEPT ![r] = t] /\ mode' = [mode EXCEPT ![r] = "at"]
          /\ next' = [next EXCEPT ![r] = NoNext]
      BY <1>2, <2>9 DEF Enter, s
    <3> HIDE DEF t
    <3>3. StepsTo(r, t, "at", NoNext)
      BY <2>1, <3>1, <3>2 DEF StepsTo, s, m
    <3> QED
      BY <3>3
  <2> QED
    BY <2>4, <2>5, <2>6, <2>7, <2>8, <2>9
<1>5. CASE DefaultResponse(r)
  <2>1. /\ m = "down" /\ k = NoNext /\ chain' = chain /\ fallback' = fallback
        /\ stack' = stack /\ next' = next /\ mode' = [mode EXCEPT ![r] = "up"]
    BY <1>5 DEF DefaultResponse
  <2>2. InOrder(chain, fallback, s, "down", NoNext)
    BY <1>1, <2>1
  <2> HIDE DEF s, m, k
  <2>3. Advances(chain, fallback, s, m, s, "up", k)
    BY <1>1, <2>1, <2>2, BottomAdvances
  <2>4. StepsTo(r, s, "up", k)
    BY <1>2, <2>1, <2>3 DEF StepsTo, s, m
  <2> QED
    BY <2>4
<1>6. CASE AwaitNext(r)
  <2>1. /\ m = "at" /\ chain' = chain /\ fallback' = fallback
        /\ stack' = [stack EXCEPT ![r][Len(s)].calls = @ + 1]
        /\ mode' = [mode EXCEPT ![r] = "down"] /\ next' = [next EXCEPT ![r] = Last(s).next]
    BY <1>6 DEF AwaitNext, Running, Innermost, Call
  <2> DEFINE t == [s EXCEPT ![Len(s)].calls = @ + 1]
  <2>2. stack' = [stack EXCEPT ![r] = t]
    BY <2>1
  <2>0. InOrder(chain, fallback, s, "at", k)
    BY <1>1, <2>1
  <2> HIDE DEF s, m, k
  <2>3. Advances(chain, fallback, s, "at", t, "down", Last(s).next)
    BY <1>1, <2>0, AwaitAdvances
  <2> HIDE DEF t
  <2>4. StepsTo(r, t, "down", Last(s).next)
    BY <2>1, <2>2, <2>3 DEF StepsTo, s, m
  <2> QED
    BY <2>4
<1>7. ASSUME NEW how \in {"up", "fail"}, Leave(r, how) PROVE \E t, n, l : StepsTo(r, t, n, l)
  <2>1. /\ m = "at" /\ chain' = chain /\ fallback' = fallback /\ next' = next
        /\ stack' = [stack EXCEPT ![r] = Front(s)] /\ mode' = [mode EXCEPT ![r] = how]
    BY <1>7 DEF Leave, Running
  <2>2. s # << >>
    BY <1>1, <2>1 DEF InOrder
  <2> HIDE DEF s, m, k
  <2>3. Advances(chain, fallback, s, m, Front(s), how, k)
    BY <1>1, <1>7, <2>1, <2>2, LeaveAdvances
  <2>4. StepsTo(r, Front(s), how, k)
    BY <1>2, <2>1, <2>3 DEF StepsTo, s, m
  <2> QED
    BY <2>4
<1>8. CASE Resume(r)
  <2>1. /\ m \in {"up", "fail"} /\ s # << >> /\ chain' = chain /\ fallback' = fallback
        /\ stack' = stack /\ next' = next /\ mode' = [mode EXCEPT ![r] = "at"]
    BY <1>8 DEF Resume
  <2> HIDE DEF s, m, k
  <2>2. Advances(chain, fallback, s, m, s, "at", k)
    BY <1>1, <2>1, ResumeAdvances
  <2>3. StepsTo(r, s, "at", k)
    BY <1>2, <2>1, <2>2 DEF StepsTo, s, m
  <2> QED
    BY <2>3
<1>9. CASE Propagate(r)
  <2>1. /\ m = "fail" /\ s # << >> /\ chain' = chain /\ fallback' = fallback
        /\ stack' = [stack EXCEPT ![r] = Front(s)] /\ next' = next /\ mode' = mode
    BY <1>9 DEF Propagate
  <2> HIDE DEF s, m, k
  <2>2. Advances(chain, fallback, s, m, Front(s), m, k)
    BY <1>1, <2>1, LeaveAdvances
  <2>3. StepsTo(r, Front(s), m, k)
    BY <1>2, <2>1, <2>2 DEF StepsTo, s, m
  <2> QED
    BY <2>3
<1>10. CASE Finish(r)
  <2>1. /\ m \in {"up", "fail"} /\ s = << >> /\ chain' = chain /\ fallback' = fallback
        /\ stack' = stack /\ next' = next /\ mode' = [mode EXCEPT ![r] = "done"]
    BY <1>10 DEF Finish
  <2> HIDE DEF s, m, k
  <2>2. Advances(chain, fallback, s, m, s, "done", k)
    BY <1>1, <2>1, ResumeAdvances
  <2>3. StepsTo(r, s, "done", k)
    BY <1>2, <2>1, <2>2 DEF StepsTo, s, m
  <2> QED
    BY <2>3
<1>11. Leave(r, "up") => \E t, n, l : StepsTo(r, t, n, l)
  BY <1>7
<1>12. Leave(r, "fail") => \E t, n, l : StepsTo(r, t, n, l)
  BY <1>7
<1> QED
  BY <1>3, <1>4, <1>5, <1>6, <1>8, <1>9, <1>10, <1>11, <1>12 DEF Step

\* and with it the inductive invariant.
LEMMA StepInvariant ==
    ASSUME IInv, NEW r \in Requests, Step(r)
    PROVE  IInv'
<1>1. PICK s, m, k : StepsTo(r, s, m, k)
  BY StepAdvances
<1>2. /\ chain' = chain /\ fallback' = fallback
      /\ stack' = [stack EXCEPT ![r] = s] /\ mode' = [mode EXCEPT ![r] = m]
      /\ next' = [next EXCEPT ![r] = k]
      /\ InOrder(chain, fallback, s, m, k)
  BY <1>1 DEF StepsTo, Advances
<1>3. s \in Seq(Frames(chain)) /\ m \in Modes /\ k \in Seq(Positions(chain))
  BY <1>2 DEF InOrder
<1>4. /\ IsApplication(chain, fallback)
      /\ stack \in [Requests -> Seq(Frames(chain))]
      /\ mode \in [Requests -> Modes]
      /\ next \in [Requests -> Seq(Positions(chain))]
      /\ \A q \in Requests : InOrder(chain, fallback, stack[q], mode[q], next[q])
  BY DEF IInv, TypeInv
<1>5. TypeInv'
  BY <1>2, <1>3, <1>4 DEF TypeInv
<1>6. ASSUME NEW q \in Requests PROVE InOrder(chain', fallback', stack'[q], mode'[q], next'[q])
  <2>1. CASE q = r
    BY <1>2, <1>4, <2>1
  <2>2. CASE q # r
    BY <1>2, <1>4, <2>2
  <2> QED
    BY <2>1, <2>2
<1> QED
  BY <1>5, <1>6 DEF IInv

\* Before the first request only chains and fallbacks change.
LEMMA BuildInvariant ==
    ASSUME IInv, Build
    PROVE  IInv' /\ Building /\ stack' = stack /\ mode' = mode /\ next' = next
<1>1. /\ IsChains(chain) /\ IsFallbacks(fallback)
      /\ stack \in [Requests -> Seq(Frames(chain))]
      /\ mode \in [Requests -> Modes]
      /\ next \in [Requests -> Seq(Positions(chain))]
      /\ \A q \in Requests : InOrder(chain, fallback, stack[q], mode[q], next[q])
  BY DEF IInv, TypeInv, IsApplication
<1>2. Building /\ stack' = stack /\ mode' = mode /\ next' = next
  BY DEF Build, Use, SetFallback
<1>3. IsChains(chain') /\ IsFallbacks(fallback')
  <2>1. ASSUME NEW h \in Handlers, NEW e \in Entries, Use(h, e)
        PROVE  IsChains(chain') /\ IsFallbacks(fallback')
    <3>1. /\ chain' = [chain EXCEPT ![h] = Append(@, e)] /\ fallback' = fallback
          /\ e \in Handlers => <<h, e>> \in MayContain
      BY <2>1 DEF Use
    <3>2. chain \in [Handlers -> Seq(Entries)]
      BY <1>1 DEF IsChains
    <3>3. PICK n \in Nat : n = Len(chain[h])
      BY <3>2
    <3>4. /\ Append(chain[h], e) \in Seq(Entries)
          /\ Len(Append(chain[h], e)) = Len(chain[h]) + 1
          /\ \A j \in 1..Len(chain[h]) : Append(chain[h], e)[j] = chain[h][j]
          /\ Append(chain[h], e)[Len(chain[h]) + 1] = e
      BY <3>2, AppendProperties
    <3>5. PICK t \in Seq(Entries) :
             /\ t = Append(chain[h], e) /\ Len(t) = n + 1 /\ t[n + 1] = e
             /\ \A j \in 1..n : t[j] = chain[h][j]
      BY <3>3, <3>4
    <3>6. chain' = [chain EXCEPT ![h] = t]
      BY <3>1, <3>5
    <3>7. chain' \in [Handlers -> Seq(Entries)]
      BY <3>2, <3>5, <3>6
    <3>8. ASSUME NEW g \in Handlers, NEW i \in 1..Len(chain'[g]), chain'[g][i] \in Handlers
          PROVE  <<g, chain'[g][i]>> \in MayContain
      <4>1. CASE g # h
        <5>1. chain'[g] = chain[g]
          BY <3>2, <3>6, <4>1
        <5> QED
          BY <1>1, <3>8, <5>1 DEF IsChains
      <4>2. CASE g = h
        <5>1. chain'[g] = t /\ i \in 1..(n + 1)
          BY <3>2, <3>5, <3>6, <3>8, <4>2
        <5>2. CASE i = n + 1
          BY <3>1, <3>5, <3>8, <4>2, <5>1, <5>2
        <5>3. CASE i # n + 1
          <6>1. n \in Nat
            BY <3>3
          <6>2. i \in 1..n
            BY <5>1, <5>3, <6>1
          <6>3. t[i] = chain[h][i] /\ i \in 1..Len(chain[h])
            BY <3>3, <3>5, <6>2
          <6>4. chain[h][i] \in Handlers
            BY <3>8, <5>1, <6>3
          <6>5. <<h, chain[h][i]>> \in MayContain
            BY <1>1, <6>3, <6>4 DEF IsChains
          <6> QED
            BY <4>2, <5>1, <6>3, <6>5
        <5> QED
          BY <5>2, <5>3
      <4> QED
        BY <4>1, <4>2
    <3>9. IsChains(chain')
      BY <3>7, <3>8 DEF IsChains
    <3> QED
      BY <1>1, <3>1, <3>9
  <2>2. ASSUME NEW h \in Handlers, NEW m \in Middlewares \cup {Null}, SetFallback(h, m)
        PROVE  IsChains(chain') /\ IsFallbacks(fallback')
    <3>1. chain' = chain /\ fallback' = [fallback EXCEPT ![h] = m]
      BY <2>2 DEF SetFallback
    <3>2. IsFallbacks(fallback')
      BY <1>1, <3>1 DEF IsFallbacks
    <3> QED
      BY <1>1, <3>1, <3>2
  <2> QED
    BY <2>1, <2>2 DEF Build
<1>4. ASSUME NEW q \in Requests PROVE stack[q] = << >> /\ mode[q] = "idle" /\ next[q] = << >>
  BY <1>1, <1>2 DEF Building, InOrder
<1>5. ASSUME NEW q \in Requests PROVE InOrder(chain', fallback', stack'[q], mode'[q], next'[q])
  <2>1. << >> \in Seq(Frames(chain')) /\ << >> \in Seq(Positions(chain'))
    BY EmptySeq
  <2>2. InOrder(chain', fallback', << >>, "idle", << >>)
    BY <2>1, FitsEmpty DEF InOrder, Modes
  <2> QED
    BY <1>2, <1>4, <2>2
<1>6. TypeInv'
  <2>1. \A q \in Requests : stack[q] \in Seq(Frames(chain')) /\ next[q] \in Seq(Positions(chain'))
    BY <1>4, EmptySeq
  <2>2. stack \in [Requests -> Seq(Frames(chain'))] /\ next \in [Requests -> Seq(Positions(chain'))]
    BY <1>1, <2>1
  <2> QED
    BY <1>1, <1>2, <1>3, <2>2 DEF TypeInv, IsApplication
<1> QED
  BY <1>2, <1>5, <1>6 DEF IInv

\* The inductive invariant holds of handlers that are empty.
LEMMA InitInvariant == Init => IInv
<1> SUFFICES ASSUME Init PROVE IInv
  OBVIOUS
<1>1. IsApplication(chain, fallback)
  BY EmptySeq DEF Init, IsApplication, IsChains, IsFallbacks
<1>2. << >> \in Seq(Frames(chain)) /\ << >> \in Seq(Positions(chain))
  BY EmptySeq
<1>3. TypeInv
  BY <1>1, <1>2 DEF Init, TypeInv, Modes, NoNext
<1>4. InOrder(chain, fallback, << >>, "idle", << >>)
  BY <1>2, FitsEmpty DEF InOrder, Modes
<1> QED
  BY <1>3, <1>4 DEF Init, IInv, NoNext

\* The invariant holds in every reachable state.
THEOREM Invariance == Spec => []IInv
<1>1. Init => IInv
  BY InitInvariant
<1>2. IInv /\ [Next]_vars => IInv'
  <2> SUFFICES ASSUME IInv, [Next]_vars PROVE IInv'
    OBVIOUS
  <2>1. CASE Build
    BY <2>1, BuildInvariant
  <2>2. CASE \E r \in Requests : Step(r)
    BY <2>2, StepInvariant
  <2>3. CASE UNCHANGED vars
    <3>1. /\ chain' = chain /\ fallback' = fallback /\ stack' = stack
          /\ mode' = mode /\ next' = next
      BY <2>3 DEF vars
    <3> QED
      BY <3>1 DEF IInv, TypeInv
  <2> QED
    BY <2>1, <2>2, <2>3 DEF Next
<1> QED
  BY <1>1, <1>2, PTL DEF Spec

\* Chains hold entries that may be composed, and no next function points beyond a
\* chain and its fallback.
THEOREM TypeCorrect == Spec => []TypeInv
<1>1. IInv => TypeInv
  BY DEF IInv
<1> QED
  BY <1>1, Invariance, PTL

\* Whatever a middleware calls, returns, throws or catches, its next function
\* leads to exactly the layers after it.
THEOREM LeadsToTheRest == Spec => []NextIsTheRest
<1>1. IInv => NextIsTheRest
  <2> SUFFICES ASSUME IInv, NEW r \in Requests
               PROVE  /\ \A j \in 1..Len(stack[r]) :
                            SubSeq(Passed(r), 1, j) \o Ahead(stack[r][j].next) = Layers
                      /\ mode[r] = "down" => Passed(r) \o Ahead(next[r]) = Layers
    BY DEF NextIsTheRest
  <2>1. InOrder(chain, fallback, stack[r], mode[r], next[r])
    BY DEF IInv
  <2>2. Passed(r) = PassedBy(stack[r])
    BY DEF Passed, PassedBy
  <2>3. Layers = AllLayers(chain, fallback)
    BY DEF Layers, AllLayers
  <2> QED
    BY <2>1, <2>2, <2>3 DEF InOrder, Fits, Ahead
<1> QED
  BY <1>1, Invariance, PTL

-----------------------------------------------------------------------------
(* A chain of handlers is the list of its layers. *)

\* They have no layers.
LEMMA NoLayers == Init => Layers = << >>
<1> SUFFICES ASSUME Init PROVE Layers = << >>
  OBVIOUS
<1>1. IsApplication(chain, fallback)
  BY InitInvariant DEF IInv, TypeInv
<1>2. Root \in Handlers /\ chain[Root] = << >> /\ Len(chain[Root]) = 0 /\ fallback[Root] = Null
  BY HandlersAssumption DEF Init
<1>3. LayersFrom(chain, fallback, <<Root, Len(chain[Root]) + 1>>) = LastLayer(fallback, Root)
  BY <1>1, <1>2, LayersFromEnd
<1>4. LayersFrom(chain, fallback, <<Root, 1>>) = LayersIn(chain, fallback)[Root]
  BY <1>1, <1>2, LayersFromStart
<1>5. LastLayer(fallback, Root) = << >>
  BY <1>2 DEF LastLayer
<1>6. Len(chain[Root]) + 1 = 1
  BY <1>2
<1> QED
  BY <1>3, <1>4, <1>5, <1>6 DEF Layers

AllPassed == [x \in Requests |-> Passed(x)]

\* A move of one request is an action of Onion, or none.
LEMMA MoveIsOnions ==
    ASSUME NEW r \in Requests, Layers' = Layers, NEW q, NEW n,
           mode \in [Requests -> Modes],
           AllPassed' = [AllPassed EXCEPT ![r] = q],
           mode' = [mode EXCEPT ![r] = n],
           Moves(Layers, Passed(r), mode[r], q, n)
    PROVE  [Abstract!Next]_(Abstract!vars)
<1> DEFINE passed == [x \in Requests |-> Passed(x)]
<1>0. passed[r] = Passed(r)
  OBVIOUS
<1>1. PICK p : p = Passed(r)
  OBVIOUS
<1>2. passed' = [passed EXCEPT ![r] = q]
  BY DEF AllPassed
<1>3. CASE q = p /\ n = mode[r]
  <2>1. passed' = passed
    BY <1>0, <1>1, <1>2, <1>3
  <2>2. mode' = mode
    BY <1>3
  <2> QED
    BY <2>1, <2>2 DEF Abstract!vars
<1>4. q = p => passed' = passed
  BY <1>0, <1>1, <1>2
<1>5. CASE mode[r] = "idle" /\ n = "down" /\ q = p
  BY <1>4, <1>5 DEF Abstract!Next, Abstract!Arrive, Abstract!Switch
<1>6. CASE mode[r] = "down" /\ n = "at" /\ Len(p) < Len(Layers) /\ q = Append(p, Layers[Len(p) + 1])
  <2>1. Abstract!Descend(r)
    BY <1>0, <1>1, <1>2, <1>6 DEF Abstract!Descend, Abstract!Switch
  <2> QED
    BY <2>1 DEF Abstract!Next
<1>7. CASE mode[r] = "down" /\ n = "up" /\ Len(p) = Len(Layers) /\ q = p
  <2>1. Abstract!Bottom(r)
    BY <1>0, <1>1, <1>4, <1>7 DEF Abstract!Bottom, Abstract!Switch
  <2> QED
    BY <2>1 DEF Abstract!Next
<1>8. CASE mode[r] = "at" /\ n = "down" /\ q = p
  BY <1>4, <1>8 DEF Abstract!Next, Abstract!PassOn, Abstract!Switch
<1>9. CASE mode[r] = "at" /\ n \in {"up", "fail"} /\ q = SubSeq(p, 1, Len(p) - 1)
  <2>1. Abstract!Leave(r, n)
    BY <1>0, <1>1, <1>2, <1>9 DEF Abstract!Leave, Abstract!Switch
  <2> QED
    BY <1>9, <2>1 DEF Abstract!Next
<1>10. CASE mode[r] \in {"up", "fail"} /\ n = "at" /\ p # << >> /\ q = p
  <2>1. Abstract!Resume(r)
    BY <1>0, <1>1, <1>4, <1>10 DEF Abstract!Resume, Abstract!Switch
  <2> QED
    BY <2>1 DEF Abstract!Next
<1>11. CASE mode[r] = "fail" /\ n = "fail" /\ p # << >> /\ q = SubSeq(p, 1, Len(p) - 1)
  <2>1. Abstract!Propagate(r)
    BY <1>0, <1>1, <1>2, <1>11 DEF Abstract!Propagate, Abstract!Switch
  <2> QED
    BY <2>1 DEF Abstract!Next
<1>12. CASE mode[r] \in {"up", "fail"} /\ n = "done" /\ p = << >> /\ q = p
  <2>1. Abstract!Finish(r)
    BY <1>0, <1>1, <1>4, <1>12 DEF Abstract!Finish, Abstract!Switch
  <2> QED
    BY <2>1 DEF Abstract!Next
<1> QED
  BY <1>1, <1>3, <1>5, <1>6, <1>7, <1>8, <1>9, <1>10, <1>11, <1>12 DEF Moves

\* A step of Dispatch is a step of Onion, or none.
LEMMA StepIsOnions ==
    ASSUME IInv, [Next]_vars
    PROVE  [Abstract!Next]_(Abstract!vars)
<1>1. CASE Build
  <2>1. IInv' /\ Building /\ stack' = stack /\ mode' = mode
    BY <1>1, BuildInvariant
  <2>2. Layers' \in Seq(Middlewares)
    <3>1. IsApplication(chain', fallback')
      BY <2>1 DEF IInv, TypeInv
    <3> QED
      BY <3>1, AllLayersTyped DEF AllLayers, Layers
  <2>3. [x \in Requests |-> Passed(x)]' = [x \in Requests |-> Passed(x)]
    BY <2>1 DEF Passed
  <2>4. Abstract!Configure
    BY <2>1, <2>2, <2>3 DEF Abstract!Configure, Building
  <2> QED
    BY <2>4 DEF Abstract!Next
<1>2. ASSUME NEW r \in Requests, Step(r) PROVE [Abstract!Next]_(Abstract!vars)
  <2>1. PICK s, m, k : StepsTo(r, s, m, k)
    BY <1>2, StepAdvances
  <2>2. /\ chain' = chain /\ fallback' = fallback
        /\ stack' = [stack EXCEPT ![r] = s] /\ mode' = [mode EXCEPT ![r] = m]
        /\ Moves(AllLayers(chain, fallback), PassedBy(stack[r]), mode[r], PassedBy(s), m)
    BY <2>1 DEF StepsTo, Advances
  <2>3. /\ stack \in [Requests -> Seq(Frames(chain))] /\ mode \in [Requests -> Modes]
    BY DEF IInv, TypeInv
  <2>4. Layers' = Layers /\ Layers = AllLayers(chain, fallback)
    BY <2>2 DEF Layers, AllLayers
  <2>5. [x \in Requests |-> Passed(x)] = [x \in Requests |-> PassedBy(stack[x])]
    BY DEF Passed, PassedBy
  <2>6. [x \in Requests |-> Passed(x)]' = [x \in Requests |-> PassedBy(stack'[x])]
    BY DEF Passed, PassedBy
  <2>7. \A x \in Requests : stack'[x] = IF x = r THEN s ELSE stack[x]
    BY <2>2, <2>3
  <2>8. [x \in Requests |-> PassedBy(stack'[x])]
          = [[x \in Requests |-> PassedBy(stack[x])] EXCEPT ![r] = PassedBy(s)]
    BY <2>7
  <2>9. Passed(r) = PassedBy(stack[r])
    BY DEF Passed, PassedBy
  <2>10. AllPassed' = [AllPassed EXCEPT ![r] = PassedBy(s)]
    BY <2>5, <2>6, <2>8 DEF AllPassed
  <2> QED
    BY <2>2, <2>3, <2>4, <2>9, <2>10, MoveIsOnions
<1>3. CASE UNCHANGED vars
  <2>1. chain' = chain /\ fallback' = fallback /\ stack' = stack /\ mode' = mode
    BY <1>3 DEF vars
  <2>2. Layers' = Layers
    BY <2>1 DEF Layers
  <2>3. [x \in Requests |-> Passed(x)]' = [x \in Requests |-> Passed(x)]
    BY <2>1 DEF Passed
  <2> QED
    BY <2>1, <2>2, <2>3 DEF Abstract!vars
<1> QED
  BY <1>1, <1>2, <1>3 DEF Next

\* Whatever an application is composed of, and whatever its middlewares do, to a
\* request it is the list of its layers.
THEOREM IsAnOnion == Spec => ImplementsOnion
<1>1. Init => Abstract!Init
  <2> SUFFICES ASSUME Init PROVE Abstract!Init
    OBVIOUS
  <2>1. Layers = << >>
    BY NoLayers
  <2>2. [x \in Requests |-> Passed(x)] = [x \in Requests |-> << >>]
    <3>1. \A x \in Requests : Passed(x) = << >>
      BY DEF Init, Passed
    <3> QED
      BY <3>1
  <2>3. mode = [x \in Requests |-> "idle"]
    BY DEF Init
  <2> QED
    BY <2>1, <2>2, <2>3 DEF Abstract!Init
<1>2. IInv /\ [Next]_vars => [Abstract!Next]_(Abstract!vars)
  BY StepIsOnions
<1> QED
  BY <1>1, <1>2, Invariance, PTL DEF Spec, ImplementsOnion, Abstract!Spec
==============================================================================
