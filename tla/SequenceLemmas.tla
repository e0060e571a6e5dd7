--------------------------- MODULE SequenceLemmas ---------------------------
(***************************************************************************)
(* Facts about sequences and sums that need induction.  The induction is   *)
(* over sets: instead of a predicate, the set of the numbers (or of the    *)
(* finite sets) that satisfy it.                                           *)
(***************************************************************************)
EXTENDS Integers, FiniteSets, Sequences, SequencesExt, Functions, SequenceTheorems,
        FiniteSetTheorems, WellFoundedInduction, TLAPS

(* Induction over the natural numbers.                                      *)
LEMMA SetInduction ==
    ASSUME NEW S \in SUBSET Nat, 0 \in S, \A n \in Nat : n \in S => n + 1 \in S
    PROVE  S = Nat
<1> SUFFICES ASSUME Nat \ S # {} PROVE FALSE
  OBVIOUS
<1>1. PICK n \in Nat \ S : \A m \in Nat \ S : ~(<<m, n>> \in OpToRel(<, Nat))
  <2>1. IsWellFoundedOn(OpToRel(<, Nat), Nat)
    BY NatLessThanWellFounded, Zenon
  <2>2. QED BY <2>1, WFMin, Zenon
<1>2. n # 0 /\ n - 1 \in Nat
  OBVIOUS
<1>3. <<n - 1, n>> \in OpToRel(<, Nat)
  BY <1>2 DEF OpToRel
<1>4. n - 1 \in S
  BY <1>1, <1>2, <1>3
<1>5. QED BY <1>2, <1>4

(* g holds, at each index, the concatenation of the members of s up to it.  *)
Concatenates(g, s, n) == g = [i \in 1 .. n |-> IF i = 1 THEN s[i] ELSE g[i - 1] \o s[i]]

(* Such a function is given by its values.                                  *)
LEMMA ConcatenatesPointwise ==
    ASSUME NEW s, NEW n \in Nat, NEW g, g = [i \in 1 .. n |-> g[i]],
           \A i \in 1 .. n : g[i] = IF i = 1 THEN s[i] ELSE g[i - 1] \o s[i]
    PROVE  Concatenates(g, s, n)
<1>1. [i \in 1 .. n |-> g[i]] = [i \in 1 .. n |-> IF i = 1 THEN s[i] ELSE g[i - 1] \o s[i]]
  OBVIOUS
<1>2. QED BY <1>1, Zenon DEF Concatenates

(* There is such a function up to any index.                                *)
LEMMA ConcatenationExists ==
    ASSUME NEW s, NEW n \in Nat
    PROVE  \E g : Concatenates(g, s, n)
<1> DEFINE S == {k \in Nat : \E g : Concatenates(g, s, k)}
<1>1. 0 \in S
  <2> DEFINE g == [i \in 1 .. 0 |-> 0]
  <2>1. Concatenates(g, s, 0)
    BY DEF Concatenates
  <2>2. QED BY <2>1
<1>2. ASSUME NEW k \in Nat, k \in S PROVE k + 1 \in S
  <2>1. PICK f : Concatenates(f, s, k)
    BY <1>2
  <2>2. \A i \in 1 .. k : f[i] = IF i = 1 THEN s[i] ELSE f[i - 1] \o s[i]
    BY <2>1 DEF Concatenates
  <2> DEFINE last == IF k = 0 THEN s[1] ELSE f[k] \o s[k + 1]
  <2>3. PICK g : g = [i \in 1 .. k + 1 |-> IF i = k + 1 THEN last ELSE f[i]]
    OBVIOUS
  <2>4. /\ g = [i \in 1 .. k + 1 |-> g[i]]
        /\ g[k + 1] = last
        /\ \A i \in 1 .. k : g[i] = f[i]
    <3> HIDE DEF last
    <3>1. \A i \in 1 .. k + 1 : g[i] = IF i = k + 1 THEN last ELSE f[i]
      BY <2>3
    <3>2. g = [i \in 1 .. k + 1 |-> g[i]]
      BY <2>3
    <3>3. \A i \in 1 .. k : i \in 1 .. k + 1 /\ i # k + 1
      OBVIOUS
    <3>4. k + 1 \in 1 .. k + 1
      OBVIOUS
    <3>5. QED BY <3>1, <3>2, <3>3, <3>4, Zenon
  <2>5. \A i \in 1 .. k + 1 : g[i] = IF i = 1 THEN s[i] ELSE g[i - 1] \o s[i]
    <3> TAKE i \in 1 .. k + 1
    <3>1. CASE i = k + 1
      <4>1. CASE k = 0
        <5>1. i = 1 /\ g[i] = s[i]
          BY <2>4, <3>1, <4>1
        <5>2. QED BY <5>1
      <4>2. CASE k # 0
        <5>1. i # 1 /\ i - 1 = k /\ k \in 1 .. k
          BY <3>1, <4>2
        <5>2. g[i] = f[k] \o s[i] /\ g[i - 1] = f[k]
          BY <2>4, <3>1, <4>2, <5>1, Zenon
        <5>3. QED BY <5>1, <5>2, Zenon
      <4>3. QED BY <4>1, <4>2
    <3>2. CASE i # k + 1
      <4>1. i \in 1 .. k /\ (i # 1 => i - 1 \in 1 .. k)
        BY <3>2
      <4>2. g[i] = f[i] /\ (i # 1 => g[i - 1] = f[i - 1])
        BY <2>4, <4>1
      <4>3. f[i] = IF i = 1 THEN s[i] ELSE f[i - 1] \o s[i]
        BY <2>2, <4>1
      <4>4. QED BY <4>2, <4>3, Zenon
    <3>3. QED BY <3>1, <3>2
  <2>6. Concatenates(g, s, k + 1)
    <3>1. k + 1 \in Nat
      OBVIOUS
    <3>2. QED BY <2>4, <2>5, <3>1, ConcatenatesPointwise, Zenon
  <2>7. QED BY <2>6
<1>3. S = Nat
  <2>1. S \in SUBSET Nat
    OBVIOUS
  <2> HIDE DEF S
  <2>2. QED BY <1>1, <1>2, <2>1, SetInduction
<1>4. QED BY <1>3

(* What FlattenSeq computes: the concatenation of the members up to each    *)
(* index, one after the other.                                              *)
FlattensThrough(g, s, n) ==
    /\ FlattenSeq(s) = g[n] /\ g[1] = s[1]
    /\ \A i \in 2 .. n : g[i] = g[i - 1] \o s[i]

(* The parts of a sequence, put together one after the other.               *)
LEMMA FlattenByPrefix ==
    ASSUME NEW s, NEW n \in Nat \ {0}, Len(s) = n
    PROVE  \E g : FlattensThrough(g, s, n)
<1> DEFINE g == CHOOSE f : Concatenates(f, s, n)
<1>1. Concatenates(g, s, n)
  BY ConcatenationExists
<1>2. FlattenSeq(s) = g[n]
  BY DEF FlattenSeq, Concatenates
<1> HIDE DEF g
<1>3. \A i \in 1 .. n : g[i] = IF i = 1 THEN s[i] ELSE g[i - 1] \o s[i]
  BY <1>1 DEF Concatenates
<1>4. 1 \in 1 .. n /\ \A i \in 2 .. n : i \in 1 .. n /\ i # 1
  OBVIOUS
<1>5. g[1] = s[1] /\ \A i \in 2 .. n : g[i] = g[i - 1] \o s[i]
  BY <1>3, <1>4, Zenon
<1>6. QED BY <1>2, <1>5 DEF FlattensThrough

(* A set of sequences that is closed under concatenation has the            *)
(* concatenation of any number of its members (FlattenSeq).                 *)
LEMMA FlattenInClosedSet ==
    ASSUME NEW T, <<>> \in T, \A x, y \in T : x \o y \in T,
           NEW s \in Seq(T)
    PROVE  FlattenSeq(s) \in T
<1> DEFINE n == Len(s)
<1>1. n \in Nat /\ \A i \in 1 .. n : s[i] \in T
  OBVIOUS
<1>2. CASE n = 0
  <2>1. FlattenSeq(s) = s /\ s = <<>>
    BY <1>2 DEF FlattenSeq
  <2>2. QED BY <2>1
<1>3. CASE n # 0
  <2>0. PICK g : FlattensThrough(g, s, n)
    <3>1. n \in Nat \ {0} /\ Len(s) = n
      BY <1>1, <1>3
    <3> HIDE DEF n
    <3>2. QED BY <3>1, FlattenByPrefix
  <2>1. /\ FlattenSeq(s) = g[n] /\ g[1] = s[1]
        /\ \A i \in 2 .. n : g[i] = g[i - 1] \o s[i]
    BY <2>0 DEF FlattensThrough
  <2> HIDE DEF n
  <2> DEFINE S == {k \in Nat : k = 0 \/ k > n \/ g[k] \in T}
  <2>4. 0 \in S
    OBVIOUS
  <2>5. ASSUME NEW k \in Nat, k \in S PROVE k + 1 \in S
    <3>1. CASE k + 1 > n
      BY <3>1
    <3>2. CASE k + 1 <= n
      <4>1. k + 1 \in 1 .. n /\ s[k + 1] \in T
        BY <1>1, <3>2
      <4>2. CASE k = 0
        <5>1. g[k + 1] = s[k + 1]
          BY <2>1, <4>2
        <5>2. QED BY <4>1, <5>1
      <4>3. CASE k # 0
        <5>1. g[k] \in T
          BY <1>1, <2>5, <3>2, <4>3
        <5>2. k + 1 \in 2 .. n /\ (k + 1) - 1 = k
          BY <4>1, <4>3
        <5>3. g[k + 1] = g[k] \o s[k + 1]
          BY <2>1, <5>2, Zenon
        <5>4. g[k + 1] \in T
          BY <4>1, <5>1, <5>3, Zenon
        <5>5. QED BY <5>4
      <4>4. QED BY <4>2, <4>3
    <3>3. QED BY <1>1, <3>1, <3>2
  <2>6. S = Nat
    <3>1. S \in SUBSET Nat
      OBVIOUS
    <3> HIDE DEF S
    <3>2. QED BY <2>4, <2>5, <3>1, SetInduction
  <2>7. g[n] \in T
    BY <1>1, <1>3, <2>6
  <2>8. QED BY <2>1, <2>7
<1>4. QED BY <1>2, <1>3

(* Two parts of a sequence, one after the other.                            *)
LEMMA SubSeqConcat ==
    ASSUME NEW T, NEW s \in Seq(T), NEW a \in Nat, NEW b \in Nat, a <= b, b <= Len(s)
    PROVE  SubSeq(s, 1, a) \o SubSeq(s, a + 1, b) = SubSeq(s, 1, b)
<1> DEFINE x == SubSeq(s, 1, a)
           y == SubSeq(s, a + 1, b)
           z == SubSeq(s, 1, b)
<1>1. x \in Seq(T) /\ Len(x) = a /\ \A i \in 1 .. a : x[i] = s[i]
  OBVIOUS
<1>2. y \in Seq(T) /\ Len(y) = b - a /\ \A i \in 1 .. b - a : y[i] = s[a + i]
  OBVIOUS
<1>3. z \in Seq(T) /\ Len(z) = b /\ \A i \in 1 .. b : z[i] = s[i]
  OBVIOUS
<1> HIDE DEF x, y, z
<1>7. /\ x \o y \in Seq(T) /\ Len(x \o y) = Len(x) + Len(y)
      /\ \A i \in 1 .. Len(x) + Len(y) : (x \o y)[i] = IF i <= Len(x) THEN x[i] ELSE y[i - Len(x)]
  BY <1>1, <1>2, ConcatProperties
<1> DEFINE c == x \o y
<1> HIDE DEF c
<1>4. c \in Seq(T) /\ Len(c) = b /\ \A i \in 1 .. b : c[i] = IF i <= a THEN x[i] ELSE y[i - a]
  BY <1>1, <1>2, <1>7, SMTT(30) DEF c
<1>5. \A i \in 1 .. b : c[i] = s[i]
  <2> TAKE i \in 1 .. b
  <2>1. CASE i <= a
    BY <1>1, <1>4, <2>1
  <2>2. CASE i > a
    <3>1. i - a \in 1 .. b - a /\ a + (i - a) = i
      BY <2>2
    <3>2. c[i] = y[i - a]
      BY <1>4, <2>2
    <3>3. QED BY <1>2, <3>1, <3>2
  <2>3. QED BY <2>1, <2>2
<1>6. QED BY <1>3, <1>4, <1>5 DEF x, y, z, c

(* The parts of a sequence between cuts put it together again.              *)
LEMMA FlattenCuts ==
    ASSUME NEW T, NEW s \in Seq(T), NEW n \in Nat \ {0},
           NEW cut \in [0 .. n -> 0 .. Len(s)], cut[0] = 0, cut[n] = Len(s),
           \A k \in 1 .. n : cut[k - 1] <= cut[k],
           NEW parts, Len(parts) = n,
           \A k \in 1 .. n : parts[k] = SubSeq(s, cut[k - 1] + 1, cut[k])
    PROVE  FlattenSeq(parts) = s
<1>0. PICK g : FlattensThrough(g, parts, n)
  BY FlattenByPrefix
<1>1. /\ FlattenSeq(parts) = g[n] /\ g[1] = parts[1]
      /\ \A i \in 2 .. n : g[i] = g[i - 1] \o parts[i]
  BY <1>0 DEF FlattensThrough
<1> DEFINE S == {k \in Nat : k = 0 \/ k > n \/ g[k] = SubSeq(s, 1, cut[k])}
<1>2. 0 \in S
  OBVIOUS
<1>3. ASSUME NEW k \in Nat, k \in S PROVE k + 1 \in S
  <2>1. CASE k + 1 > n
    BY <2>1
  <2>2. CASE k + 1 <= n
    <3>1. k + 1 \in 1 .. n /\ (k + 1) - 1 = k /\ k \in 0 .. n /\ k + 1 \in 0 .. n
      BY <2>2
    <3>2. parts[k + 1] = SubSeq(s, cut[k] + 1, cut[k + 1]) /\ cut[k] <= cut[k + 1]
      BY <3>1
    <3>3. CASE k = 0
      <4>1. parts[1] = SubSeq(s, 0 + 1, cut[1])
        <5>1. 1 \in 1 .. n /\ 1 - 1 = 0
          OBVIOUS
        <5>2. QED BY <5>1, Zenon
      <4>2. g[k + 1] = SubSeq(s, 1, cut[k + 1])
        BY <1>1, <3>3, <4>1
      <4>3. QED BY <4>2
    <3>4. CASE k # 0
      <4>1. g[k] = SubSeq(s, 1, cut[k])
        <5>1. ~(k > n)
          BY <2>2
        <5>2. QED BY <1>3, <3>4, <5>1, Zenon
      <4>2. k + 1 \in 2 .. n
        BY <3>1, <3>4
      <4>3. g[k + 1] = g[k] \o parts[k + 1]
        BY <1>1, <3>1, <4>2, Zenon
      <4>4. cut[k] \in Nat /\ cut[k + 1] \in Nat /\ cut[k + 1] <= Len(s)
        BY <3>1
      <4>5. SubSeq(s, 1, cut[k]) \o SubSeq(s, cut[k] + 1, cut[k + 1]) = SubSeq(s, 1, cut[k + 1])
        BY <3>2, <4>4, SubSeqConcat
      <4>6. g[k + 1] = SubSeq(s, 1, cut[k + 1])
        BY <3>2, <4>1, <4>3, <4>5, Zenon
      <4>7. QED BY <4>6
    <3>5. QED BY <3>3, <3>4
  <2>3. QED BY <2>1, <2>2
<1>4. S = Nat
  <2>1. S \in SUBSET Nat
    OBVIOUS
  <2> HIDE DEF S
  <2>2. QED BY <1>2, <1>3, <2>1, SetInduction
<1>5. g[n] = SubSeq(s, 1, Len(s))
  <2>1. n \in S /\ n # 0 /\ ~(n > n)
    <3> HIDE DEF S
    <3>1. QED BY <1>4
  <2>2. g[n] = SubSeq(s, 1, cut[n])
    BY <2>1, Zenon
  <2>3. QED BY <2>2
<1>6. SubSeq(s, 1, Len(s)) = s
  OBVIOUS
<1>7. QED BY <1>1, <1>5, <1>6

(* A finite set is listed, each member once.                                *)
LEMMA ListedOnce ==
    ASSUME NEW S, IsFiniteSet(S)
    PROVE  LET list == SetToSeq(S)
           IN  /\ list \in Seq(S) /\ ToSet(list) = S
               /\ \A i, j \in DOMAIN list : list[i] = list[j] => i = j
<1>1. Cardinality(S) \in Nat /\ ExistsBijection(1 .. Cardinality(S), S)
  BY FS_CardinalityType
<1>2. PICK f \in [1 .. Cardinality(S) -> S] : IsInjective(f) /\ \A x \in S : \E i \in 1 .. Cardinality(S) : f[i] = x
  BY <1>1 DEF ExistsBijection, Bijection, Injection, Surjection
<1>3. SetToSeq(S) \in [1 .. Cardinality(S) -> S] /\ IsInjective(SetToSeq(S))
  BY <1>2, Zenon DEF SetToSeq
<1> DEFINE list == SetToSeq(S)
<1>4. list \in Bijection(1 .. Cardinality(S), S)
  <2>1. list \in Injection(1 .. Cardinality(S), S)
    BY <1>3 DEF Injection, IsInjective
  <2>2. IsFiniteSet(S) /\ IsFiniteSet(1 .. Cardinality(S)) /\ Cardinality(1 .. Cardinality(S)) = Cardinality(S)
    BY <1>1, FS_Interval
  <2>3. list \in Surjection(1 .. Cardinality(S), S)
    BY <2>1, <2>2, FS_Injection
  <2>4. QED BY <2>1, <2>3 DEF Bijection
<1> HIDE DEF list
<1>5. list \in [1 .. Cardinality(S) -> S] /\ (\A x \in S : \E i \in 1 .. Cardinality(S) : list[i] = x)
      /\ \A i, j \in 1 .. Cardinality(S) : list[i] = list[j] => i = j
  BY <1>4 DEF Bijection, Injection, Surjection, IsInjective
<1>6. list \in Seq(S) /\ DOMAIN list = 1 .. Cardinality(S)
  BY <1>1, <1>5
<1>7. ToSet(list) = S
  BY <1>5, <1>6 DEF ToSet
<1>8. QED BY <1>5, <1>6, <1>7 DEF list

-----------------------------------------------------------------------------
(* Sums. *)

(* g adds up the weights w of the members of each subset of D.              *)
AddsUp(g, w, D) ==
    g = [s \in SUBSET D |-> IF s = {} THEN 0
                            ELSE LET x == CHOOSE x \in s : TRUE IN w[x] + g[s \ {x}]]

(* The sum is taken by such a function.                                     *)
LEMMA SumAddsUp ==
    ASSUME NEW w PROVE SumFunction(w) = (CHOOSE g : AddsUp(g, w, DOMAIN w))[DOMAIN w]
  BY DEF SumFunction, SumFunctionOnSet, FoldFunctionOnSet, MapThenFoldSet, AddsUp

(* The members of X that are placed in s.                                   *)
Part(X, place, s) == {t \in X : place[t] \in s}

(* Counting the members of X place by place counts X.                       *)
LEMMA SumByPlace ==
    ASSUME NEW D, IsFiniteSet(D), NEW X, IsFiniteSet(X), NEW place, \A t \in X : place[t] \in D,
           NEW w, DOMAIN w = D, \A p \in D : w[p] = Cardinality(Part(X, place, {p}))
    PROVE  SumFunction(w) = Cardinality(X)
<1> DEFINE count(s) == Cardinality(Part(X, place, s))
<1>1. ASSUME NEW s \in SUBSET D
      PROVE  IsFiniteSet(Part(X, place, s)) /\ count(s) \in Nat
  <2>1. Part(X, place, s) \subseteq X
    BY DEF Part
  <2>2. QED BY <2>1, FS_Subset, FS_CardinalityType
<1>2. count({}) = 0
  <2>1. Part(X, place, {}) = {}
    BY DEF Part
  <2>2. QED BY <2>1, FS_EmptySet
<1>3. ASSUME NEW s \in SUBSET D, NEW x \in s
      PROVE  count(s) = w[x] + count(s \ {x})
  <2>1. Part(X, place, s) = Part(X, place, {x}) \cup Part(X, place, s \ {x})
        /\ Part(X, place, {x}) \cap Part(X, place, s \ {x}) = {}
    BY DEF Part
  <2>2. IsFiniteSet(Part(X, place, {x})) /\ IsFiniteSet(Part(X, place, s \ {x}))
        /\ count({x}) \in Nat /\ count(s \ {x}) \in Nat
    BY <1>1
  <2>3. count(s) = count({x}) + count(s \ {x}) - Cardinality(Part(X, place, {x}) \cap Part(X, place, s \ {x}))
    BY <2>1, <2>2, FS_Union
  <2>4. Cardinality(Part(X, place, {x}) \cap Part(X, place, s \ {x})) = 0
    BY <2>1, FS_EmptySet
  <2>5. w[x] = count({x})
    OBVIOUS
  <2> HIDE DEF count
  <2>6. QED BY <2>2, <2>3, <2>4, <2>5
<1> DEFINE good == [s \in SUBSET D |-> count(s)]
<1>4. AddsUp(good, w, D)
  <2>1. ASSUME NEW s \in SUBSET D
        PROVE  good[s] = IF s = {} THEN 0 ELSE LET x == CHOOSE x \in s : TRUE IN w[x] + good[s \ {x}]
    <3>1. CASE s = {}
      BY <1>2, <3>1
    <3>2. CASE s # {}
      <4> DEFINE x == CHOOSE x \in s : TRUE
      <4>1. x \in s
        BY <3>2
      <4> HIDE DEF x
      <4>2. good[s] = count(s) /\ good[s \ {x}] = count(s \ {x})
        OBVIOUS
      <4> HIDE DEF good
      <4>3. good[s] = w[x] + good[s \ {x}]
        BY <1>3, <4>1, <4>2
      <4>4. QED BY <3>2, <4>3 DEF x
    <3>3. QED BY <3>1, <3>2
  <2>2. good = [s \in SUBSET D |-> good[s]]
    OBVIOUS
  <2> HIDE DEF good
  <2>3. QED BY <2>1, <2>2 DEF AddsUp
<1> DEFINE g == CHOOSE g : AddsUp(g, w, D)
<1>5. AddsUp(g, w, D)
  <2> HIDE DEF good
  <2>1. QED BY <1>4
<1> HIDE DEF good, g
<1>6. g[{}] = 0 /\ \A s \in SUBSET D : s # {} => \E x \in s : g[s] = w[x] + g[s \ {x}]
  <2>1. \A s \in SUBSET D : g[s] = IF s = {} THEN 0 ELSE LET x == CHOOSE x \in s : TRUE IN w[x] + g[s \ {x}]
    BY <1>5 DEF AddsUp
  <2>2. QED BY <2>1
<1> DEFINE Bad == {s \in SUBSET D : g[s] # count(s)}
<1>7. Bad = {}
  <2> SUFFICES ASSUME Bad # {} PROVE FALSE
    OBVIOUS
  <2>1. Bad \subseteq FiniteSubsetsOf(D)
    BY FS_Subset DEF FiniteSubsetsOf
  <2>2. PICK T \in Bad : \A U \in Bad : <<U, T>> \notin StrictSubsetOrdering(D)
    <3> HIDE DEF Bad
    <3>1. IsWellFoundedOn(StrictSubsetOrdering(D), FiniteSubsetsOf(D))
      BY FS_StrictSubsetOrderingWellFounded
    <3>2. \E T \in Bad : \A U \in Bad : ~(<<U, T>> \in StrictSubsetOrdering(D))
      BY <2>1, <3>1, WFMin, Zenon
    <3>3. QED BY <3>2, Zenon
  <2>3. T # {} /\ T \in SUBSET D
    BY <1>2, <1>6
  <2>4. PICK x \in T : g[T] = w[x] + g[T \ {x}]
    BY <1>6, <2>3
  <2>5. T \ {x} \in SUBSET D /\ T \ {x} # T
    BY <2>3
  <2>6. <<T \ {x}, T>> \in StrictSubsetOrdering(D)
    BY <2>3, <2>5 DEF StrictSubsetOrdering
  <2>7. g[T \ {x}] = count(T \ {x})
    BY <2>2, <2>5, <2>6
  <2>8. count(T) = w[x] + count(T \ {x})
    BY <1>3, <2>3
  <2>9. g[T] = count(T)
    BY <2>4, <2>7, <2>8
  <2>10. QED BY <2>2, <2>9
<1>8. g[D] = count(D)
  BY <1>7
<1>9. Part(X, place, D) = X
  BY DEF Part
<1>10. QED BY <1>8, <1>9, SumAddsUp DEF g

-----------------------------------------------------------------------------
(* One member more. *)

(* Induction over sequences, member by member.                              *)
LEMMA AppendInduction ==
    ASSUME NEW T, NEW S, <<>> \in S,
           \A t \in Seq(T), c \in T : t \in S => Append(t, c) \in S
    PROVE  Seq(T) \subseteq S
<1> DEFINE N == {n \in Nat : \A t \in Seq(T) : Len(t) = n => t \in S}
<1>1. 0 \in N
  <2>1. \A t \in Seq(T) : Len(t) = 0 => t = <<>>
    BY EmptySeq
  <2>2. QED BY <2>1
<1>2. ASSUME NEW n \in Nat, n \in N PROVE n + 1 \in N
  <2> SUFFICES ASSUME NEW t \in Seq(T), Len(t) = n + 1 PROVE t \in S
    OBVIOUS
  <2>1. PICK u \in Seq(T), c \in T : t = Append(u, c)
    BY SequenceEmptyOrAppend
  <2>2. Len(u) = n
    BY <2>1
  <2>3. QED BY <1>2, <2>1, <2>2
<1>3. N = Nat
  <2>1. N \in SUBSET Nat
    OBVIOUS
  <2> HIDE DEF N
  <2>2. QED BY <1>1, <1>2, <2>1, SetInduction
<1>4. QED BY <1>3

(* Flattening, member by member.                                            *)
LEMMA FlattenNothing == FlattenSeq(<<>>) = <<>>
  BY DEF FlattenSeq

(* One part more is put together last.                                      *)
LEMMA FlattenAppend ==
    ASSUME NEW U, NEW s \in Seq(Seq(U)), NEW x \in Seq(U)
    PROVE  FlattenSeq(Append(s, x)) = FlattenSeq(s) \o x
<1> DEFINE n == Len(s)
           more == Append(s, x)
<1>1. /\ n \in Nat /\ Len(more) = n + 1 /\ more \in Seq(Seq(U)) /\ more[n + 1] = x
      /\ \A i \in 1 .. n : more[i] = s[i] /\ s[i] \in Seq(U)
  OBVIOUS
<1>2. CASE n = 0
  <2>1. s = <<>> /\ more[1] = x /\ Len(more) = 1
    BY <1>1, <1>2, EmptySeq
  <2> HIDE DEF more
  <2>2. FlattenSeq(more) = more[1]
    <3>1. \E g : FlattensThrough(g, more, 1)
      <4>1. 1 \in Nat \ {0} /\ Len(more) = 1
        BY <2>1
      <4>2. QED BY ONLY <4>1, FlattenByPrefix
    <3>2. QED BY <3>1 DEF FlattensThrough
  <2>3. FlattenSeq(s) \o x = x
    BY <2>1, FlattenNothing
  <2>4. QED BY <2>1, <2>2, <2>3 DEF more
<1>3. CASE n # 0
  <2> HIDE DEF n, more
  <2>1. PICK g : FlattensThrough(g, s, n)
    BY <1>1, <1>3, FlattenByPrefix DEF n
  <2>2. PICK h : FlattensThrough(h, more, n + 1)
    <3>1. n + 1 \in Nat \ {0}
      BY <1>1
    <3>2. QED BY <1>1, <3>1, FlattenByPrefix
  <2> DEFINE N == {k \in Nat : k + 1 <= n => h[k + 1] = g[k + 1]}
  <2>3. 0 \in N
    BY <1>1, <1>3, <2>1, <2>2 DEF FlattensThrough
  <2>4. ASSUME NEW k \in Nat, k \in N PROVE k + 1 \in N
    <3> SUFFICES ASSUME k + 2 <= n PROVE h[k + 2] = g[k + 2]
      OBVIOUS
    <3>1. k + 2 \in 2 .. n /\ k + 2 \in 2 .. n + 1 /\ k + 2 \in 1 .. n /\ (k + 2) - 1 = k + 1
      BY <1>1
    <3>2. h[k + 1] = g[k + 1]
      BY <1>1, <2>4
    <3>3. QED BY <1>1, <2>1, <2>2, <3>1, <3>2, ZenonT(60) DEF FlattensThrough
  <2>5. N \in SUBSET Nat
    OBVIOUS
  <2> HIDE DEF N
  <2>6. N = Nat
    BY <2>3, <2>4, <2>5, SetInduction
  <2>7. h[n] = g[n]
    <3>1. n - 1 \in Nat /\ (n - 1) + 1 = n /\ n <= n
      BY <1>1, <1>3
    <3>2. n - 1 \in N
      BY <2>6, <3>1
    <3>3. QED BY <3>1, <3>2 DEF N
  <2>8. h[n + 1] = h[n] \o x
    <3>1. n + 1 \in 2 .. n + 1 /\ (n + 1) - 1 = n
      <4>1. n \in Nat \ {0}
        BY <1>1, <1>3
      <4>2. QED BY ONLY <4>1
    <3>2. QED BY <1>1, <2>2, <3>1 DEF FlattensThrough
  <2>9. QED BY <2>1, <2>2, <2>7, <2>8 DEF more, FlattensThrough
<1>4. QED BY <1>2, <1>3

(* The members of a sequence, and of one with one member more.              *)
LEMMA AppendMembers ==
    ASSUME NEW T, NEW s \in Seq(T), NEW c \in T
    PROVE  ToSet(Append(s, c)) = ToSet(s) \cup {c}
<1>1. /\ DOMAIN Append(s, c) = DOMAIN s \cup {Len(s) + 1}
      /\ Append(s, c)[Len(s) + 1] = c
      /\ \A i \in DOMAIN s : Append(s, c)[i] = s[i]
  OBVIOUS
<1>2. QED BY <1>1 DEF ToSet

(* The members of two sequences.                                            *)
LEMMA ConcatMembers ==
    ASSUME NEW T, NEW s \in Seq(T), NEW t \in Seq(T)
    PROVE  ToSet(s \o t) = ToSet(s) \cup ToSet(t)
<1>1. /\ Len(s) \in Nat /\ Len(t) \in Nat
      /\ DOMAIN s = 1 .. Len(s) /\ DOMAIN t = 1 .. Len(t)
      /\ DOMAIN (s \o t) = 1 .. Len(s) + Len(t)
      /\ \A i \in 1 .. Len(s) + Len(t) :
           (s \o t)[i] = IF i <= Len(s) THEN s[i] ELSE t[i - Len(s)]
  BY ConcatProperties, LenProperties
<1>2. \A i \in DOMAIN s : i \in DOMAIN (s \o t) /\ (s \o t)[i] = s[i]
  BY <1>1
<1>3. \A i \in DOMAIN t : i + Len(s) \in DOMAIN (s \o t) /\ (s \o t)[i + Len(s)] = t[i]
  BY <1>1
<1>4. \A i \in DOMAIN (s \o t) : (s \o t)[i] \in ToSet(s) \cup ToSet(t)
  <2> SUFFICES ASSUME NEW i \in DOMAIN (s \o t) PROVE (s \o t)[i] \in ToSet(s) \cup ToSet(t)
    OBVIOUS
  <2>1. CASE i <= Len(s)
    BY <1>1, <2>1 DEF ToSet
  <2>2. CASE i > Len(s)
    <3>1. i - Len(s) \in DOMAIN t /\ (s \o t)[i] = t[i - Len(s)]
      BY <1>1, <2>2
    <3>2. QED BY <3>1 DEF ToSet
  <2>3. QED BY <1>1, <2>1, <2>2
<1>5. ASSUME NEW x \in ToSet(s) PROVE x \in ToSet(s \o t)
  <2>1. PICK i \in DOMAIN s : x = s[i]
    BY DEF ToSet
  <2>2. QED BY ONLY <1>2, <2>1 DEF ToSet
<1>6. ASSUME NEW x \in ToSet(t) PROVE x \in ToSet(s \o t)
  <2>1. PICK i \in DOMAIN t : x = t[i]
    BY DEF ToSet
  <2>2. QED BY ONLY <1>3, <2>1 DEF ToSet
<1>7. ASSUME NEW x \in ToSet(s \o t) PROVE x \in ToSet(s) \cup ToSet(t)
  <2>1. PICK i \in DOMAIN (s \o t) : x = (s \o t)[i]
    BY DEF ToSet
  <2>2. QED BY ONLY <1>4, <2>1
<1>8. QED BY <1>5, <1>6, <1>7, Zenon

(* A member more, of sequences that are flattened.                          *)
LEMMA FlattenMapAppend ==
    ASSUME NEW T, NEW U, NEW f \in [T -> Seq(U)], NEW v \in Seq(T), NEW w \in T
    PROVE  FlattenSeq([i \in DOMAIN Append(v, w) |-> f[Append(v, w)[i]]])
             = FlattenSeq([i \in DOMAIN v |-> f[v[i]]]) \o f[w]
<1> DEFINE more == Append(v, w)
           a == [i \in DOMAIN v |-> f[v[i]]]
           b == [i \in DOMAIN more |-> f[more[i]]]
<1>1. /\ Len(v) \in Nat /\ DOMAIN v = 1 .. Len(v) /\ \A i \in 1 .. Len(v) : v[i] \in T
      /\ DOMAIN more = 1 .. Len(v) + 1 /\ more[Len(v) + 1] = w
      /\ \A i \in 1 .. Len(v) : more[i] = v[i]
      /\ \A i \in 1 .. Len(v) + 1 : more[i] \in T
  BY LenProperties, AppendProperties
<1> HIDE DEF more
<1>2. a \in Seq(Seq(U)) /\ Len(a) = Len(v) /\ \A i \in 1 .. Len(v) : a[i] = f[v[i]]
  BY <1>1
<1>3. /\ b \in Seq(Seq(U)) /\ Len(b) = Len(v) + 1
      /\ \A i \in 1 .. Len(v) + 1 : b[i] = f[more[i]]
  BY <1>1
<1> HIDE DEF a, b
<1>4. /\ Append(a, f[w]) \in Seq(Seq(U)) /\ Len(Append(a, f[w])) = Len(v) + 1
      /\ \A i \in 1 .. Len(v) : Append(a, f[w])[i] = f[v[i]]
      /\ Append(a, f[w])[Len(v) + 1] = f[w]
  BY <1>2, AppendProperties
<1>5. \A i \in 1 .. Len(v) + 1 : b[i] = Append(a, f[w])[i]
  <2>1. \A i \in 1 .. Len(v) + 1 : i \in 1 .. Len(v) \/ i = Len(v) + 1
    <3>1. Len(v) \in Nat
      BY <1>1
    <3>2. QED BY ONLY <3>1
  <2>2. QED BY <1>1, <1>3, <1>4, <2>1, ZenonT(30)
<1>6. b = Append(a, f[w])
  BY <1>3, <1>4, <1>5, SeqEqual
<1>7. FlattenSeq(Append(a, f[w])) = FlattenSeq(a) \o f[w]
  BY <1>2, FlattenAppend
<1>8. QED BY <1>6, <1>7 DEF a, b, more

-----------------------------------------------------------------------------
(* Finite sets. *)

(* A finite set that is not empty has a member of which f is the largest.   *)
LEMMA Largest ==
    ASSUME NEW P, IsFiniteSet(P), P # {}, NEW f, \A q \in P : f[q] \in Nat
    PROVE  \E m \in P : \A q \in P : f[q] <= f[m]
<1> DEFINE Bad == {T \in SUBSET P : T # {} /\ ~(\E m \in T : \A q \in T : f[q] <= f[m])}
<1> SUFFICES ASSUME Bad # {} PROVE FALSE
  OBVIOUS
<1>1. Bad \subseteq FiniteSubsetsOf(P)
  BY FS_Subset DEF FiniteSubsetsOf
<1>2. PICK T \in Bad : \A U \in Bad : <<U, T>> \notin StrictSubsetOrdering(P)
  <2> HIDE DEF Bad
  <2>1. IsWellFoundedOn(StrictSubsetOrdering(P), FiniteSubsetsOf(P))
    BY FS_StrictSubsetOrderingWellFounded
  <2>2. \E T \in Bad : \A U \in Bad : ~(<<U, T>> \in StrictSubsetOrdering(P))
    BY <1>1, <2>1, WFMin, Zenon
  <2>3. QED BY <2>2, Zenon
<1>3. PICK x \in T : TRUE
  OBVIOUS
<1>4. T \ {x} \notin Bad
  <2>1. T \ {x} \in SUBSET T /\ T \ {x} # T
    BY <1>3
  <2>2. <<T \ {x}, T>> \in StrictSubsetOrdering(P)
    BY <1>3, <2>1 DEF StrictSubsetOrdering
  <2>3. QED BY <1>2, <2>2
<1>5. CASE T \ {x} = {}
  BY <1>3, <1>5
<1>6. CASE T \ {x} # {}
  <2>1. PICK m \in T \ {x} : \A q \in T \ {x} : f[q] <= f[m]
    BY <1>4, <1>6
  <2>2. CASE f[x] <= f[m]
    BY <2>1, <2>2
  <2>3. CASE f[m] <= f[x]
    BY <1>3, <2>1, <2>3
  <2>4. QED BY <1>3, <2>1, <2>2, <2>3
<1>7. QED BY <1>5, <1>6

=============================================================================
