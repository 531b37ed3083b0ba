---------------------------- MODULE MutatorProofs ----------------------------
(***************************************************************************)
(* What a patch does to a pod, for any containers, resources, nodes and    *)
(* pods, and whatever other webhooks add to the pod between two calls.     *)
(***************************************************************************)
EXTENDS Mutator, SequenceTheorems, FiniteSetTheorems, FunctionTheorems, TLAPS

-----------------------------------------------------------------------------
(***************************************************************************)
(* Sums.                                                                   *)
(***************************************************************************)
Units(f, S) == UNION {{x} \X (1 .. f[x]) : x \in S}

LEMMA UnitsOfOne ==
  ASSUME NEW x, NEW n \in Nat
  PROVE  IsFiniteSet({x} \X (1 .. n)) /\ Cardinality({x} \X (1 .. n)) = n
<1>1. IsFiniteSet({x}) /\ Cardinality({x}) = 1
  BY FS_Singleton
<1>2. IsFiniteSet(1 .. n) /\ Cardinality(1 .. n) = n
  BY FS_Interval
<1>3. /\ IsFiniteSet({x} \X (1 .. n))
      /\ Cardinality({x} \X (1 .. n)) = Cardinality({x}) * Cardinality(1 .. n)
  BY <1>1, <1>2, FS_Product
<1>. QED
  BY <1>1, <1>2, <1>3

LEMMA SumType ==
  ASSUME NEW S, IsFiniteSet(S), NEW f, \A x \in S : f[x] \in Nat
  PROVE  IsFiniteSet(Units(f, S)) /\ SumOver(f, S) \in Nat
<1>. DEFINE T == {{x} \X (1 .. f[x]) : x \in S}
            g == [x \in S |-> {x} \X (1 .. f[x])]
<1>1. g \in Surjection(S, T)
  BY Fun_IsSurj
<1>2. IsFiniteSet(T)
  <2>. HIDE DEF T, g
  <2>. QED
    BY <1>1, FS_Surjection
<1>3. \A U \in T : IsFiniteSet(U)
  <2>. SUFFICES ASSUME NEW x \in S PROVE IsFiniteSet({x} \X (1 .. f[x]))
    OBVIOUS
  <2>1. f[x] \in Nat
    OBVIOUS
  <2>. QED
    BY <2>1, UnitsOfOne
<1>4. IsFiniteSet(UNION T)
  <2>. HIDE DEF T
  <2>. QED
    BY <1>2, <1>3, FS_UNION
<1>. QED
  BY <1>4, FS_CardinalityType DEF Units, SumOver

LEMMA SumEmpty ==
  ASSUME NEW f
  PROVE  SumOver(f, {}) = 0
<1>1. UNION {{x} \X (1 .. f[x]) : x \in {}} = {}
  OBVIOUS
<1>. QED
  BY <1>1, FS_EmptySet DEF SumOver

LEMMA SumAdd ==
  ASSUME NEW S, IsFiniteSet(S), NEW f, \A x \in S : f[x] \in Nat,
         NEW y, y \notin S, f[y] \in Nat
  PROVE  SumOver(f, S \union {y}) = SumOver(f, S) + f[y]
<1>. DEFINE Y == {y} \X (1 .. f[y])
<1>1. Units(f, S \union {y}) = Units(f, S) \union Y
  BY DEF Units
<1>2. Units(f, S) \intersect Y = {}
  BY DEF Units
<1>3. IsFiniteSet(Units(f, S)) /\ Cardinality(Units(f, S)) \in Nat
  BY SumType, FS_CardinalityType
<1>4. IsFiniteSet(Y) /\ Cardinality(Y) = f[y]
  BY UnitsOfOne
<1>5. Cardinality(Units(f, S) \union Y) = Cardinality(Units(f, S)) + f[y]
  <2>. HIDE DEF Y
  <2>1. Cardinality(Units(f, S) \union Y)
          = Cardinality(Units(f, S)) + Cardinality(Y) - Cardinality(Units(f, S) \intersect Y)
    BY <1>3, <1>4, FS_Union
  <2>2. Cardinality(Units(f, S) \intersect Y) = 0
    BY <1>2, FS_EmptySet
  <2>. QED
    BY <1>3, <1>4, <2>1, <2>2
<1>. QED
  BY <1>1, <1>5 DEF SumOver, Units

LEMMA SumMonotonic ==
  ASSUME NEW S, IsFiniteSet(S), NEW f, \A x \in S : f[x] \in Nat, NEW T \in SUBSET S
  PROVE  SumOver(f, T) <= SumOver(f, S)
<1>1. Units(f, T) \in SUBSET Units(f, S)
  BY DEF Units
<1>2. IsFiniteSet(Units(f, S))
  BY SumType
<1>. QED
  BY <1>1, <1>2, FS_Subset DEF SumOver, Units

\* No term of a sum is greater than the sum; so a positive one has positive terms only.
LEMMA SumAtLeast ==
  ASSUME NEW S, IsFiniteSet(S), NEW f, \A x \in S : f[x] \in Nat, NEW y \in S
  PROVE  f[y] <= SumOver(f, S)
<1>1. Units(f, {y}) = {y} \X (1 .. f[y])
  BY DEF Units
<1>2. SumOver(f, {y}) = f[y]
  BY <1>1, UnitsOfOne DEF SumOver, Units
<1>3. SumOver(f, {y}) <= SumOver(f, S)
  BY SumMonotonic
<1>. QED
  BY <1>2, <1>3

LEMMA SumPositive ==
  ASSUME NEW S, NEW f, SumOver(f, S) > 0, \A x \in S : f[x] \in Nat
  PROVE  \E x \in S : f[x] > 0
<1>. SUFFICES ASSUME \A x \in S : f[x] = 0 PROVE FALSE
  OBVIOUS
<1>1. UNION {{x} \X (1 .. f[x]) : x \in S} = {}
  <2>1. \A x \in S : {x} \X (1 .. f[x]) = {}
    OBVIOUS
  <2>. QED
    BY <2>1
<1>. QED
  BY <1>1, FS_EmptySet DEF SumOver

-----------------------------------------------------------------------------
(***************************************************************************)
(* Sequences.                                                              *)
(***************************************************************************)
LEMMA PrefixOf ==
  ASSUME NEW S, NEW s \in Seq(S), NEW t \in Seq(S)
  PROVE  IsPrefix(s, t) <=> Len(s) <= Len(t) /\ \A i \in 1 .. Len(s) : s[i] = t[i]
<1>0. Len(s) \in Nat /\ Len(t) \in Nat
  BY LenProperties
<1>1. ASSUME Len(s) <= Len(t)
      PROVE  /\ SubSeq(s, 1, Len(s)) = s
             /\ SubSeq(t, 1, Len(s)) \in Seq(S) /\ Len(SubSeq(t, 1, Len(s))) = Len(s)
             /\ \A i \in 1 .. Len(s) : SubSeq(t, 1, Len(s))[i] = t[i]
  <2>1. SubSeq(s, 1, Len(s)) = s
    BY SubSeqFull
  <2>2. \A i \in 1 .. Len(s) : t[i] \in S
    BY <1>0, <1>1, ElementOfSeq
  <2>. QED
    BY <1>0, <1>1, <2>1, <2>2, SubSeqProperties
<1>2. ASSUME IsPrefix(s, t)
      PROVE  Len(s) <= Len(t) /\ \A i \in 1 .. Len(s) : s[i] = t[i]
  BY <1>1, <1>2 DEF IsPrefix
<1>3. ASSUME Len(s) <= Len(t), \A i \in 1 .. Len(s) : s[i] = t[i]
      PROVE  IsPrefix(s, t)
  <2>1. SubSeq(t, 1, Len(s)) = s
    BY <1>1, <1>3, SeqEqual
  <2>. QED
    BY <1>1, <1>3, <2>1 DEF IsPrefix
<1>. QED
  BY <1>2, <1>3

LEMMA PrefixSelf ==
  ASSUME NEW S, NEW s \in Seq(S)
  PROVE  IsPrefix(s, s)
  BY PrefixOf, LenProperties

LEMMA PrefixConcat ==
  ASSUME NEW S, NEW s \in Seq(S), NEW t \in Seq(S), NEW u \in Seq(S), IsPrefix(s, t)
  PROVE  IsPrefix(s, t \o u)
<1>1. Len(s) \in Nat /\ Len(t) \in Nat /\ Len(u) \in Nat
  BY LenProperties
<1>2. Len(s) <= Len(t) /\ \A i \in 1 .. Len(s) : s[i] = t[i]
  BY PrefixOf
<1>3. /\ t \o u \in Seq(S) /\ Len(t \o u) = Len(t) + Len(u)
      /\ \A i \in 1 .. Len(t) + Len(u) :
           (t \o u)[i] = IF i <= Len(t) THEN t[i] ELSE u[i - Len(t)]
  BY ConcatProperties
<1>4. IsPrefix(s, t \o u)
        <=> Len(s) <= Len(t \o u) /\ \A i \in 1 .. Len(s) : s[i] = (t \o u)[i]
  BY <1>3, PrefixOf
<1>. QED
  BY <1>1, <1>2, <1>3, <1>4

LEMMA InjectiveConcat ==
  ASSUME NEW S, NEW s \in Seq(S), NEW t \in Seq(S), IsInjective(s), IsInjective(t),
         Range(s) \intersect Range(t) = {}
  PROVE  IsInjective(s \o t)
<1>1. /\ Len(s) \in Nat /\ Len(t) \in Nat
      /\ DOMAIN s = 1 .. Len(s) /\ DOMAIN t = 1 .. Len(t)
  BY LenProperties
<1>2. /\ DOMAIN (s \o t) = 1 .. Len(s) + Len(t)
      /\ \A i \in 1 .. Len(s) + Len(t) :
           (s \o t)[i] = IF i <= Len(s) THEN s[i] ELSE t[i - Len(s)]
  BY ConcatProperties, LenProperties
<1>3. \A i \in 1 .. Len(s) : s[i] \in Range(s)
  BY <1>1 DEF Range
<1>4. \A i \in 1 .. Len(t) : t[i] \in Range(t)
  BY <1>1 DEF Range
<1>. SUFFICES ASSUME NEW i \in 1 .. Len(s) + Len(t), NEW j \in 1 .. Len(s) + Len(t),
                     (s \o t)[i] = (s \o t)[j]
              PROVE  i = j
  BY <1>2 DEF IsInjective
<1>5. CASE i <= Len(s) /\ j <= Len(s)
  BY <1>1, <1>2, <1>5 DEF IsInjective
<1>6. CASE i > Len(s) /\ j > Len(s)
  <2>1. i - Len(s) \in DOMAIN t /\ j - Len(s) \in DOMAIN t
    BY <1>1, <1>6
  <2>2. t[i - Len(s)] = t[j - Len(s)]
    BY <1>1, <1>2, <1>6
  <2>3. i - Len(s) = j - Len(s)
    BY <2>1, <2>2 DEF IsInjective
  <2>. QED
    BY <1>1, <2>3
<1>7. CASE i <= Len(s) /\ j > Len(s)
  <2>1. s[i] \in Range(s) /\ t[j - Len(s)] \in Range(t)
    BY <1>1, <1>3, <1>4, <1>7
  <2>. QED
    BY <1>1, <1>2, <1>7, <2>1
<1>8. CASE i > Len(s) /\ j <= Len(s)
  <2>1. s[j] \in Range(s) /\ t[i - Len(s)] \in Range(t)
    BY <1>1, <1>3, <1>4, <1>8
  <2>. QED
    BY <1>1, <1>2, <1>8, <2>1
<1>. QED
  BY <1>1, <1>5, <1>6, <1>7, <1>8

LEMMA FunctionIsSeq ==
  ASSUME NEW S, NEW n \in Nat, NEW f \in [1 .. n -> S]
  PROVE  f \in Seq(S) /\ Len(f) = n
  BY SeqDef

-----------------------------------------------------------------------------
(***************************************************************************)
(* Counts.                                                                 *)
(***************************************************************************)
LEMMA ContainersFinite ==
  ASSUME NEW C \in SUBSET Container
  PROVE  IsFiniteSet(C)
<1>1. IsFiniteSet(Container)
  <2>1. 1 \in Int /\ Containers \in Int
    BY MutatorAssumption
  <2>. QED
    BY <2>1, FS_Interval DEF Container
<1>. QED
  BY <1>1, FS_Subset

LEMMA CountType ==
  ASSUME NEW p, PodSpec(p), NEW c, NEW r
  PROVE  Count(p, c, r) \in Nat
  BY DEF Count, PodSpec

LEMMA TotalType ==
  ASSUME NEW p, PodSpec(p), NEW r, NEW C \in SUBSET Container
  PROVE  /\ Total(p, r, C) \in Nat
         /\ \A c \in C : Count(p, c, r) <= Total(p, r, C)
         /\ Total(p, r, C) > 0 => \E c \in C : Count(p, c, r) > 0
         /\ Total(p, r, C) <= Total(p, r, Container)
<1>. DEFINE f == [c \in Container |-> Count(p, c, r)]
<1>1. \A c \in Container : f[c] \in Nat /\ f[c] = Count(p, c, r)
  BY CountType
<1>2. Total(p, r, C) = SumOver(f, C) /\ Total(p, r, Container) = SumOver(f, Container)
  BY DEF Total
<1>3. IsFiniteSet(C) /\ IsFiniteSet(Container)
  BY ContainersFinite
<1>. HIDE DEF f
<1>4. SumOver(f, C) \in Nat
  BY <1>1, <1>3, SumType
<1>5. \A c \in C : f[c] <= SumOver(f, C)
  BY <1>1, <1>3, SumAtLeast
<1>6. SumOver(f, C) > 0 => \E c \in C : f[c] > 0
  BY <1>1, SumPositive
<1>7. SumOver(f, C) <= SumOver(f, Container)
  BY <1>1, <1>3, SumMonotonic
<1>. QED
  BY <1>1, <1>2, <1>4, <1>5, <1>6, <1>7

\* The devices of the containers before c, of c, and of the ones after it.
LEMMA Offsets ==
  ASSUME NEW p, PodSpec(p), NEW r, NEW c \in Container
  PROVE  /\ Total(p, r, 1 .. c) = Total(p, r, 1 .. c - 1) + Count(p, c, r)
         /\ Total(p, r, 1 .. c) <= Total(p, r, Container)
         /\ \A d \in Container : c < d => Total(p, r, 1 .. c) <= Total(p, r, 1 .. d - 1)
<1>. DEFINE f == [d \in Container |-> Count(p, d, r)]
<1>0. Containers \in Nat /\ Container = 1 .. Containers
  BY MutatorAssumption DEF Container
<1>1. \A d \in Container : f[d] \in Nat /\ f[d] = Count(p, d, r)
  BY CountType
<1>2. \A C : Total(p, r, C) = SumOver(f, C)
  BY DEF Total
<1>3. /\ 1 .. c - 1 \in SUBSET Container /\ 1 .. c \in SUBSET Container
      /\ 1 .. c = (1 .. c - 1) \union {c} /\ c \notin 1 .. c - 1
  BY <1>0
<1>. HIDE DEF f
<1>4. SumOver(f, 1 .. c) = SumOver(f, 1 .. c - 1) + f[c]
  <2>1. IsFiniteSet(1 .. c - 1)
    BY <1>3, ContainersFinite
  <2>2. SumOver(f, (1 .. c - 1) \union {c}) = SumOver(f, 1 .. c - 1) + f[c]
    BY <1>1, <1>3, <2>1, SumAdd
  <2>. QED
    BY <1>3, <2>2
<1>5. SumOver(f, 1 .. c) <= SumOver(f, Container)
  BY <1>1, <1>3, ContainersFinite, SumMonotonic
<1>6. ASSUME NEW d \in Container, c < d
      PROVE  SumOver(f, 1 .. c) <= SumOver(f, 1 .. d - 1)
  <2>1. 1 .. d - 1 \in SUBSET Container /\ 1 .. c \in SUBSET (1 .. d - 1)
    BY <1>0, <1>6
  <2>2. IsFiniteSet(1 .. d - 1)
    BY <2>1, ContainersFinite
  <2>. QED
    BY <1>1, <2>1, <2>2, SumMonotonic
<1>. QED
  BY <1>1, <1>2, <1>4, <1>5, <1>6

-----------------------------------------------------------------------------
(***************************************************************************)
(* Names.                                                                  *)
(***************************************************************************)

\* Appending "-x" often enough makes a name that is free.
LEMMA FreshName ==
  ASSUME NEW s \in Seq(Name), NEW r \in Resource, NEW i \in Nat
  PROVE  LET X == {x \in 0 .. Len(s) : <<r, i, x>> \notin Range(s)}
         IN  Min(X) \in X
<1>. DEFINE X == {x \in 0 .. Len(s) : <<r, i, x>> \notin Range(s)}
            name == [x \in 0 .. Len(s) |-> <<r, i, x>>]
<1>0. Len(s) \in Nat /\ s \in [1 .. Len(s) -> Name] /\ DOMAIN s = 1 .. Len(s)
  BY LenProperties
<1>1. IsFiniteSet(Range(s)) /\ Cardinality(Range(s)) <= Len(s)
  <2>1. s \in Surjection(1 .. Len(s), Range(s))
    BY <1>0, Fun_RangeProperties
  <2>2. IsFiniteSet(1 .. Len(s)) /\ Cardinality(1 .. Len(s)) = Len(s)
    BY <1>0, FS_Interval
  <2>. QED
    BY <2>1, <2>2, FS_Surjection
<1>2. IsFiniteSet(0 .. Len(s)) /\ Cardinality(0 .. Len(s)) = Len(s) + 1
  BY <1>0, FS_Interval
<1>3. X # {}
  <2>. SUFFICES ASSUME X = {} PROVE FALSE
    OBVIOUS
  <2>1. name \in [0 .. Len(s) -> Range(s)]
    OBVIOUS
  <2>2. Cardinality(Range(s)) < Cardinality(0 .. Len(s))
    <3>1. Cardinality(Range(s)) \in Nat
      BY <1>1, FS_CardinalityType
    <3>. QED
      BY <1>0, <1>1, <1>2, <3>1
  <2>3. \E x, y \in 0 .. Len(s) : x # y /\ name[x] = name[y]
    <3>. HIDE DEF name
    <3>. QED
      BY <1>1, <1>2, <2>1, <2>2, FS_PigeonHole
  <2>. QED
    BY <2>3
<1>4. \E x \in X : \A y \in X : x <= y
  <2>1. X \subseteq Nat
    BY <1>0
  <2>2. PICK x \in X : \A y \in X : ~ (<<y, x>> \in OpToRel(<, Nat))
    <3>. HIDE DEF X
    <3>. QED
      BY <1>3, <2>1, NatLessThanWellFounded, WFMin
  <2>3. \A y \in X : ~ (y < x)
    <3>. HIDE DEF X
    <3>. QED
      BY <2>1, <2>2 DEF OpToRel
  <2>4. \A y \in X : x <= y
    <3>. HIDE DEF X
    <3>. QED
      BY <2>1, <2>3
  <2>. QED
    BY <2>4
<1>. HIDE DEF X
<1>5. Min(X) \in X
  BY <1>4 DEF Min
<1>. QED
  BY <1>5 DEF X

LEMMA ClaimNamesType ==
  ASSUME NEW p, PodSpec(p), NEW r \in Resource \union {Pair}
  PROVE  /\ claimNames(p, r) \in Seq(Name)
         /\ Len(claimNames(p, r)) = Total(p, r, Container)
         /\ \A i \in 1 .. Total(p, r, Container) :
              claimNames(p, r)[i][1] = r /\ claimNames(p, r)[i][2] = i
         /\ r # Pair => Range(claimNames(p, r)) \intersect Range(p.claims) = {}
<1>. DEFINE n == Total(p, r, Container)
            X(i) == {x \in 0 .. Len(p.claims) : <<r, i, x>> \notin Range(p.claims)}
<1>0. n \in Nat /\ p.claims \in Seq(Name) /\ Len(p.claims) \in Nat
  BY TotalType, LenProperties DEF PodSpec
<1>1. ASSUME NEW i \in 1 .. n
      PROVE  /\ claimNames(p, r)[i] \in Name
             /\ claimNames(p, r)[i][1] = r /\ claimNames(p, r)[i][2] = i
             /\ r # Pair => claimNames(p, r)[i] \notin Range(p.claims)
  <2>1. CASE r = Pair
    BY <1>0, <2>1 DEF claimNames, Name
  <2>2. CASE r # Pair
    <3>1. claimNames(p, r)[i] = <<r, i, Min(X(i))>>
      BY <2>2 DEF claimNames
    <3>2. Min(X(i)) \in X(i)
      BY <1>0, <2>2, FreshName
    <3>3. Min(X(i)) \in Nat /\ <<r, i, Min(X(i))>> \notin Range(p.claims)
      BY <1>0, <3>2
    <3>. QED
      BY <1>0, <3>1, <3>3 DEF Name
  <2>. QED
    BY <2>1, <2>2
<1>2. claimNames(p, r) \in [1 .. n -> Name]
  <2>1. DOMAIN claimNames(p, r) = 1 .. n /\ claimNames(p, r) = [i \in 1 .. n |-> claimNames(p, r)[i]]
    BY DEF claimNames
  <2>. QED
    BY <1>1, <2>1
<1>3. claimNames(p, r) \in Seq(Name) /\ Len(claimNames(p, r)) = n
  BY <1>0, <1>2, FunctionIsSeq
<1>4. r # Pair => Range(claimNames(p, r)) \intersect Range(p.claims) = {}
  <2>. SUFFICES ASSUME r # Pair, NEW y \in Range(claimNames(p, r)) PROVE y \notin Range(p.claims)
    OBVIOUS
  <2>1. PICK i \in 1 .. n : y = claimNames(p, r)[i]
    BY <1>2 DEF Range
  <2>. QED
    BY <1>1, <2>1
<1>. QED
  BY <1>1, <1>3, <1>4

LEMMA ClaimNamesDiffer ==
  ASSUME NEW p, PodSpec(p), NEW r \in Resource \union {Pair}
  PROVE  /\ IsInjective(claimNames(p, r))
         /\ \A x \in Range(claimNames(p, r)) : x[1] = r
<1>1. DOMAIN claimNames(p, r) = 1 .. Total(p, r, Container)
  BY DEF claimNames
<1>. QED
  BY <1>1, ClaimNamesType DEF IsInjective, Range

\* Containers get references to devices of their own, and to all pairs.
LEMMA ClaimRefsType ==
  ASSUME NEW p, PodSpec(p), NEW r \in Resource \union {Pair}, NEW c \in Container
  PROVE  /\ claimRefs(p, c, r) \in Seq(Name)
         /\ c \in Askers(p, r) => Len(claimRefs(p, c, r)) = AskedBy(p, c)[r]
         /\ Range(claimRefs(p, c, r)) \subseteq Range(claimNames(p, r))
         /\ r # Pair =>
              Range(claimRefs(p, c, r)) =
                {claimNames(p, r)[i] :
                   i \in Total(p, r, 1 .. c - 1) + 1 .. Total(p, r, 1 .. c)}
<1>. DEFINE names == claimNames(p, r)
            n == Total(p, r, Container)
            offset == Total(p, r, 1 .. c - 1)
            k == Count(p, c, r)
<1>0. names \in Seq(Name) /\ Len(names) = n /\ DOMAIN names = 1 .. n
  BY ClaimNamesType, LenProperties
<1>1. CASE r = Pair
  <2>1. claimRefs(p, c, r) = names
    BY <1>1 DEF claimRefs
  <2>2. c \in Askers(p, r) => AskedBy(p, c)[r] = n
    BY <1>1 DEF AskedBy, Asked
  <2>. QED
    BY <1>0, <1>1, <2>1, <2>2
<1>2. CASE r # Pair
  <2>1. claimRefs(p, c, r) = SubSeq(names, offset + 1, offset + k)
    BY <1>2 DEF claimRefs
  <2>2. /\ offset \in Nat /\ k \in Nat /\ offset + k <= n /\ n \in Nat
        /\ Total(p, r, 1 .. c) = offset + k
    <3>1. Containers \in Nat /\ 1 .. c - 1 \in SUBSET Container
      BY MutatorAssumption DEF Container
    <3>. QED
      BY <3>1, CountType, TotalType, Offsets
  <2>3. \A i \in offset + 1 .. offset + k : names[i] \in Name
    <3>. SUFFICES ASSUME NEW i \in offset + 1 .. offset + k PROVE names[i] \in Name
      OBVIOUS
    <3>1. i \in 1 .. Len(names)
      BY <1>0, <2>2
    <3>. QED
      BY <1>0, <3>1, ElementOfSeq
  <2>4. /\ claimRefs(p, c, r) \in Seq(Name) /\ Len(claimRefs(p, c, r)) = k
        /\ \A i \in 1 .. k : claimRefs(p, c, r)[i] = names[offset + i]
    <3>. HIDE DEF names, offset, k
    <3>1. /\ SubSeq(names, offset + 1, offset + k) \in Seq(Name)
          /\ Len(SubSeq(names, offset + 1, offset + k)) =
               IF offset + 1 <= offset + k THEN offset + k - (offset + 1) + 1 ELSE 0
          /\ \A i \in 1 .. offset + k - (offset + 1) + 1 :
               SubSeq(names, offset + 1, offset + k)[i] = names[offset + 1 + i - 1]
      BY <2>2, <2>3, SubSeqProperties
    <3>2. /\ k = (IF offset + 1 <= offset + k THEN offset + k - (offset + 1) + 1 ELSE 0)
          /\ k = offset + k - (offset + 1) + 1
          /\ \A i \in 1 .. k : offset + 1 + i - 1 = offset + i
      BY <2>2
    <3>. QED
      BY <2>1, <3>1, <3>2
  <2>5. DOMAIN claimRefs(p, c, r) = 1 .. k
    BY <2>4, LenProperties
  <2>6. Range(claimRefs(p, c, r)) = {names[i] : i \in offset + 1 .. offset + k}
    <3>1. ASSUME NEW x \in Range(claimRefs(p, c, r))
          PROVE  x \in {names[i] : i \in offset + 1 .. offset + k}
      <4>1. PICK i \in 1 .. k : x = claimRefs(p, c, r)[i]
        BY <2>5 DEF Range
      <4>2. offset + i \in offset + 1 .. offset + k /\ x = names[offset + i]
        BY <2>2, <2>4, <4>1
      <4>. QED
        BY <4>2
    <3>2. ASSUME NEW i \in offset + 1 .. offset + k
          PROVE  names[i] \in Range(claimRefs(p, c, r))
      <4>1. i - offset \in 1 .. k /\ offset + (i - offset) = i
        BY <2>2
      <4>2. claimRefs(p, c, r)[i - offset] = names[i]
        BY <2>4, <4>1
      <4>. QED
        BY <2>5, <4>1, <4>2 DEF Range
    <3>. QED
      BY <3>1, <3>2
  <2>7. Range(claimRefs(p, c, r)) \subseteq Range(names)
    <3>1. offset + 1 .. offset + k \subseteq 1 .. n
      BY <2>2
    <3>. QED
      BY <1>0, <2>6, <3>1 DEF Range
  <2>8. c \in Askers(p, r) => AskedBy(p, c)[r] = k
    BY <1>2 DEF AskedBy
  <2>. QED
    BY <2>2, <2>4, <2>6, <2>7, <2>8
<1>. QED
  BY <1>1, <1>2

-----------------------------------------------------------------------------
(***************************************************************************)
(* The inductive invariant.                                                *)
(***************************************************************************)

\* Claims and references come from the pod's own claims, none of them for pairs.
OwnNames(p) ==
  /\ IsInjective(p.claims)
  /\ \A c \in Container : Range(p.refs[c]) \subseteq Range(p.claims)
  /\ \A x \in Range(p.claims) : x[1] # Pair

\* What replacing the resources R does to the pod p: requests and limits go, ...
Gone(p, R) == UNION {Askers(p, r) \X {r} : r \in R}

Unasked(p, R, d) ==
  /\ DOMAIN d.requests = DOMAIN p.requests \ Gone(p, R)
  /\ d.limits = p.limits \ Gone(p, R)

\* ... claims and references follow those there were, as many as asked for, ...
Extended(p, R, d) ==
  /\ IsPrefix(p.claims, d.claims)
  /\ Len(d.claims) = Len(p.claims) + SumOver(Asked(p), R)
  /\ \A c \in Container :
       /\ IsPrefix(p.refs[c], d.refs[c])
       /\ Len(d.refs[c]) = Len(p.refs[c]) + SumOver(AskedBy(p, c), R)

\* ... with these names.
NewClaims(p, R) == UNION {Range(claimNames(p, r)) : r \in R}
NewRefs(p, R, c) == UNION {Range(claimRefs(p, c, r)) : r \in {s \in R : c \in Askers(p, s)}}

Named(p, R, d) ==
  /\ Range(d.claims) = Range(p.claims) \union NewClaims(p, R)
  /\ \A c \in Container : Range(d.refs[c]) = Range(p.refs[c]) \union NewRefs(p, R, c)
  /\ OwnNames(p) => IsInjective(d.claims)

\* A mutation under way.
Drafting ==
  phase = "patching" =>
    LET converted == Converts(draft.by, pod)
        done == converted \ draft.todo
    IN  /\ draft = [by |-> draft.by, node |-> draft.node, todo |-> draft.todo,
                    pod |-> draft.pod, firstPodClaim |-> draft.firstPodClaim,
                    refAdded |-> draft.refAdded]
        /\ draft.by \in Active /\ ~pod.mutated
        /\ converted # {} /\ draft.todo \subseteq converted
        /\ draft.node \in matchesNodeAffinity(pod)
        /\ PodSpec(draft.pod) /\ draft.pod.labeled = pod.labeled
        /\ draft.firstPodClaim => draft.pod.claims = pod.claims
        /\ \A c \in Container : c \notin draft.refAdded => draft.pod.refs[c] = pod.refs[c]
        /\ Unasked(pod, done, draft.pod)
        /\ Extended(pod, done, draft.pod)
        /\ Named(pod, done, draft.pod)

\* A mutation that is done.
Drafted ==
  patched # NotPatched =>
    LET converted == Converts(patched.by, patched.before)
    IN  Extended(patched.before, converted, pod) /\ Named(patched.before, converted, pod)

\* Requests are added late only to pods that are mutated already.
NoneLate == ~pod.mutated => late = {} /\ patched = NotPatched

IInv == TypeOK /\ Drafting /\ Drafted /\ NoneLate /\ Stripped /\ PinnedToNode

-----------------------------------------------------------------------------
(***************************************************************************)
(* A round of the loop.                                                    *)
(***************************************************************************)
LEMMA ConvertsType ==
  ASSUME NEW p, NEW e
  PROVE  Converts(e, p) \subseteq Resource \union {Pair} /\ IsFiniteSet(Converts(e, p))
<1>1. Converts(e, p) \subseteq Resource \union {Pair}
  BY DEF Converts, extractInterceptedResources
<1>2. IsFiniteSet(Resource \union {Pair})
  BY MutatorAssumption, FS_AddElement
<1>. QED
  BY <1>1, <1>2, FS_Subset

LEMMA AskedType ==
  ASSUME NEW p, PodSpec(p), NEW r \in Resource \union {Pair}
  PROVE  /\ Asked(p)[r] = Total(p, r, Container) /\ Asked(p)[r] \in Nat
         /\ \A c \in Container :
              /\ AskedBy(p, c)[r] \in Nat
              /\ c \notin Askers(p, r) => AskedBy(p, c)[r] = 0
<1>1. Asked(p)[r] = Total(p, r, Container) /\ Asked(p)[r] \in Nat
  BY TotalType DEF Asked
<1>2. ASSUME NEW c \in Container
      PROVE  AskedBy(p, c)[r] \in Nat /\ (c \notin Askers(p, r) => AskedBy(p, c)[r] = 0)
  BY <1>1, CountType DEF AskedBy
<1>. QED
  BY <1>1, <1>2

\* The pod d to which replacing R has led, and e, to which replacing r leads from there.
Round(p, R, r, d, e) ==
  /\ e.requests = Restrict(d.requests, DOMAIN d.requests \ (Askers(p, r) \X {r}))
  /\ e.limits = d.limits \ (Askers(p, r) \X {r})
  /\ e.claims = d.claims \o claimNames(p, r)
  /\ e.refs = [c \in Container |->
       IF c \in Askers(p, r) THEN d.refs[c] \o claimRefs(p, c, r) ELSE d.refs[c]]

LEMMA RoundUnasked ==
  ASSUME NEW p, NEW R, NEW r, NEW d, NEW e, Round(p, R, r, d, e), Unasked(p, R, d)
  PROVE  Unasked(p, R \union {r}, e)
<1>1. Gone(p, R \union {r}) = Gone(p, R) \union (Askers(p, r) \X {r})
  BY DEF Gone
<1>2. DOMAIN e.requests = DOMAIN d.requests \ (Askers(p, r) \X {r})
  BY DEF Round, Restrict
<1>. QED
  BY <1>1, <1>2 DEF Unasked, Round

LEMMA RoundExtended ==
  ASSUME NEW p, PodSpec(p), NEW d, PodSpec(d), NEW e,
         NEW R \in SUBSET (Resource \union {Pair}), NEW r \in (Resource \union {Pair}) \ R,
         Round(p, R, r, d, e), Extended(p, R, d)
  PROVE  /\ e.claims \in Seq(Name) /\ e.refs \in [Container -> Seq(Name)]
         /\ Extended(p, R \union {r}, e)
<1>1. IsFiniteSet(R)
  BY MutatorAssumption, FS_AddElement, FS_Subset
<1>2. /\ p.claims \in Seq(Name) /\ d.claims \in Seq(Name) /\ claimNames(p, r) \in Seq(Name)
      /\ Len(claimNames(p, r)) = Asked(p)[r]
  <2>1. claimNames(p, r) \in Seq(Name) /\ Len(claimNames(p, r)) = Total(p, r, Container)
    BY ClaimNamesType
  <2>2. Asked(p)[r] = Total(p, r, Container)
    BY AskedType
  <2>. QED
    BY <2>1, <2>2 DEF PodSpec
<1>3. e.claims \in Seq(Name) /\ Len(e.claims) = Len(d.claims) + Asked(p)[r]
  BY <1>2, ConcatProperties DEF Round
<1>4. IsPrefix(p.claims, e.claims)
  BY <1>2, PrefixConcat DEF Round, Extended
<1>5. Len(e.claims) = Len(p.claims) + SumOver(Asked(p), R \union {r})
  <2>1. SumOver(Asked(p), R \union {r}) = SumOver(Asked(p), R) + Asked(p)[r]
    BY <1>1, AskedType, SumAdd
  <2>2. /\ Len(d.claims) = Len(p.claims) + SumOver(Asked(p), R)
        /\ Len(p.claims) \in Nat /\ SumOver(Asked(p), R) \in Nat /\ Asked(p)[r] \in Nat
    BY <1>1, <1>2, AskedType, SumType, LenProperties DEF Extended
  <2>. QED
    BY <1>3, <2>1, <2>2
<1>6. ASSUME NEW c \in Container
      PROVE  /\ e.refs[c] \in Seq(Name) /\ IsPrefix(p.refs[c], e.refs[c])
             /\ Len(e.refs[c]) = Len(p.refs[c]) + SumOver(AskedBy(p, c), R \union {r})
  <2>1. /\ p.refs[c] \in Seq(Name) /\ d.refs[c] \in Seq(Name)
        /\ IsPrefix(p.refs[c], d.refs[c])
        /\ Len(d.refs[c]) = Len(p.refs[c]) + SumOver(AskedBy(p, c), R)
    BY DEF PodSpec, Extended
  <2>2. /\ Len(p.refs[c]) \in Nat /\ AskedBy(p, c)[r] \in Nat
        /\ SumOver(AskedBy(p, c), R) \in Nat
        /\ SumOver(AskedBy(p, c), R \union {r}) = SumOver(AskedBy(p, c), R) + AskedBy(p, c)[r]
    <3>1. /\ \A s \in R : AskedBy(p, c)[s] \in Nat
          /\ AskedBy(p, c)[r] \in Nat
      BY AskedType
    <3>2. SumOver(AskedBy(p, c), R) \in Nat
      BY <1>1, <3>1, SumType
    <3>3. SumOver(AskedBy(p, c), R \union {r}) = SumOver(AskedBy(p, c), R) + AskedBy(p, c)[r]
      BY <1>1, <3>1, SumAdd
    <3>4. Len(p.refs[c]) \in Nat
      BY <2>1, LenProperties
    <3>. QED
      BY <3>1, <3>2, <3>3, <3>4
  <2>3. CASE c \in Askers(p, r)
    <3>1. e.refs[c] = d.refs[c] \o claimRefs(p, c, r)
      BY <2>3 DEF Round
    <3>2. claimRefs(p, c, r) \in Seq(Name) /\ Len(claimRefs(p, c, r)) = AskedBy(p, c)[r]
      BY <2>3, ClaimRefsType
    <3>3. e.refs[c] \in Seq(Name) /\ Len(e.refs[c]) = Len(d.refs[c]) + AskedBy(p, c)[r]
      <4>1. /\ d.refs[c] \o claimRefs(p, c, r) \in Seq(Name)
            /\ Len(d.refs[c] \o claimRefs(p, c, r)) = Len(d.refs[c]) + Len(claimRefs(p, c, r))
        BY <2>1, <3>2, ConcatProperties
      <4>. QED
        BY <3>1, <3>2, <4>1
    <3>4. IsPrefix(p.refs[c], e.refs[c])
      BY <2>1, <3>1, <3>2, PrefixConcat
    <3>. QED
      BY <2>1, <2>2, <3>3, <3>4
  <2>4. CASE c \notin Askers(p, r)
    <3>1. e.refs[c] = d.refs[c] /\ AskedBy(p, c)[r] = 0
      BY <2>4, AskedType DEF Round
    <3>. QED
      BY <2>1, <2>2, <3>1
  <2>. QED
    BY <2>3, <2>4
<1>7. e.refs \in [Container -> Seq(Name)]
  BY <1>6 DEF Round
<1>. QED
  BY <1>3, <1>4, <1>5, <1>6, <1>7 DEF Extended

LEMMA RoundNamed ==
  ASSUME NEW p, PodSpec(p), NEW d, PodSpec(d), NEW e,
         NEW R \in SUBSET (Resource \union {Pair}), NEW r \in (Resource \union {Pair}) \ R,
         Round(p, R, r, d, e), Named(p, R, d)
  PROVE  Named(p, R \union {r}, e)
<1>1. /\ d.claims \in Seq(Name) /\ claimNames(p, r) \in Seq(Name)
      /\ e.claims = d.claims \o claimNames(p, r)
  BY ClaimNamesType DEF PodSpec, Round
<1>2. Range(e.claims) = Range(p.claims) \union NewClaims(p, R \union {r})
  <2>1. Range(e.claims) = Range(d.claims) \union Range(claimNames(p, r))
    BY <1>1, RangeConcatenation
  <2>2. NewClaims(p, R \union {r}) = NewClaims(p, R) \union Range(claimNames(p, r))
    BY DEF NewClaims
  <2>. QED
    BY <2>1, <2>2 DEF Named
<1>3. ASSUME NEW c \in Container
      PROVE  Range(e.refs[c]) = Range(p.refs[c]) \union NewRefs(p, R \union {r}, c)
  <2>1. Range(d.refs[c]) = Range(p.refs[c]) \union NewRefs(p, R, c)
    BY DEF Named
  <2>2. CASE c \in Askers(p, r)
    <3>1. e.refs[c] = d.refs[c] \o claimRefs(p, c, r)
      BY <2>2 DEF Round
    <3>2. d.refs[c] \in Seq(Name) /\ claimRefs(p, c, r) \in Seq(Name)
      BY ClaimRefsType DEF PodSpec
    <3>3. Range(e.refs[c]) = Range(d.refs[c]) \union Range(claimRefs(p, c, r))
      BY <3>1, <3>2, RangeConcatenation
    <3>4. NewRefs(p, R \union {r}, c) = NewRefs(p, R, c) \union Range(claimRefs(p, c, r))
      BY <2>2 DEF NewRefs
    <3>. QED
      BY <2>1, <3>3, <3>4
  <2>3. CASE c \notin Askers(p, r)
    <3>1. e.refs[c] = d.refs[c]
      BY <2>3 DEF Round
    <3>2. NewRefs(p, R \union {r}, c) = NewRefs(p, R, c)
      BY <2>3 DEF NewRefs
    <3>. QED
      BY <2>1, <3>1, <3>2
  <2>. QED
    BY <2>2, <2>3
<1>4. ASSUME OwnNames(p)
      PROVE  IsInjective(e.claims)
  <2>1. IsInjective(d.claims) /\ IsInjective(claimNames(p, r))
    BY <1>4, ClaimNamesDiffer DEF Named
  <2>2. Range(d.claims) \intersect Range(claimNames(p, r)) = {}
    <3>. SUFFICES ASSUME NEW x \in Range(d.claims) \intersect Range(claimNames(p, r)) PROVE FALSE
      OBVIOUS
    <3>1. x[1] = r
      BY ClaimNamesDiffer
    <3>2. CASE x \in Range(p.claims)
      <4>1. r = Pair
        BY <3>2, ClaimNamesType
      <4>. QED
        BY <1>4, <3>1, <3>2, <4>1 DEF OwnNames
    <3>3. CASE x \in NewClaims(p, R)
      <4>1. PICK s \in R : x \in Range(claimNames(p, s))
        BY <3>3 DEF NewClaims
      <4>2. x[1] = s
        BY <4>1, ClaimNamesDiffer
      <4>. QED
        BY <3>1, <4>2
    <3>. QED
      BY <3>2, <3>3 DEF Named
  <2>. QED
    BY <1>1, <2>1, <2>2, InjectiveConcat
<1>. QED
  BY <1>2, <1>3, <1>4 DEF Named

-----------------------------------------------------------------------------
(***************************************************************************)
(* The pin.                                                                *)
(***************************************************************************)
LEMMA NodesType ==
  ASSUME NEW p, PodSpec(p)
  PROVE  matchesNodeAffinity(p) \subseteq Node
<1>1. CASE p.terms = <<>>
  BY <1>1 DEF matchesNodeAffinity
<1>2. CASE p.terms # <<>>
  <2>1. Range(p.terms) \in SUBSET Term
    BY RangeOfSeq DEF PodSpec
  <2>. QED
    BY <1>2, <2>1 DEF matchesNodeAffinity, TermNodes, Term
<1>. QED
  BY <1>1, <1>2

LEMMA Pinned ==
  ASSUME NEW p, PodSpec(p), NEW n \in matchesNodeAffinity(p), NEW q,
         q.terms = buildNodeAffinityPatch(p, n)
  PROVE  q.terms \in Seq(Term) /\ matchesNodeAffinity(q) = {n}
<1>0. n \in Node /\ PinTerm(n) \in Term
  BY NodesType DEF PinTerm, Term
<1>1. CASE p.terms = <<>>
  <2>1. q.terms = <<PinTerm(n)>>
    BY <1>1 DEF buildNodeAffinityPatch
  <2>2. Range(q.terms) = {PinTerm(n)}
    BY <2>1 DEF Range
  <2>3. matchesNodeAffinity(q) = TermNodes(PinTerm(n))
    <3>1. q.terms # <<>>
      BY <2>1
    <3>. QED
      BY <2>2, <3>1 DEF matchesNodeAffinity
  <2>. QED
    BY <1>0, <2>1, <2>3 DEF TermNodes, PinTerm
<1>2. CASE p.terms # <<>>
  <2>1. /\ p.terms \in Seq(Term) /\ Len(p.terms) \in Nat /\ Len(p.terms) # 0
        /\ DOMAIN p.terms = 1 .. Len(p.terms)
    BY <1>2, LenProperties, EmptySeq DEF PodSpec
  <2>. DEFINE t(i) == [p.terms[i] EXCEPT !.fields = @ \intersect {n}]
  <2>2. q.terms = [i \in 1 .. Len(p.terms) |-> t(i)]
    BY <1>2, <2>1 DEF buildNodeAffinityPatch
  <2>3. ASSUME NEW i \in 1 .. Len(p.terms)
        PROVE  t(i) \in Term /\ TermNodes(t(i)) = TermNodes(p.terms[i]) \intersect {n}
    <3>1. p.terms[i] \in Term
      BY <2>1, ElementOfSeq
    <3>. QED
      BY <3>1 DEF Term, TermNodes
  <2>. HIDE DEF t
  <2>4. q.terms \in [1 .. Len(p.terms) -> Term]
    BY <2>2, <2>3
  <2>5. q.terms \in Seq(Term) /\ Len(q.terms) = Len(p.terms)
    BY <2>1, <2>4, FunctionIsSeq
  <2>6. q.terms # <<>>
    BY <2>1, <2>5, EmptySeq
  <2>7. Range(q.terms) = {t(i) : i \in 1 .. Len(p.terms)}
    BY <2>2 DEF Range
  <2>8. Range(p.terms) = {p.terms[i] : i \in 1 .. Len(p.terms)}
    BY <2>1 DEF Range
  <2>9. matchesNodeAffinity(q) = UNION {TermNodes(u) : u \in Range(q.terms)}
    BY <2>6 DEF matchesNodeAffinity
  <2>10. matchesNodeAffinity(p) = UNION {TermNodes(u) : u \in Range(p.terms)}
    BY <1>2 DEF matchesNodeAffinity
  <2>11. matchesNodeAffinity(q) \subseteq {n}
    <3>. SUFFICES ASSUME NEW i \in 1 .. Len(p.terms), NEW x \in TermNodes(t(i)) PROVE x = n
      BY <2>7, <2>9
    <3>. QED
      BY <2>3
  <2>12. n \in matchesNodeAffinity(q)
    <3>1. PICK i \in 1 .. Len(p.terms) : n \in TermNodes(p.terms[i])
      BY <2>8, <2>10
    <3>2. n \in TermNodes(t(i))
      BY <2>3, <3>1
    <3>. QED
      BY <2>7, <2>9, <3>1, <3>2
  <2>. QED
    BY <2>5, <2>11, <2>12
<1>. QED
  BY <1>1, <1>2

-----------------------------------------------------------------------------
(***************************************************************************)
(* The steps.                                                              *)
(***************************************************************************)
LEMMA InitIInv ==
  Init => IInv
<1>. SUFFICES ASSUME Init PROVE IInv
  OBVIOUS
<1>1. PodSpec(pod)
  BY MutatorAssumption DEF Init
<1>2. TypeOK
  BY <1>1 DEF Init, TypeOK
<1>. QED
  BY <1>2 DEF Init, IInv, Drafting, Drafted, NoneLate, Stripped, PinnedToNode

LEMMA CalledType ==
  ASSUME TypeOK, NEW e \in Endpoints, Called(e)
  PROVE  calls' \in [Endpoints -> 0 .. 2] /\ e \in Active /\ phase = "admission"
  BY DEF TypeOK, Called, Due

\* Steps that touch neither the pod nor its patch, and begin none.
LEMMA KeepIInv ==
  ASSUME IInv, UNCHANGED <<pod, patched, late>>, calls' \in [Endpoints -> 0 .. 2],
         stale' \subseteq stale, phase' \in {"admission", "stored", "denied", "failed"}
  PROVE  IInv'
<1>1. TypeOK'
  BY DEF IInv, TypeOK, Active
<1>2. Drafting'
  BY DEF Drafting
<1>3. Drafted' /\ NoneLate'
  BY DEF IInv, Drafted, NoneLate
<1>4. Stripped' /\ PinnedToNode'
  BY DEF IInv, Stripped, PinnedToNode
<1>. QED
  BY <1>1, <1>2, <1>3, <1>4 DEF IInv

LEMMA MutateIInv ==
  ASSUME IInv, NEW e \in Endpoints, Mutate(e)
  PROVE  IInv'
<1>0. /\ calls' \in [Endpoints -> 0 .. 2] /\ e \in Active
      /\ UNCHANGED <<pod, stale, patched, late>> /\ phase' = "patching"
  BY CalledType DEF IInv, Mutate
<1>1. TypeOK'
  BY <1>0 DEF IInv, TypeOK, Active
<1>2. PICK n \in matchesNodeAffinity(pod) :
        draft' = [by |-> e, node |-> n, todo |-> Converts(e, pod), pod |-> pod,
                  firstPodClaim |-> TRUE, refAdded |-> {}]
  BY DEF Mutate
<1>3. Drafting'
  <2>0. PodSpec(pod) /\ ~pod.mutated /\ Converts(e, pod) # {}
    BY DEF IInv, TypeOK, Mutate
  <2>1. Unasked(pod, {}, pod)
    BY DEF Unasked, Gone
  <2>2. Extended(pod, {}, pod)
    <3>1. \A f : SumOver(f, {}) = 0
      BY SumEmpty
    <3>2. pod.claims \in Seq(Name) /\ \A c \in Container : pod.refs[c] \in Seq(Name)
      BY <2>0 DEF PodSpec
    <3>3. IsPrefix(pod.claims, pod.claims) /\ Len(pod.claims) \in Nat
      BY <3>2, PrefixSelf, LenProperties
    <3>4. \A c \in Container : IsPrefix(pod.refs[c], pod.refs[c]) /\ Len(pod.refs[c]) \in Nat
      BY <3>2, PrefixSelf, LenProperties
    <3>. QED
      BY <3>1, <3>3, <3>4 DEF Extended
  <2>3. Named(pod, {}, pod)
    BY DEF Named, NewClaims, NewRefs, OwnNames
  <2>4. Converts(e, pod) \ Converts(e, pod) = {}
    OBVIOUS
  <2>. DEFINE D == draft'
  <2>5. /\ D.by = e /\ D.node = n /\ D.todo = Converts(e, pod) /\ D.pod = pod
        /\ D.firstPodClaim = TRUE /\ D.refAdded = {}
    BY <1>2
  <2>6. pod' = pod /\ Active' = Active
    BY <1>0 DEF Active
  <2>7. LET converted == Converts(D.by, pod)
            done == converted \ D.todo
        IN  /\ D = [by |-> D.by, node |-> D.node, todo |-> D.todo, pod |-> D.pod,
                    firstPodClaim |-> D.firstPodClaim, refAdded |-> D.refAdded]
            /\ D.by \in Active /\ ~pod.mutated
            /\ converted # {} /\ D.todo \subseteq converted
            /\ D.node \in matchesNodeAffinity(pod)
            /\ PodSpec(D.pod) /\ D.pod.labeled = pod.labeled
            /\ D.firstPodClaim => D.pod.claims = pod.claims
            /\ \A c \in Container : c \notin D.refAdded => D.pod.refs[c] = pod.refs[c]
            /\ Unasked(pod, done, D.pod)
            /\ Extended(pod, done, D.pod)
            /\ Named(pod, done, D.pod)
    BY <1>0, <1>2, <2>0, <2>1, <2>2, <2>3, <2>4, <2>5
  <2>. QED
    BY <2>6, <2>7 DEF Drafting
<1>4. Drafted' /\ NoneLate' /\ Stripped' /\ PinnedToNode'
  BY <1>0 DEF IInv, Drafted, NoneLate, Stripped, PinnedToNode
<1>. QED
  BY <1>1, <1>3, <1>4 DEF IInv

LEMMA ReplaceIInv ==
  ASSUME IInv, NEW r \in Resource \union {Pair}, Replace(r)
  PROVE  IInv'
<1>. DEFINE d == draft.pod
            E == draft'
            e == E.pod
            C == Askers(pod, r)
            converted == Converts(draft.by, pod)
            done == converted \ draft.todo
            removed == buildResourceRemovalPatches(d, C, r)
            claimed == buildPodClaimPatches(pod, removed, claimNames(pod, r), draft.firstPodClaim)
            refs(c) == buildContainerClaimRefPatches(pod, claimed, c, claimRefs(pod, c, r),
                                                     c \notin draft.refAdded)
<1>0. phase = "patching" /\ r \in draft.todo /\ UNCHANGED <<pod, calls, stale, phase, patched, late>>
  BY DEF Replace
<1>1. PodSpec(pod) /\ PodSpec(d)
  BY <1>0 DEF IInv, TypeOK, Drafting
<1>2. /\ draft = [by |-> draft.by, node |-> draft.node, todo |-> draft.todo,
                  pod |-> d, firstPodClaim |-> draft.firstPodClaim,
                  refAdded |-> draft.refAdded]
      /\ draft.by \in Active /\ ~pod.mutated
      /\ converted # {} /\ draft.todo \subseteq converted
      /\ draft.node \in matchesNodeAffinity(pod)
      /\ d.labeled = pod.labeled
      /\ draft.firstPodClaim => d.claims = pod.claims
      /\ \A c \in Container : c \notin draft.refAdded => d.refs[c] = pod.refs[c]
      /\ Unasked(pod, done, d) /\ Extended(pod, done, d) /\ Named(pod, done, d)
  BY <1>0 DEF IInv, Drafting
<1>3. E = [draft EXCEPT
             !.todo = @ \ {r},
             !.pod = [claimed EXCEPT !.refs =
                        [c \in Container |-> IF c \in C THEN refs(c) ELSE @[c]]],
             !.firstPodClaim = FALSE,
             !.refAdded = @ \union C]
  BY DEF Replace
<1>4. /\ E = [by |-> draft.by, node |-> draft.node, todo |-> draft.todo \ {r}, pod |-> e,
              firstPodClaim |-> FALSE, refAdded |-> draft.refAdded \union C]
      /\ e = [claimed EXCEPT !.refs =
                [c \in Container |-> IF c \in C THEN refs(c) ELSE @[c]]]
  <2>. HIDE DEF E, claimed, C, refs
  <2>. QED
    BY <1>2, <1>3
<1>6. claimNames(pod, r) \in Seq(Name) /\ \A c \in Container : claimRefs(pod, c, r) \in Seq(Name)
  BY <1>1, ClaimNamesType, ClaimRefsType
<1>7. claimed = [labeled |-> d.labeled,
                 requests |-> Restrict(d.requests, DOMAIN d.requests \ (C \X {r})),
                 limits |-> d.limits \ (C \X {r}),
                 terms |-> d.terms, claims |-> d.claims \o claimNames(pod, r),
                 refs |-> d.refs, mutated |-> d.mutated]
  <2>. DEFINE rq == Restrict(d.requests, DOMAIN d.requests \ (C \X {r}))
              lm == d.limits \ (C \X {r})
              cl == d.claims \o claimNames(pod, r)
  <2>1. claimed = [removed EXCEPT !.claims =
                     IF pod.claims = <<>> /\ draft.firstPodClaim
                     THEN claimNames(pod, r) ELSE removed.claims \o claimNames(pod, r)]
    BY DEF buildPodClaimPatches
  <2>2. removed = [d EXCEPT !.requests = rq, !.limits = lm] /\ removed.claims = d.claims
    <3>1. removed = [d EXCEPT !.requests = rq, !.limits = lm]
      BY DEF buildResourceRemovalPatches
    <3>2. d = [labeled |-> d.labeled, requests |-> d.requests, limits |-> d.limits,
               terms |-> d.terms, claims |-> d.claims, refs |-> d.refs,
               mutated |-> d.mutated]
      BY <1>1 DEF PodSpec
    <3>. HIDE DEF d, rq, lm, removed
    <3>3. removed.claims = d.claims
      BY <3>1, <3>2
    <3>. QED
      BY <3>1, <3>3
  <2>3. pod.claims = <<>> /\ draft.firstPodClaim => cl = claimNames(pod, r)
    BY <1>2, <1>6, ConcatEmptySeq
  <2>4. claimed = [removed EXCEPT !.claims = cl]
    <3>. HIDE DEF d, rq, lm, removed, claimed
    <3>. QED
      BY <2>1, <2>2, <2>3
  <2>. HIDE DEF d, rq, lm, cl, claimed, removed
  <2>5. claimed = [labeled |-> d.labeled, requests |-> rq, limits |-> lm,
                   terms |-> d.terms, claims |-> cl, refs |-> d.refs, mutated |-> d.mutated]
    <3>1. d = [labeled |-> d.labeled, requests |-> d.requests, limits |-> d.limits,
               terms |-> d.terms, claims |-> d.claims, refs |-> d.refs,
               mutated |-> d.mutated]
      BY <1>1 DEF PodSpec
    <3>2. removed = [labeled |-> d.labeled, requests |-> rq, limits |-> lm,
                     terms |-> d.terms, claims |-> d.claims, refs |-> d.refs,
                     mutated |-> d.mutated]
      BY <2>2, <3>1
    <3>. QED
      BY <2>4, <3>2
  <2>. QED
    BY <2>5 DEF rq, lm, cl
<1>8. \A c \in Container : refs(c) = d.refs[c] \o claimRefs(pod, c, r)
  <2>. SUFFICES ASSUME NEW c \in Container PROVE refs(c) = d.refs[c] \o claimRefs(pod, c, r)
    OBVIOUS
  <2>1. pod.refs[c] = <<>> /\ c \notin draft.refAdded =>
          d.refs[c] \o claimRefs(pod, c, r) = claimRefs(pod, c, r)
    BY <1>2, <1>6, ConcatEmptySeq
  <2>2. claimed.refs = d.refs
    BY <1>7
  <2>. HIDE DEF claimed
  <2>. QED
    BY <2>1, <2>2 DEF buildContainerClaimRefPatches
<1>9. e = [labeled |-> d.labeled,
           requests |-> Restrict(d.requests, DOMAIN d.requests \ (C \X {r})),
           limits |-> d.limits \ (C \X {r}),
           terms |-> d.terms, claims |-> d.claims \o claimNames(pod, r),
           refs |-> [c \in Container |->
                       IF c \in C THEN d.refs[c] \o claimRefs(pod, c, r) ELSE d.refs[c]],
           mutated |-> d.mutated]
  <2>. HIDE DEF claimed, refs, e, E, C, d
  <2>. QED
    BY <1>4, <1>7, <1>8
<1>10. Round(pod, done, r, d, e)
  <2>. HIDE DEF e, E, d
  <2>. QED
    BY <1>9 DEF Round
<1>11. done \in SUBSET (Resource \union {Pair}) /\ r \notin done
  BY <1>0, ConvertsType
<1>. HIDE DEF d, E, e, C, converted, claimed, removed, refs
<1>12. /\ e.claims \in Seq(Name) /\ e.refs \in [Container -> Seq(Name)]
       /\ Unasked(pod, done \union {r}, e) /\ Extended(pod, done \union {r}, e)
       /\ Named(pod, done \union {r}, e)
  <2>. HIDE DEF done
  <2>1. Unasked(pod, done \union {r}, e)
    BY <1>2, <1>10, RoundUnasked
  <2>2. /\ e.claims \in Seq(Name) /\ e.refs \in [Container -> Seq(Name)]
        /\ Extended(pod, done \union {r}, e)
    BY <1>1, <1>2, <1>10, <1>11, RoundExtended
  <2>3. Named(pod, done \union {r}, e)
    BY <1>1, <1>2, <1>10, <1>11, RoundNamed
  <2>. QED
    BY <2>1, <2>2, <2>3
<1>13. PodSpec(e)
  <2>1. DOMAIN e.requests \subseteq DOMAIN d.requests /\ e.requests \in [DOMAIN e.requests -> Nat]
    BY <1>1, <1>9 DEF PodSpec, Restrict
  <2>2. e.limits \subseteq DOMAIN e.requests
    BY <1>1, <1>9 DEF PodSpec, Restrict
  <2>3. e = [labeled |-> e.labeled, requests |-> e.requests, limits |-> e.limits,
             terms |-> e.terms, claims |-> e.claims, refs |-> e.refs, mutated |-> e.mutated]
    BY <1>9
  <2>4. e.labeled = d.labeled /\ e.terms = d.terms /\ e.mutated = d.mutated
    BY <1>9
  <2>. QED
    BY <1>1, <1>12, <2>1, <2>2, <2>3, <2>4 DEF PodSpec
<1>14. /\ E.by = draft.by /\ E.node = draft.node /\ E.todo = draft.todo \ {r}
       /\ E.firstPodClaim = FALSE /\ E.refAdded = draft.refAdded \union C
  BY <1>4
<1>15. converted \ E.todo = done \union {r}
  BY <1>0, <1>2, <1>14
<1>16. \A c \in Container : c \notin E.refAdded => e.refs[c] = pod.refs[c]
  BY <1>2, <1>9, <1>14
<1>17. e.labeled = pod.labeled
  BY <1>2, <1>9
<1>18. pod' = pod /\ phase' = phase /\ Active' = Active
  BY <1>0 DEF Active
<1>19. Drafting'
  <2>1. LET conv == Converts(E.by, pod)
            don == conv \ E.todo
        IN  /\ E = [by |-> E.by, node |-> E.node, todo |-> E.todo, pod |-> E.pod,
                    firstPodClaim |-> E.firstPodClaim, refAdded |-> E.refAdded]
            /\ E.by \in Active /\ ~pod.mutated
            /\ conv # {} /\ E.todo \subseteq conv
            /\ E.node \in matchesNodeAffinity(pod)
            /\ PodSpec(E.pod) /\ E.pod.labeled = pod.labeled
            /\ E.firstPodClaim => E.pod.claims = pod.claims
            /\ \A c \in Container : c \notin E.refAdded => E.pod.refs[c] = pod.refs[c]
            /\ Unasked(pod, don, E.pod)
            /\ Extended(pod, don, E.pod)
            /\ Named(pod, don, E.pod)
    <3>1. Converts(E.by, pod) = converted
      BY <1>14 DEF converted
    <3>2. E.pod = e
      BY DEF e
    <3>. QED
      BY <1>2, <1>4, <1>12, <1>13, <1>14, <1>15, <1>16, <1>17, <3>1, <3>2
  <2>. USE DEF E
  <2>. QED
    BY <1>18, <2>1 DEF Drafting
<1>20. TypeOK' /\ Drafted' /\ NoneLate' /\ Stripped' /\ PinnedToNode'
  BY <1>0 DEF IInv, TypeOK, Active, Drafted, NoneLate, Stripped, PinnedToNode
<1>. QED
  BY <1>19, <1>20 DEF IInv

LEMMA AnswerIInv ==
  ASSUME IInv, Answer
  PROVE  IInv'
<1>1. CASE ~Applies(pod) /\ phase' = "failed" /\ UNCHANGED <<pod, stale, patched>>
  <2>1. UNCHANGED <<pod, patched, late, calls, stale>> /\ phase' = "failed"
    BY <1>1 DEF Answer
  <2>2. calls' \in [Endpoints -> 0 .. 2]
    BY <2>1 DEF IInv, TypeOK
  <2>. QED
    BY <2>1, <2>2, KeepIInv
<1>2. CASE /\ Applies(pod)
           /\ pod' = buildMutatedAnnotationPatch(
                [draft.pod EXCEPT !.terms = buildNodeAffinityPatch(pod, draft.node)])
           /\ patched' = [by |-> draft.by, node |-> draft.node, before |-> pod]
           /\ stale' = {f \in Active \ {draft.by} : calls[f] > 0}
           /\ phase' = "admission"
  <2>. DEFINE d == draft.pod
              terms == buildNodeAffinityPatch(pod, draft.node)
              converted == Converts(draft.by, pod)
  <2>0. phase = "patching" /\ draft.todo = {} /\ UNCHANGED <<calls, late>>
    BY DEF Answer
  <2>1. /\ PodSpec(pod) /\ PodSpec(d) /\ ~pod.mutated /\ draft.by \in Active
        /\ converted # {} /\ draft.node \in matchesNodeAffinity(pod)
        /\ d.labeled = pod.labeled
        /\ Unasked(pod, converted, d) /\ Extended(pod, converted, d)
        /\ Named(pod, converted, d)
    <3>1. converted \ draft.todo = converted
      BY <2>0
    <3>. QED
      BY <2>0, <3>1 DEF IInv, TypeOK, Drafting
  <2>2. d = [labeled |-> d.labeled, requests |-> d.requests, limits |-> d.limits,
             terms |-> d.terms, claims |-> d.claims, refs |-> d.refs, mutated |-> d.mutated]
    BY <2>1 DEF PodSpec
  <2>3. pod' = [labeled |-> d.labeled, requests |-> d.requests, limits |-> d.limits,
                terms |-> terms, claims |-> d.claims, refs |-> d.refs, mutated |-> TRUE]
    <3>. HIDE DEF d, terms
    <3>1. [d EXCEPT !.terms = terms] =
            [labeled |-> d.labeled, requests |-> d.requests, limits |-> d.limits,
             terms |-> terms, claims |-> d.claims, refs |-> d.refs, mutated |-> d.mutated]
      BY <2>2
    <3>2. pod' = buildMutatedAnnotationPatch([d EXCEPT !.terms = terms])
      BY <1>2 DEF d, terms
    <3>. QED
      BY <3>1, <3>2 DEF buildMutatedAnnotationPatch
  <2>. HIDE DEF d
  <2>4. /\ pod'.labeled = d.labeled /\ pod'.requests = d.requests /\ pod'.limits = d.limits
        /\ pod'.terms = terms /\ pod'.claims = d.claims /\ pod'.refs = d.refs
        /\ pod'.mutated = TRUE
        /\ pod' = [labeled |-> pod'.labeled, requests |-> pod'.requests,
                   limits |-> pod'.limits, terms |-> pod'.terms, claims |-> pod'.claims,
                   refs |-> pod'.refs, mutated |-> pod'.mutated]
    BY <2>3
  <2>5. pod'.terms \in Seq(Term) /\ matchesNodeAffinity(pod') = {draft.node}
    BY <2>1, <2>4, Pinned
  <2>6. PodSpec(pod')
    BY <2>1, <2>4, <2>5 DEF PodSpec
  <2>7. patched'.by = draft.by /\ patched'.node = draft.node /\ patched'.before = pod
    BY <1>2
  <2>8. Active' = Active
    BY <2>1, <2>4 DEF Active
  <2>9. draft.node \in Node
    BY <2>1, NodesType
  <2>10. late = {}
    BY <2>1 DEF IInv, NoneLate
  <2>. HIDE DEF terms
  <2>11. TypeOK'
    <3>1. PodSpec(pod)' /\ PodSpec(patched.before)'
      BY <2>1, <2>6, <2>7
    <3>2. Converts(patched.by, patched.before)' # {}
      BY <2>1, <2>7
    <3>. QED
      BY <1>2, <2>0, <2>1, <2>4, <2>7, <2>8, <2>9, <3>1, <3>2 DEF IInv, TypeOK
  <2>12. Drafting'
    BY <1>2 DEF Drafting
  <2>13. Drafted'
    <3>1. Extended(pod, converted, pod') /\ Named(pod, converted, pod')
      BY <2>1, <2>4 DEF Extended, Named
    <3>. QED
      BY <2>7, <3>1 DEF Drafted
  <2>14. NoneLate'
    BY <2>4 DEF NoneLate
  <2>15. Stripped'
    <3>1. /\ DOMAIN pod'.requests = DOMAIN pod.requests \ Gone(pod, converted)
          /\ pod'.limits = pod.limits \ Gone(pod, converted)
      BY <2>1, <2>4 DEF Unasked
    <3>2. late' = {}
      BY <2>0, <2>10
    <3>. QED
      BY <2>7, <3>1, <3>2 DEF Stripped, Gone
  <2>16. PinnedToNode'
    BY <2>1, <2>5, <2>7 DEF PinnedToNode
  <2>. QED
    BY <2>11, <2>12, <2>13, <2>14, <2>15, <2>16 DEF IInv
<1>. QED
  BY <1>1, <1>2 DEF Answer

\* A container without references has not had a request replaced, ...
LEMMA ReferencesOfAskers ==
  ASSUME IInv, patched # NotPatched,
         NEW r \in Converts(patched.by, patched.before) \ {Pair},
         NEW c \in Askers(patched.before, r)
  PROVE  pod.refs[c] # <<>>
<1>. DEFINE before == patched.before
            R == Converts(patched.by, before)
            f == AskedBy(before, c)
<1>1. PodSpec(before) /\ PodSpec(pod) /\ r \in Resource \union {Pair} /\ c \in Container
  BY ConvertsType DEF IInv, TypeOK, Askers
<1>2. f[r] \in Nat /\ f[r] > 0
  <2>1. Count(before, c, r) \in Nat /\ Count(before, c, r) > 0
    BY <1>1, CountType DEF Askers
  <2>. QED
    BY <1>1, <2>1 DEF AskedBy
<1>3. f[r] <= SumOver(f, R) /\ SumOver(f, R) \in Nat
  <2>1. IsFiniteSet(R) /\ \A s \in R : f[s] \in Nat
    BY <1>1, ConvertsType, AskedType
  <2>. HIDE DEF f, R
  <2>2. r \in R
    BY DEF R
  <2>. QED
    BY <2>1, <2>2, SumAtLeast, SumType
<1>4. Len(pod.refs[c]) = Len(before.refs[c]) + SumOver(f, R)
  BY <1>1 DEF IInv, Drafted, Extended
<1>5. before.refs[c] \in Seq(Name) /\ Len(before.refs[c]) \in Nat
  BY <1>1, LenProperties DEF PodSpec
<1>6. Len(pod.refs[c]) # 0
  <2>. DEFINE n == SumOver(f, R)
              m == Len(before.refs[c])
              k == f[r]
              l == Len(pod.refs[c])
  <2>1. k \in Nat /\ k > 0 /\ k <= n /\ n \in Nat /\ m \in Nat /\ l = m + n
    BY <1>2, <1>3, <1>4, <1>5
  <2>. HIDE DEF n, m, k, l
  <2>2. l # 0
    BY <2>1
  <2>. QED
    BY <2>2 DEF l
<1>. QED
  BY <1>6, EmptySeq

LEMMA InjectIInv ==
  ASSUME IInv, NEW c \in Container, NEW r \in Resource, Inject(c, r)
  PROVE  IInv'
<1>0. /\ phase = "admission" /\ UNCHANGED <<calls, phase, draft, patched>>
      /\ \A s \in Resource \union {Pair} : <<c, s>> \notin DOMAIN pod.requests
      /\ pod.refs[c] = <<>>
      /\ stale' = {f \in Active : calls[f] > 0}
      /\ late' = IF pod.mutated THEN late \union {<<c, r>>} ELSE late
  BY DEF Inject
<1>1. PodSpec(pod)
  BY DEF IInv, TypeOK
<1>. DEFINE rq == [x \in DOMAIN pod.requests \union {<<c, r>>} |->
                     IF x = <<c, r>> THEN 1 ELSE pod.requests[x]]
            lm == pod.limits \union {<<c, r>>}
<1>2. pod' = [pod EXCEPT !.requests = rq, !.limits = lm]
  BY DEF Inject
<1>3. pod' = [labeled |-> pod.labeled, requests |-> rq, limits |-> lm,
              terms |-> pod.terms, claims |-> pod.claims, refs |-> pod.refs,
              mutated |-> pod.mutated]
  <2>1. pod = [labeled |-> pod.labeled, requests |-> pod.requests, limits |-> pod.limits,
               terms |-> pod.terms, claims |-> pod.claims, refs |-> pod.refs,
               mutated |-> pod.mutated]
    BY <1>1 DEF PodSpec
  <2>. HIDE DEF rq, lm
  <2>. QED
    BY <1>2, <2>1
<1>4. /\ pod'.labeled = pod.labeled /\ pod'.requests = rq /\ pod'.limits = lm
      /\ pod'.terms = pod.terms /\ pod'.claims = pod.claims /\ pod'.refs = pod.refs
      /\ pod'.mutated = pod.mutated
      /\ pod' = [labeled |-> pod'.labeled, requests |-> pod'.requests,
                 limits |-> pod'.limits, terms |-> pod'.terms, claims |-> pod'.claims,
                 refs |-> pod'.refs, mutated |-> pod'.mutated]
  <2>. HIDE DEF rq, lm
  <2>. QED
    BY <1>3
<1>5. /\ DOMAIN rq = DOMAIN pod.requests \union {<<c, r>>} /\ rq \in [DOMAIN rq -> Nat]
      /\ DOMAIN rq \subseteq Container \X (Resource \union {Pair})
      /\ lm \subseteq DOMAIN rq
  BY <1>1 DEF PodSpec
<1>. HIDE DEF rq, lm
<1>6. PodSpec(pod')
  BY <1>1, <1>4, <1>5 DEF PodSpec
<1>7. TypeOK'
  <2>1. Active' = Active
    BY <1>4 DEF Active
  <2>2. late' \subseteq Container \X Resource
    BY <1>0 DEF IInv, TypeOK
  <2>. QED
    BY <1>0, <1>4, <1>6, <2>1, <2>2 DEF IInv, TypeOK
<1>8. Drafting'
  BY <1>0 DEF Drafting
<1>9. Drafted'
  <2>. SUFFICES ASSUME patched # NotPatched PROVE Drafted'
    BY <1>0 DEF Drafted
  <2>1. /\ Extended(patched.before, Converts(patched.by, patched.before), pod)
        /\ Named(patched.before, Converts(patched.by, patched.before), pod)
    BY DEF IInv, Drafted
  <2>2. /\ Extended(patched.before, Converts(patched.by, patched.before), pod')
        /\ Named(patched.before, Converts(patched.by, patched.before), pod')
    BY <1>4, <2>1 DEF Extended, Named
  <2>. QED
    BY <1>0, <2>2 DEF Drafted
<1>10. NoneLate'
  BY <1>0, <1>4 DEF IInv, NoneLate
<1>11. Stripped'
  <2>. SUFFICES ASSUME patched # NotPatched PROVE Stripped'
    BY <1>0 DEF Stripped
  <2>. DEFINE before == patched.before
              gone == Gone(before, Converts(patched.by, before))
  <2>1. /\ gone \intersect (DOMAIN pod.requests \union pod.limits) = {}
        /\ (DOMAIN pod.requests) \ late = (DOMAIN before.requests) \ gone
        /\ pod.limits \ late = before.limits \ gone
    BY DEF IInv, Stripped, Gone
  <2>2. <<c, r>> \notin gone
    <3>. SUFFICES ASSUME NEW s \in Converts(patched.by, before), c \in Askers(before, s), r = s
                  PROVE  FALSE
      BY DEF Gone
    <3>1. s # Pair
      BY MutatorAssumption
    <3>. QED
      BY <1>0, <3>1, ReferencesOfAskers
  <2>3. late' = late \union {<<c, r>>}
    BY <1>0 DEF IInv, TypeOK
  <2>4. <<c, r>> \notin DOMAIN pod.requests /\ <<c, r>> \notin pod.limits
    BY <1>0, <1>1 DEF PodSpec
  <2>. HIDE DEF gone
  <2>5. /\ gone \intersect (DOMAIN pod'.requests \union pod'.limits) = {}
        /\ (DOMAIN pod'.requests) \ late' = (DOMAIN before.requests) \ gone
        /\ pod'.limits \ late' = before.limits \ gone
    BY <1>4, <1>5, <2>1, <2>2, <2>3, <2>4 DEF lm
  <2>. QED
    BY <1>0, <2>5 DEF Stripped, gone, Gone
<1>12. PinnedToNode'
  <2>1. matchesNodeAffinity(pod') = matchesNodeAffinity(pod)
    BY <1>4 DEF matchesNodeAffinity
  <2>. QED
    BY <1>0, <2>1 DEF IInv, PinnedToNode
<1>. QED
  BY <1>7, <1>8, <1>9, <1>10, <1>11, <1>12 DEF IInv

LEMMA NextIInv ==
  IInv /\ [Next]_vars => IInv'
<1>. SUFFICES ASSUME IInv, [Next]_vars PROVE IInv'
  OBVIOUS
<1>1. CASE UNCHANGED vars
  BY <1>1 DEF vars, IInv, TypeOK, Active, Drafting, Drafted, NoneLate, Stripped, PinnedToNode
<1>2. ASSUME NEW e \in Endpoints, Skip(e) \/ Deny(e) \/ Unanswered(e)
      PROVE  IInv'
  <2>1. calls' \in [Endpoints -> 0 .. 2] /\ phase = "admission"
    BY <1>2, CalledType DEF IInv, Skip, Deny, Unanswered
  <2>2. UNCHANGED <<pod, patched, late>> /\ stale' \subseteq stale
    BY <1>2 DEF Skip, Deny, Unanswered
  <2>3. phase' \in {"admission", "stored", "denied", "failed"}
    BY <1>2, <2>1 DEF Skip, Deny, Unanswered
  <2>. QED
    BY <2>1, <2>2, <2>3, KeepIInv
<1>3. ASSUME NEW e \in Endpoints, Mutate(e)
      PROVE  IInv'
  BY <1>3, MutateIInv
<1>4. ASSUME NEW r \in Resource \union {Pair}, Replace(r)
      PROVE  IInv'
  BY <1>4, ReplaceIInv
<1>5. ASSUME NEW c \in Container, NEW r \in Resource, Inject(c, r)
      PROVE  IInv'
  BY <1>5, InjectIInv
<1>6. CASE Answer
  BY <1>6, AnswerIInv
<1>7. CASE Store
  <2>1. calls' \in [Endpoints -> 0 .. 2]
    BY <1>7 DEF Store, IInv, TypeOK
  <2>. QED
    BY <1>7, <2>1, KeepIInv DEF Store
<1>. QED
  BY <1>1, <1>2, <1>3, <1>4, <1>5, <1>6, <1>7 DEF Next

LEMMA AlwaysIInv ==
  Spec => []IInv
<1>. QED
  BY InitIInv, NextIInv, PTL DEF Spec

-----------------------------------------------------------------------------
(***************************************************************************)
(* The properties.                                                         *)
(***************************************************************************)

\* Types; and a pod that is patched had asked for something its patcher converts.
THEOREM MutatorTypeOK ==
  Spec => []TypeOK
<1>1. IInv => TypeOK
  BY DEF IInv
<1>. QED
  BY <1>1, AlwaysIInv, PTL

\* Of the requests and limits of a patched pod, exactly those converted are gone.
THEOREM MutatorStripped ==
  Spec => []Stripped
<1>1. IInv => Stripped
  BY DEF IInv
<1>. QED
  BY <1>1, AlwaysIInv, PTL

\* A patched pod keeps its claims and references, and gets as many as it asked for.
THEOREM MutatorOwnClaimsKept ==
  Spec => []OwnClaimsKept
<1>1. IInv => OwnClaimsKept
  BY DEF IInv, Drafted, Extended, OwnClaimsKept
<1>. QED
  BY <1>1, AlwaysIInv, PTL

\* A patched pod can run on the chosen node only, which it could run on before.
THEOREM MutatorPinnedToNode ==
  Spec => []PinnedToNode
<1>1. IInv => PinnedToNode
  BY DEF IInv
<1>. QED
  BY <1>1, AlwaysIInv, PTL

\* What an endpoint converts the handler has counted.
LEMMA CountedIfConverted ==
  ASSUME NEW p, PodSpec(p), NEW e, Converts(e, p) # {}
  PROVE  Priority(e, p) > 0
<1>1. extractGPUNICPairCount(p) \in Nat
  BY TotalType DEF extractGPUNICPairCount
<1>2. CASE e = "mutate" /\ extractGPUNICPairCount(p) > 0
  BY <1>1, <1>2 DEF Priority
<1>3. CASE ~ (e = "mutate" /\ extractGPUNICPairCount(p) > 0)
  <2>1. PICK r \in Resource, c \in Container : Count(p, c, r) > 0
    BY <1>3 DEF Converts, extractInterceptedResources
  <2>. DEFINE f == [s \in Resource |-> Total(p, s, Container)]
  <2>2. \A s \in Resource : f[s] \in Nat
    BY TotalType
  <2>3. Count(p, c, r) \in Nat /\ Count(p, c, r) <= Total(p, r, Container)
    BY CountType, TotalType
  <2>4. f[r] = Total(p, r, Container)
    OBVIOUS
  <2>5. Priority(e, p) = SumOver(f, Resource)
    BY <1>3 DEF Priority, countInterceptedGPUs
  <2>. HIDE DEF f
  <2>6. f[r] <= SumOver(f, Resource) /\ SumOver(f, Resource) \in Nat
    BY <2>2, MutatorAssumption, SumAtLeast, SumType
  <2>. QED
    BY <2>1, <2>2, <2>3, <2>4, <2>5, <2>6
<1>. QED
  BY <1>2, <1>3

\* The webhook never patches a pod that its handlers do not enqueue.
THEOREM MutatorOnlyQueuedPodsPatched ==
  Spec => OnlyQueuedPodsPatched
<1>1. IInv /\ [Next]_vars => [patched' # patched => Priority(draft.by, pod) > 0]_vars
  <2>. SUFFICES ASSUME IInv, Next, patched' # patched PROVE Priority(draft.by, pod) > 0
    BY DEF vars
  <2>1. Answer
    BY DEF Next, Skip, Deny, Mutate, Unanswered, Replace, Inject, Store
  <2>2. PodSpec(pod) /\ Converts(draft.by, pod) # {}
    BY <2>1 DEF IInv, TypeOK, Drafting, Answer
  <2>. QED
    BY <2>2, CountedIfConverted
<1>. QED
  BY <1>1, AlwaysIInv, PTL DEF Spec, OnlyQueuedPodsPatched

-----------------------------------------------------------------------------
(***************************************************************************)
(* Binding: claims of the pods' own have none of the names of pairs, and   *)
(* the containers' references are to them.                                 *)
(***************************************************************************)
Owned ==
  /\ ~pod.mutated => OwnNames(pod)
  /\ patched # NotPatched => OwnNames(patched.before)

LEMMA AlwaysOwned ==
  ASSUME \A p \in Shapes : OwnNames(p)
  PROVE  Spec => []Owned
<1>1. Init => Owned
  BY DEF Init, Owned
<1>2. IInv /\ Owned /\ [Next]_vars => Owned'
  <2>. SUFFICES ASSUME IInv, Owned, [Next]_vars PROVE Owned'
    OBVIOUS
  <2>1. CASE UNCHANGED <<pod, patched>>
    BY <2>1 DEF Owned
  <2>2. CASE Answer /\ ~ UNCHANGED <<pod, patched>>
    <3>1. phase = "patching" /\ ~pod.mutated
      BY <2>2 DEF Answer, IInv, Drafting
    <3>2. patched'.before = pod
      BY <2>2 DEF Answer
    <3>3. PodSpec(draft.pod)
      BY <3>1 DEF IInv, Drafting
    <3>4. pod'.mutated
      <4>. DEFINE d == [draft.pod EXCEPT !.terms = buildNodeAffinityPatch(pod, draft.node)]
      <4>1. pod' = [d EXCEPT !.mutated = TRUE]
        BY <2>2 DEF Answer, buildMutatedAnnotationPatch
      <4>2. d = [labeled |-> draft.pod.labeled, requests |-> draft.pod.requests,
                 limits |-> draft.pod.limits,
                 terms |-> buildNodeAffinityPatch(pod, draft.node),
                 claims |-> draft.pod.claims, refs |-> draft.pod.refs,
                 mutated |-> draft.pod.mutated]
        <5>1. draft.pod = [labeled |-> draft.pod.labeled, requests |-> draft.pod.requests,
                           limits |-> draft.pod.limits, terms |-> draft.pod.terms,
                           claims |-> draft.pod.claims, refs |-> draft.pod.refs,
                           mutated |-> draft.pod.mutated]
          BY <3>3 DEF PodSpec
        <5>. QED
          BY <5>1
      <4>. HIDE DEF d
      <4>. QED
        BY <4>1, <4>2
    <3>. QED
      BY <3>1, <3>2, <3>4 DEF Owned
  <2>3. ASSUME NEW c \in Container, NEW r \in Resource, Inject(c, r)
        PROVE  Owned'
    <3>. DEFINE rq == [x \in DOMAIN pod.requests \union {<<c, r>>} |->
                         IF x = <<c, r>> THEN 1 ELSE pod.requests[x]]
                lm == pod.limits \union {<<c, r>>}
    <3>1. pod' = [pod EXCEPT !.requests = rq, !.limits = lm] /\ patched' = patched
      BY <2>3 DEF Inject
    <3>2. pod = [labeled |-> pod.labeled, requests |-> pod.requests, limits |-> pod.limits,
                 terms |-> pod.terms, claims |-> pod.claims, refs |-> pod.refs,
                 mutated |-> pod.mutated]
      BY DEF IInv, TypeOK, PodSpec
    <3>. HIDE DEF rq, lm
    <3>3. pod'.mutated = pod.mutated /\ pod'.claims = pod.claims /\ pod'.refs = pod.refs
      BY <3>1, <3>2
    <3>. QED
      BY <3>1, <3>3 DEF Owned, OwnNames
  <2>. QED
    BY <2>1, <2>2, <2>3 DEF Next, vars, Skip, Deny, Mutate, Unanswered, Replace, Store
<1>. QED
  BY <1>1, <1>2, AlwaysIInv, PTL DEF Spec

\* The references for one resource are as many as the container asked for.
LEMMA RefsCounted ==
  ASSUME NEW p, PodSpec(p), NEW r \in Resource, NEW c \in Container
  PROVE  Cardinality(Range(claimRefs(p, c, r))) = Count(p, c, r)
<1>. DEFINE names == claimNames(p, r)
            a == Total(p, r, 1 .. c - 1)
            b == Total(p, r, 1 .. c)
            k == Count(p, c, r)
            f == [i \in a + 1 .. b |-> names[i]]
<1>1. /\ a \in Nat /\ k \in Nat /\ b = a + k /\ b <= Total(p, r, Container)
      /\ Total(p, r, Container) \in Nat
  <2>1. Containers \in Nat /\ 1 .. c - 1 \in SUBSET Container
    BY MutatorAssumption DEF Container
  <2>. QED
    BY <2>1, CountType, TotalType, Offsets
<1>2. Range(claimRefs(p, c, r)) = {names[i] : i \in a + 1 .. b}
  BY ClaimRefsType, MutatorAssumption
<1>3. \A i \in a + 1 .. b : names[i][2] = i
  <2>1. \A i \in 1 .. Total(p, r, Container) : names[i][2] = i
    BY ClaimNamesType
  <2>. HIDE DEF names, a, b, k
  <2>. QED
    BY <1>1, <2>1
<1>. HIDE DEF names, a, b, k
<1>4. f \in Bijection(a + 1 .. b, {names[i] : i \in a + 1 .. b})
  <2>1. f \in [a + 1 .. b -> {names[i] : i \in a + 1 .. b}]
    OBVIOUS
  <2>2. \A i, j \in a + 1 .. b : f[i] = f[j] => i = j
    BY <1>3
  <2>3. \A t \in {names[i] : i \in a + 1 .. b} : \E i \in a + 1 .. b : f[i] = t
    OBVIOUS
  <2>. HIDE DEF f
  <2>. QED
    BY <2>1, <2>2, <2>3, Fun_IsBij
<1>5. IsFiniteSet(a + 1 .. b) /\ Cardinality(a + 1 .. b) = k
  <2>1. a + 1 \in Int /\ b \in Int
    BY <1>1
  <2>2. Cardinality(a + 1 .. b) = IF a + 1 > b THEN 0 ELSE b - (a + 1) + 1
    BY <2>1, FS_Interval
  <2>3. IsFiniteSet(a + 1 .. b)
    BY <2>1, FS_Interval
  <2>. QED
    BY <1>1, <2>2, <2>3
<1>6. Cardinality({names[i] : i \in a + 1 .. b}) = k
  <2>. HIDE DEF f
  <2>1. ExistsBijection(a + 1 .. b, {names[i] : i \in a + 1 .. b})
    BY <1>4 DEF ExistsBijection
  <2>. QED
    BY <1>5, <2>1, FS_Bijection
<1>. QED
  BY <1>2, <1>6 DEF k

\* The references of two containers to devices of a resource differ.
LEMMA RefsApart ==
  ASSUME NEW p, PodSpec(p), NEW c \in Container, NEW d \in Container, c < d,
         NEW r \in Resource
  PROVE  Range(claimRefs(p, c, r)) \intersect Range(claimRefs(p, d, r)) = {}
<1>. DEFINE names == claimNames(p, r)
            n == Total(p, r, Container)
            a == Total(p, r, 1 .. c - 1)
            b == Total(p, r, 1 .. c)
            e == Total(p, r, 1 .. d - 1)
            g == Total(p, r, 1 .. d)
<1>1. /\ a \in Nat /\ b \in Nat /\ e \in Nat /\ g \in Nat /\ n \in Nat
      /\ b <= e /\ b <= n /\ g <= n
  <2>1. /\ Containers \in Nat /\ 1 .. c - 1 \in SUBSET Container /\ 1 .. c \in SUBSET Container
        /\ 1 .. d - 1 \in SUBSET Container /\ 1 .. d \in SUBSET Container
    BY MutatorAssumption DEF Container
  <2>. QED
    BY <2>1, TotalType, Offsets
<1>2. /\ Range(claimRefs(p, c, r)) = {names[i] : i \in a + 1 .. b}
      /\ Range(claimRefs(p, d, r)) = {names[i] : i \in e + 1 .. g}
  BY ClaimRefsType, MutatorAssumption
<1>3. \A i \in 1 .. n : names[i][2] = i
  BY ClaimNamesType
<1>. HIDE DEF names, n, a, b, e, g
<1>. SUFFICES ASSUME NEW i \in a + 1 .. b, NEW j \in e + 1 .. g, names[i] = names[j]
              PROVE  FALSE
  BY <1>2
<1>4. i \in 1 .. n /\ j \in 1 .. n /\ i # j
  BY <1>1
<1>. QED
  BY <1>3, <1>4

LEMMA BindingOf ==
  ASSUME IInv, Owned
  PROVE  PerContainerBinding
<1>. SUFFICES ASSUME patched # NotPatched PROVE PerContainerBinding
  BY DEF PerContainerBinding
<1>. DEFINE p == patched.before
            R == Converts(patched.by, p)
            added(c) == Range(pod.refs[c]) \ Range(p.refs[c])
<1>1. PodSpec(p) /\ OwnNames(p) /\ Named(p, R, pod)
  BY DEF IInv, TypeOK, Owned, Drafted
<1>2. R \subseteq Resource \union {Pair}
  BY ConvertsType
<1>. HIDE DEF p, R
<1>3. \A c \in Container : added(c) \subseteq NewRefs(p, R, c)
  BY <1>1 DEF Named
<1>4. ASSUME NEW c \in Container, NEW x \in added(c)
      PROVE  \E r \in R : /\ c \in Askers(p, r) /\ x \in Range(claimRefs(p, c, r))
                          /\ x \in Range(claimNames(p, r)) /\ x[1] = r
  <2>1. x \in NewRefs(p, R, c)
    BY <1>3
  <2>2. PICK r \in R : c \in Askers(p, r) /\ x \in Range(claimRefs(p, c, r))
    BY <2>1 DEF NewRefs
  <2>3. x \in Range(claimNames(p, r))
    BY <1>1, <1>2, <2>2, ClaimRefsType
  <2>4. x[1] = r
    BY <1>1, <1>2, <2>3, ClaimNamesDiffer
  <2>. QED
    BY <2>2, <2>3, <2>4
<1>5. IsInjective(pod.claims)
  BY <1>1 DEF Named
<1>6. ASSUME NEW c \in Container
      PROVE  added(c) \subseteq Range(pod.claims)
  <2>. SUFFICES ASSUME NEW x \in added(c) PROVE x \in Range(pod.claims)
    OBVIOUS
  <2>1. PICK r \in R : x \in Range(claimNames(p, r))
    BY <1>4
  <2>. QED
    BY <1>1, <2>1 DEF Named, NewClaims
<1>7. ASSUME NEW r \in R \ {Pair}, NEW c \in Container
      PROVE  Cardinality({x \in added(c) : x[1] = r}) = Count(p, c, r)
  <2>0. r \in Resource /\ Count(p, c, r) \in Nat
    BY <1>1, <1>2, CountType
  <2>1. CASE c \in Askers(p, r)
    <3>1. {x \in added(c) : x[1] = r} \subseteq Range(claimRefs(p, c, r))
      BY <1>4
    <3>2. ASSUME NEW x \in Range(claimRefs(p, c, r))
          PROVE  x \in added(c) /\ x[1] = r
      <4>1. x \in Range(claimNames(p, r))
        BY <1>1, <1>2, ClaimRefsType
      <4>2. x[1] = r
        BY <1>1, <1>2, <4>1, ClaimNamesDiffer
      <4>3. x \notin Range(p.claims)
        BY <1>1, <1>2, <4>1, ClaimNamesType
      <4>4. x \notin Range(p.refs[c])
        BY <1>1, <4>3 DEF OwnNames
      <4>5. x \in NewRefs(p, R, c)
        BY <2>1 DEF NewRefs
      <4>6. x \in Range(pod.refs[c])
        BY <1>1, <4>5 DEF Named
      <4>. QED
        BY <4>2, <4>4, <4>6
    <3>3. {x \in added(c) : x[1] = r} = Range(claimRefs(p, c, r))
      BY <3>1, <3>2
    <3>. QED
      BY <1>1, <2>0, <3>3, RefsCounted
  <2>2. CASE c \notin Askers(p, r)
    <3>1. {x \in added(c) : x[1] = r} = {}
      BY <1>4, <2>2
    <3>2. Count(p, c, r) = 0
      BY <2>0, <2>2 DEF Askers, Count
    <3>. QED
      BY <3>1, <3>2, FS_EmptySet
  <2>. QED
    BY <2>1, <2>2
<1>8. ASSUME NEW c \in Container, NEW d \in Container, c # d,
             NEW x \in added(c) \intersect added(d), x[1] # Pair
      PROVE  FALSE
  <2>1. PICK r \in R : x \in Range(claimRefs(p, c, r)) /\ x[1] = r
    BY <1>4
  <2>2. PICK s \in R : x \in Range(claimRefs(p, d, s)) /\ x[1] = s
    BY <1>4
  <2>3. r = s /\ r \in Resource
    BY <1>2, <1>8, <2>1, <2>2
  <2>4. c < d \/ d < c
    BY <1>8, MutatorAssumption DEF Container
  <2>. QED
    BY <1>1, <2>1, <2>2, <2>3, <2>4, RefsApart
<1>. QED
  BY <1>5, <1>6, <1>7, <1>8 DEF PerContainerBinding, p, R

\* Each container is bound to the devices it asked for and to no other's, if pods are
\* created with claims of their own that differ, none of them named for a pair.
THEOREM MutatorPerContainerBinding ==
  ASSUME \A p \in Shapes : OwnNames(p)
  PROVE  Spec => []PerContainerBinding
<1>1. Spec => []Owned
  BY AlwaysOwned
<1>. QED
  BY <1>1, BindingOf, AlwaysIInv, PTL
=============================================================================
