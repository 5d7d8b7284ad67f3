--------------------------- MODULE SequenceLemmas ---------------------------
(***************************************************************************)
(* What the proofs need to know of queues and of concatenations.  The      *)
(* induction that it takes is over finite sets ordered by inclusion, the   *)
(* one well-founded order of the library that is stated without operator   *)
(* parameters: a set of naturals has a least element because the           *)
(* intervals up to its elements have a minimal one.                        *)
(***************************************************************************)
EXTENDS Naturals, Integers, Sequences, SequencesExt, FiniteSets,
        WellFoundedInduction, FiniteSetTheorems, FunctionTheorems, SequenceTheorems, TLAPS

\* Queues: at the back,
LEMMA Appended ==
  ASSUME NEW S, NEW s \in Seq(S), NEW e \in S
  PROVE  /\ Append(s, e) \in Seq(S) /\ DOMAIN Append(s, e) = 1..(Len(s) + 1)
         /\ DOMAIN s = 1..Len(s) /\ Len(s) \in Nat
         /\ \A i \in DOMAIN s : Append(s, e)[i] = s[i]
         /\ Append(s, e)[Len(s) + 1] = e
  OBVIOUS

\* and at the front.
LEMMA Dropped ==
  ASSUME NEW S, NEW s \in Seq(S), s # <<>>
  PROVE  /\ Tail(s) \in Seq(S) /\ 1 \in DOMAIN s /\ Head(s) = s[1] /\ DOMAIN s \subseteq Nat
         /\ \A i \in DOMAIN Tail(s) : i + 1 \in DOMAIN s /\ Tail(s)[i] = s[i + 1]
         /\ \A i \in DOMAIN s : i # 1 => i - 1 \in DOMAIN Tail(s) /\ Tail(s)[i - 1] = s[i]
         /\ DOMAIN Tail(s) \subseteq Nat
  OBVIOUS

-----------------------------------------------------------------------------
(* How many elements of a sequence are of a set.                           *)

Places(s, T) == {i \in DOMAIN s : s[i] \in T}

LEMMA PlacesFinite ==
  ASSUME NEW S, NEW T, NEW s \in Seq(S)
  PROVE  IsFiniteSet(Places(s, T)) /\ Cardinality(Places(s, T)) \in Nat
<1>1. IsFiniteSet(DOMAIN s)
  BY FS_Interval
<1>2. Places(s, T) \in SUBSET DOMAIN s
  BY DEF Places
<1>3. QED
  BY <1>1, <1>2, FS_Subset, FS_CardinalityType

LEMMA PlacesAppend ==
  ASSUME NEW S, NEW T, NEW s \in Seq(S), NEW e \in S
  PROVE  Cardinality(Places(Append(s, e), T)) = Cardinality(Places(s, T)) + (IF e \in T THEN 1 ELSE 0)
<1>1. IsFiniteSet(Places(s, T)) /\ Cardinality(Places(s, T)) \in Nat
  BY PlacesFinite
<1>2. CASE e \in T
  <2>1. Places(Append(s, e), T) = Places(s, T) \cup {Len(s) + 1} /\ Len(s) + 1 \notin Places(s, T)
    BY <1>2, Appended DEF Places
  <2>2. QED
    BY <1>1, <1>2, <2>1, FS_AddElement
<1>3. CASE e \notin T
  <2>1. Places(Append(s, e), T) = Places(s, T)
    BY <1>3, Appended DEF Places
  <2>2. QED
    BY <1>1, <1>3, <2>1
<1>4. QED
  BY <1>2, <1>3

LEMMA PlacesTail ==
  ASSUME NEW S, NEW T, NEW s \in Seq(S), s # <<>>
  PROVE  Cardinality(Places(Tail(s), T)) = Cardinality(Places(s, T)) - (IF Head(s) \in T THEN 1 ELSE 0)
<1>1. /\ Tail(s) \in Seq(S) /\ 1 \in DOMAIN s /\ Head(s) = s[1] /\ DOMAIN s \subseteq Nat
      /\ \A i \in DOMAIN Tail(s) : i + 1 \in DOMAIN s /\ Tail(s)[i] = s[i + 1]
      /\ \A i \in DOMAIN s : i # 1 => i - 1 \in DOMAIN Tail(s) /\ Tail(s)[i - 1] = s[i]
      /\ DOMAIN Tail(s) \subseteq Nat
  BY Dropped
<1>2. IsFiniteSet(Places(s, T)) /\ Cardinality(Places(s, T)) \in Nat /\ IsFiniteSet(Places(Tail(s), T))
  BY <1>1, PlacesFinite
<1>3. IsFiniteSet(Places(s, T) \ {1}) /\ Cardinality(Places(s, T) \ {1}) = Cardinality(Places(s, T)) - (IF Head(s) \in T THEN 1 ELSE 0)
  <2>1. 1 \in Places(s, T) <=> Head(s) \in T
    BY <1>1 DEF Places
  <2>2. QED
    <3>1. IsFiniteSet(Places(s, T) \ {1})
      BY <1>2, FS_RemoveElement
    <3>2. Cardinality(Places(s, T) \ {1}) = IF 1 \in Places(s, T) THEN Cardinality(Places(s, T)) - 1 ELSE Cardinality(Places(s, T))
      BY <1>2, FS_RemoveElement
    <3>3. QED
      BY <1>2, <2>1, <3>1, <3>2
<1>4. ExistsBijection(Places(Tail(s), T), Places(s, T) \ {1})
  <2> DEFINE up == [i \in Places(Tail(s), T) |-> i + 1]
  <2>1. up \in [Places(Tail(s), T) -> Places(s, T) \ {1}]
    <3>1. ASSUME NEW i \in Places(Tail(s), T) PROVE i + 1 \in Places(s, T) \ {1}
      <4>1. i \in DOMAIN Tail(s) /\ Tail(s)[i] \in T
        BY DEF Places
      <4>2. i \in 1..Len(Tail(s))
        BY <1>1, <4>1
      <4>3. QED
        BY <1>1, <4>1, <4>2 DEF Places
    <3>2. QED
      BY <3>1
  <2>2. \A i, j \in Places(Tail(s), T) : i # j => up[i] # up[j]
    BY <1>1 DEF Places
  <2>3. ASSUME NEW i \in Places(s, T) \ {1} PROVE \E j \in Places(Tail(s), T) : up[j] = i
    <3>1. i - 1 \in Places(Tail(s), T) /\ i \in Nat
      BY <1>1 DEF Places
    <3>2. up[i - 1] = i
      BY <3>1
    <3>3. QED
      BY <3>1, <3>2
  <2> HIDE DEF up
  <2>4. QED
    BY <2>1, <2>2, <2>3, Fun_IsBij, Fun_ExistsBij
<1>5. Cardinality(Places(s, T) \ {1}) = Cardinality(Places(Tail(s), T))
  BY <1>2, <1>4, FS_Bijection
<1>6. QED
  BY <1>3, <1>5
-----------------------------------------------------------------------------
(* Induction.                                                              *)

LEMMA LeastNat ==
  ASSUME NEW T, T \subseteq Nat, T # {}
  PROVE  \E x \in T : \A y \in T : x <= y
<1> DEFINE U == {1..n : n \in T}
           R == StrictSubsetOrdering(Nat)
<1>1. U \subseteq FiniteSubsetsOf(Nat)
  BY FS_Interval DEF FiniteSubsetsOf
<1>2. U # {}
  OBVIOUS
<1>3. IsWellFoundedOn(R, FiniteSubsetsOf(Nat))
  BY FS_StrictSubsetOrderingWellFounded
<1>4. PICK u \in U : \A v \in U : <<v, u>> \notin R
  <2> HIDE DEF R, U
  <2> QED BY <1>1, <1>2, <1>3, WFMin
<1>5. PICK x \in T : u = 1..x
  BY <1>4
<1>6. ASSUME NEW y \in T, y < x PROVE FALSE
  <2>1. 1..y \subseteq 1..x /\ 1..y # 1..x
    <3>1. x \in 1..x /\ x \notin 1..y
      BY <1>6
    <3> QED BY <1>6, <3>1
  <2>2. 1..y \in U /\ 1..y \subseteq Nat /\ 1..x \subseteq Nat
    OBVIOUS
  <2>3. <<1..y, u>> \in R
    BY <2>1, <2>2, <1>5 DEF StrictSubsetOrdering
  <2> QED BY <2>2, <2>3, <1>4
<1> QED BY <1>5, <1>6

\* Induction up to m over a set of naturals.
LEMMA CountUp ==
  ASSUME NEW T, NEW m \in Nat, 0 \in T, \A n \in 0..m : n \in T /\ n < m => n + 1 \in T
  PROVE  \A n \in 0..m : n \in T
<1> DEFINE Bad == {n \in 0..m : n \notin T}
<1>1. SUFFICES ASSUME Bad # {} PROVE FALSE
  OBVIOUS
<1>2. PICK n \in Bad : \A k \in Bad : n <= k
  <2>1. Bad \subseteq Nat
    OBVIOUS
  <2> HIDE DEF Bad
  <2> QED BY <1>1, <2>1, LeastNat
<1>3. n \in 0..m /\ n \notin T /\ n # 0
  BY <1>2
<1>4. n - 1 \in 0..m /\ n - 1 < m /\ n - 1 + 1 = n /\ ~(n <= n - 1)
  BY <1>3
<1>5. n - 1 \in T
  BY <1>2, <1>4
<1> QED BY <1>3, <1>4, <1>5

-----------------------------------------------------------------------------
(* Sequences flattened.                                                    *)

\* What FlattenSeq has made of the first i sequences.
Flattens(f, ss) == f = [i \in 1..Len(ss) |-> IF i = 1 THEN ss[i] ELSE f[i - 1] \o ss[i]]

\* That there is such a function is proved by induction on how far it goes.
LEMMA FlattensExists == ASSUME NEW S, NEW ss \in Seq(Seq(S)) PROVE \E f : Flattens(f, ss)
<1> DEFINE Solves(f, n) == f = [i \in 1..n |-> IF i = 1 THEN ss[i] ELSE f[i - 1] \o ss[i]]
           T == {n \in 0..Len(ss) : \E f : Solves(f, n)}
<1>1. 0 \in T
  <2>1. Solves(<<>>, 0) /\ 0 \in 0..Len(ss)
    OBVIOUS
  <2> HIDE DEF Solves
  <2> QED BY <2>1
<1>2. ASSUME NEW n \in T, n < Len(ss) PROVE n + 1 \in T
  <2>1. PICK f : Solves(f, n)
    BY <1>2
  <2> DEFINE g == [i \in 1..(n + 1) |-> IF i = n + 1 THEN (IF n = 0 THEN ss[1] ELSE f[n] \o ss[n + 1]) ELSE f[i]]
  <2>2. n \in 0..Len(ss) /\ n \in Nat
    OBVIOUS
  <2>3. ASSUME NEW i \in 1..(n + 1) PROVE g[i] = IF i = 1 THEN ss[i] ELSE g[i - 1] \o ss[i]
    <3>1. CASE i = n + 1
      BY <3>1, <2>2
    <3>2. CASE i # n + 1
      <4>1. i \in 1..n /\ (i # 1 => i - 1 \in 1..n)
        BY <3>2, <2>2
      <4>2. f[i] = IF i = 1 THEN ss[i] ELSE f[i - 1] \o ss[i]
        BY <4>1, <2>1
      <4>3. g[i] = f[i] /\ (i # 1 => g[i - 1] = f[i - 1])
        BY <3>2, <4>1, <2>2
      <4> QED BY <4>2, <4>3
    <3> QED BY <3>1, <3>2
  <2> HIDE DEF g
  <2>4. g = [i \in 1..(n + 1) |-> g[i]]
    BY DEF g
  <2>5. Solves(g, n + 1)
    BY <2>3, <2>4
  <2>6. n + 1 \in 0..Len(ss)
    BY <2>2, <1>2
  <2> HIDE DEF Solves
  <2> QED BY <2>5, <2>6
<1>3. \A n \in 0..Len(ss) : n \in T
  <2>1. Len(ss) \in Nat
    OBVIOUS
  <2> HIDE DEF T
  <2> QED BY <1>1, <1>2, <2>1, CountUp
<1>4. Len(ss) \in 0..Len(ss)
  OBVIOUS
<1> QED BY <1>3, <1>4 DEF Flattens

LEMMA FlattensIs ==
  ASSUME NEW S, NEW ss \in Seq(Seq(S)), ss # <<>>
  PROVE  \E f : Flattens(f, ss) /\ FlattenSeq(ss) = f[Len(ss)]
<1> DEFINE flatten == CHOOSE f : f = [i \in 1..Len(ss) |-> IF i = 1 THEN ss[i] ELSE f[i - 1] \o ss[i]]
<1>1. flatten = [i \in 1..Len(ss) |-> IF i = 1 THEN ss[i] ELSE flatten[i - 1] \o ss[i]]
  BY FlattensExists DEF Flattens
<1>2. FlattenSeq(ss) = flatten[Len(ss)]
  BY DEF FlattenSeq
<1> QED BY <1>1, <1>2 DEF Flattens

\* What is true of every stage is true of the result.
LEMMA FlattensInduct ==
  ASSUME NEW S, NEW ss \in Seq(Seq(S)), NEW f, Flattens(f, ss), NEW G, ss # <<>>,
         ss[1] \in G[1], \A n \in 1..(Len(ss) - 1) : \A s \in G[n] : s \o ss[n + 1] \in G[n + 1]
  PROVE  \A n \in 1..Len(ss) : f[n] \in G[n]
<1> DEFINE T == {n \in 0..Len(ss) : n # 0 => f[n] \in G[n]}
<1>1. ASSUME NEW n \in 0..Len(ss), n \in T, n < Len(ss) PROVE n + 1 \in T
  <2>0. n \in Nat /\ n + 1 \in 1..Len(ss)
    BY <1>1
  <2>1. f[n + 1] = IF n = 0 THEN ss[1] ELSE f[n] \o ss[n + 1]
    <3>0. \A i \in 1..Len(ss) : f[i] = IF i = 1 THEN ss[i] ELSE f[i - 1] \o ss[i]
      BY DEF Flattens
    <3>1. f[n + 1] = IF n + 1 = 1 THEN ss[n + 1] ELSE f[n + 1 - 1] \o ss[n + 1]
      BY <2>0, <3>0
    <3>2. n + 1 - 1 = n /\ (n + 1 = 1 <=> n = 0)
      BY <2>0
    <3> QED BY <3>1, <3>2
  <2>2. f[n + 1] \in G[n + 1]
    <3>1. CASE n = 0
      BY <2>1, <3>1
    <3>2. CASE n # 0
      BY <2>0, <2>1, <3>2, <1>1
    <3> QED BY <3>1, <3>2
  <2> QED BY <2>0, <2>2
<1>2. \A n \in 0..Len(ss) : n \in T
  <2>1. Len(ss) \in Nat /\ 0 \in T
    OBVIOUS
  <2> HIDE DEF T
  <2> QED BY <1>1, <2>1, CountUp
<1> QED BY <1>2

\* Sequences of a set are flattened to a sequence of it.
LEMMA FlattenType ==
  ASSUME NEW S, NEW ss \in Seq(Seq(S))
  PROVE  FlattenSeq(ss) \in Seq(S)
<1>1. CASE ss = <<>>
  BY <1>1 DEF FlattenSeq
<1>2. CASE ss # <<>>
  <2>1. PICK f : Flattens(f, ss) /\ FlattenSeq(ss) = f[Len(ss)]
    BY <1>2, FlattensIs
  <2> DEFINE G == [n \in 1..Len(ss) |-> Seq(S)]
  <2>2. ss[1] \in G[1] /\ \A n \in 1..(Len(ss) - 1) : \A s \in G[n] : s \o ss[n + 1] \in G[n + 1]
    <3>1. ASSUME NEW n \in 1..(Len(ss) - 1) PROVE n \in 1..Len(ss) /\ n + 1 \in 1..Len(ss)
      BY <3>1
    <3>2. \A n \in 1..Len(ss) : G[n] = Seq(S) /\ ss[n] \in Seq(S)
      OBVIOUS
    <3>3. 1 \in 1..Len(ss)
      BY <1>2
    <3> HIDE DEF G
    <3> QED BY <3>1, <3>2, <3>3, ConcatProperties
  <2>3. \A n \in 1..Len(ss) : f[n] \in G[n]
    <3> HIDE DEF G
    <3> QED BY <1>2, <2>1, <2>2, FlattensInduct
  <2>4. Len(ss) \in 1..Len(ss)
    BY <1>2
  <2> QED BY <2>1, <2>3, <2>4
<1> QED BY <1>1, <1>2

\* Sequences of one element are flattened to the sequence of these.
LEMMA FlattenSingles ==
  ASSUME NEW S, NEW ss \in Seq(Seq(S)), \A i \in DOMAIN ss : Len(ss[i]) = 1
  PROVE  FlattenSeq(ss) = [i \in DOMAIN ss |-> ss[i][1]]
<1>1. CASE ss = <<>>
  BY <1>1 DEF FlattenSeq
<1>2. CASE ss # <<>>
  <2>1. PICK f : Flattens(f, ss) /\ FlattenSeq(ss) = f[Len(ss)]
    BY <1>2, FlattensIs
  <2> DEFINE first(n) == [i \in 1..n |-> ss[i][1]]
             G == [n \in 1..Len(ss) |-> {first(n)}]
  <2>2. ss[1] = first(1)
    BY <1>2
  <2>3. ASSUME NEW n \in 1..(Len(ss) - 1) PROVE first(n) \o ss[n + 1] = first(n + 1)
    <3>1. first(n) \in Seq(S) /\ first(n + 1) \in Seq(S) /\ Len(first(n)) = n /\ Len(first(n + 1)) = n + 1
      BY <2>3
    <3>2. ss[n + 1] = <<ss[n + 1][1]>> /\ ss[n + 1] \in Seq(S) /\ Len(ss[n + 1]) = 1
      OBVIOUS
    <3>3. /\ Len(first(n) \o ss[n + 1]) = n + 1 /\ first(n) \o ss[n + 1] \in Seq(S)
          /\ \A i \in 1..(n + 1) : (first(n) \o ss[n + 1])[i] = IF i <= n THEN first(n)[i] ELSE ss[n + 1][i - n]
      <4> DEFINE a == first(n)
                 b == ss[n + 1]
      <4>1. a \in Seq(S) /\ b \in Seq(S) /\ Len(a) = n /\ Len(b) = 1
        BY <3>1, <3>2
      <4> HIDE DEF a, b
      <4>2. /\ a \o b \in Seq(S) /\ Len(a \o b) = n + 1
            /\ \A i \in 1..(n + 1) : (a \o b)[i] = IF i <= n THEN a[i] ELSE b[i - n]
        <5>1. /\ a \o b \in Seq(S) /\ Len(a \o b) = Len(a) + Len(b)
              /\ \A i \in 1..(Len(a) + Len(b)) : (a \o b)[i] = IF i <= Len(a) THEN a[i] ELSE b[i - Len(a)]
          BY <4>1, ConcatProperties
        <5> QED BY <4>1, <5>1
      <4> QED BY <4>2 DEF a, b
    <3>4. \A i \in 1..(n + 1) : (first(n) \o ss[n + 1])[i] = first(n + 1)[i]
      BY <3>1, <3>2, <3>3
    <3> QED BY <3>1, <3>3, <3>4
  <2>4. ss[1] \in G[1] /\ \A n \in 1..(Len(ss) - 1) : \A s \in G[n] : s \o ss[n + 1] \in G[n + 1]
    <3>1. ASSUME NEW n \in 1..(Len(ss) - 1) PROVE n \in 1..Len(ss) /\ n + 1 \in 1..Len(ss)
      BY <3>1
    <3>2. \A n \in 1..Len(ss) : G[n] = {first(n)}
      OBVIOUS
    <3>3. 1 \in 1..Len(ss)
      BY <1>2
    <3> HIDE DEF G, first
    <3>4. ss[1] \in G[1]
      BY <2>2, <3>2, <3>3
    <3>5. ASSUME NEW n \in 1..(Len(ss) - 1), NEW s \in G[n] PROVE s \o ss[n + 1] \in G[n + 1]
      <4>1. s = first(n)
        BY <3>1, <3>2, <3>5
      <4>2. first(n) \o ss[n + 1] = first(n + 1)
        BY <2>3, <3>5
      <4> QED BY <3>1, <3>2, <4>1, <4>2
    <3> QED BY <3>4, <3>5
  <2>5. \A n \in 1..Len(ss) : f[n] \in G[n]
    <3> HIDE DEF G
    <3> QED BY <1>2, <2>1, <2>4, FlattensInduct
  <2>6. Len(ss) \in 1..Len(ss)
    BY <1>2
  <2> QED BY <2>1, <2>5, <2>6
<1> QED BY <1>1, <1>2

-----------------------------------------------------------------------------
(* Sets of numbers in order.                                              *)

Ascends(s) == \A i, j \in DOMAIN s : i < j => s[i] < s[j]
Covers(s, S) == \A x \in S : \E i \in 1..Cardinality(S) : s[i] = x
Enumerates(s, S) == s \in [1 .. Cardinality(S) -> S] /\ Ascends(s)

\* An ascending sequence as long as a finite set names each of its elements.
LEMMA EnumeratesAll ==
  ASSUME NEW S, S \subseteq Nat, IsFiniteSet(S), NEW s, Enumerates(s, S)
  PROVE  Covers(s, S)
<1> DEFINE n == Cardinality(S)
           T == {s[i] : i \in 1..n}
<1>1. n \in Nat /\ s \in [1..n -> S]
  BY FS_CardinalityType DEF Enumerates
<1>2. IsFiniteSet(1..n) /\ Cardinality(1..n) = n
  BY <1>1, FS_Interval
<1>3. s \in Injection(1..n, T)
  <2>1. s \in [1..n -> T]
    BY <1>1
  <2>2. ASSUME NEW i \in 1..n, NEW j \in 1..n, s[i] = s[j] PROVE i = j
    <3>1. s[i] \in Nat /\ s[j] \in Nat
      BY <1>1, <2>2
    <3>2. ~(i < j) /\ ~(j < i)
      BY <1>1, <2>2, <3>1 DEF Enumerates, Ascends
    <3> QED BY <3>2, <1>1
  <2> HIDE DEF T, n
  <2> QED BY <2>1, <2>2 DEF Injection, IsInjective
<1>4. s \in Surjection(1..n, T)
  BY <1>1 DEF Surjection
<1>5. IsFiniteSet(T) /\ Cardinality(T) = n
  <2>1. s \in Bijection(1..n, T)
    BY <1>3, <1>4 DEF Bijection
  <2>2. ExistsBijection(1..n, T)
    BY <2>1 DEF ExistsBijection
  <2> HIDE DEF T, n
  <2> QED BY <1>2, <2>2, FS_Bijection
<1>6. T \subseteq S
  BY <1>1
<1>7. T = S
  BY <1>5, <1>6, FS_Subset
<1> QED BY <1>7 DEF Covers

\* There is one such sequence,
LEMMA EnumeratesOne ==
  ASSUME NEW S, S \subseteq Nat, IsFiniteSet(S), NEW s, NEW t, Enumerates(s, S), Enumerates(t, S)
  PROVE  s = t
<1>a. Covers(s, S) /\ Covers(t, S)
  BY EnumeratesAll
<1> DEFINE n == Cardinality(S)
           Bad == {i \in 1..n : s[i] # t[i]}
<1>1. n \in Nat /\ s \in [1..n -> S] /\ t \in [1..n -> S]
  BY FS_CardinalityType DEF Enumerates
<1>2. CASE Bad = {}
  BY <1>1, <1>2
<1>3. CASE Bad # {}
  <2>1. PICK i \in Bad : \A j \in Bad : i <= j
    <3>1. Bad \subseteq Nat
      BY <1>1
    <3> HIDE DEF Bad
    <3> QED BY <1>3, <3>1, LeastNat
  <2>2. i \in 1..n /\ s[i] # t[i] /\ \A j \in 1..n : j < i => s[j] = t[j]
    BY <1>1, <2>1
  <2>3. s[i] \in S /\ t[i] \in S /\ s[i] \in Nat /\ t[i] \in Nat
    BY <1>1, <2>2
  <2>4. PICK j \in 1..n : t[j] = s[i]
    BY <2>3, <1>a DEF Covers
  <2>5. PICK k \in 1..n : s[k] = t[i]
    BY <2>3, <1>a DEF Covers
  <2>6. \A a, b \in 1..n : a < b => s[a] < s[b] /\ t[a] < t[b]
    BY <1>1 DEF Enumerates, Ascends
  <2>7. j \in Nat /\ k \in Nat /\ i \in Nat
    BY <1>1
  <2>8. i < j /\ i < k
    <3>1. j # i /\ k # i
      BY <2>2, <2>4, <2>5
    <3>2. ~(j < i)
      <4>1. SUFFICES ASSUME j < i PROVE FALSE
        OBVIOUS
      <4>2. s[j] = s[i] /\ s[j] < s[i]
        BY <2>2, <2>4, <2>6, <4>1
      <4> QED BY <4>2, <2>3
    <3>3. ~(k < i)
      <4>1. SUFFICES ASSUME k < i PROVE FALSE
        OBVIOUS
      <4>2. t[k] = t[i] /\ t[k] < t[i]
        BY <2>2, <2>5, <2>6, <4>1
      <4> QED BY <4>2, <2>3
    <3> QED BY <3>1, <3>2, <3>3, <2>7
  <2>9. t[i] < s[i] /\ s[i] < t[i]
    BY <2>4, <2>5, <2>6, <2>8, <2>2
  <2> QED BY <2>3, <2>9
<1> QED BY <1>2, <1>3

\* and there is one: it grows by each number that is greater than the others,
LEMMA EnumeratesMore ==
  ASSUME NEW S, S \subseteq Nat, IsFiniteSet(S), NEW s, Enumerates(s, S), NEW x \in Nat, \A y \in S : y < x
  PROVE  Enumerates(Append(s, x), S \cup {x}) /\ IsFiniteSet(S \cup {x})
<1> DEFINE n == Cardinality(S)
<1>1. n \in Nat /\ s \in [1..n -> S] /\ s \in Seq(Nat) /\ Len(s) = n
  <2>1. n \in Nat /\ s \in [1..n -> S]
    BY FS_CardinalityType DEF Enumerates
  <2> HIDE DEF n
  <2>2. s \in [1..n -> Nat]
    BY <2>1
  <2> QED BY <2>1, <2>2
<1>2. x \notin S
  OBVIOUS
<1>3. Cardinality(S \cup {x}) = n + 1 /\ IsFiniteSet(S \cup {x})
  BY <1>2, FS_AddElement
<1>4. /\ DOMAIN Append(s, x) = 1..(n + 1)
      /\ \A i \in 1..n : Append(s, x)[i] = s[i]
      /\ Append(s, x)[n + 1] = x /\ Append(s, x) \in Seq(Nat)
  <2> HIDE DEF n
  <2> QED BY <1>1, Appended
<1>5. Append(s, x) \in [1..(n + 1) -> S \cup {x}]
  <2>1. \A i \in 1..(n + 1) : Append(s, x)[i] \in S \cup {x}
    <3> HIDE DEF n
    <3> QED BY <1>1, <1>4
  <2>2. Append(s, x) = [i \in 1..(n + 1) |-> Append(s, x)[i]]
    <3>1. \A q \in Seq(Nat) : q = [i \in DOMAIN q |-> q[i]]
      OBVIOUS
    <3> HIDE DEF n
    <3> QED BY <1>4, <3>1
  <2> HIDE DEF n
  <2> QED BY <2>1, <2>2
<1>6. Ascends(Append(s, x))
  <2> SUFFICES ASSUME NEW i \in 1..(n + 1), NEW j \in 1..(n + 1), i < j PROVE Append(s, x)[i] < Append(s, x)[j]
    BY <1>4 DEF Ascends
  <2>1. i \in 1..n /\ s[i] \in S
    BY <1>1
  <2>2. CASE j = n + 1
    BY <1>4, <2>1, <2>2
  <2>3. CASE j # n + 1
    <3>1. j \in 1..n
      BY <1>1, <2>3
    <3>2. s[i] < s[j]
      BY <1>1, <2>1, <3>1 DEF Enumerates, Ascends
    <3> QED BY <1>4, <2>1, <3>1, <3>2
  <2> QED BY <2>2, <2>3
<1> HIDE DEF n
<1> QED BY <1>3, <1>5, <1>6 DEF Enumerates

\* Any set of numbers up to m can be enumerated.
LEMMA EnumeratesExists ==
  ASSUME NEW m \in Nat, NEW S, S \subseteq 1..m
  PROVE  IsFiniteSet(S) /\ S \subseteq Nat /\ \E s : Enumerates(s, S)
<1> DEFINE Upto(n) == S \cap 1..n
           T == {n \in 0..m : IsFiniteSet(Upto(n)) /\ \E s : Enumerates(s, Upto(n))}
<1>1. 0 \in T
  <2>1. Upto(0) = {} /\ IsFiniteSet({}) /\ Cardinality({}) = 0
    BY FS_EmptySet
  <2>2. Enumerates(<<>>, {})
    BY <2>1 DEF Enumerates, Ascends
  <2> QED BY <2>1, <2>2
<1>2. ASSUME NEW n \in 0..m, n \in T, n < m PROVE n + 1 \in T
  <2>0. n \in Nat /\ n + 1 \in 0..m
    BY <1>2
  <2>1. PICK s : Enumerates(s, Upto(n))
    BY <1>2
  <2>2. IsFiniteSet(Upto(n)) /\ Upto(n) \subseteq Nat /\ \A y \in Upto(n) : y < n + 1
    BY <1>2, <2>0
  <2>3. CASE n + 1 \in S
    <3>1. Upto(n + 1) = Upto(n) \cup {n + 1}
      BY <2>0, <2>3
    <3> HIDE DEF Upto
    <3>2. n + 1 \in Nat
      BY <2>0
    <3>3. Enumerates(Append(s, n + 1), Upto(n) \cup {n + 1}) /\ IsFiniteSet(Upto(n) \cup {n + 1})
      BY <2>1, <2>2, <3>2, EnumeratesMore
    <3> QED BY <2>0, <3>1, <3>3
  <2>4. CASE n + 1 \notin S
    <3>1. Upto(n + 1) = Upto(n)
      BY <2>0, <2>4
    <3> HIDE DEF Upto
    <3> QED BY <2>0, <2>1, <2>2, <3>1
  <2> QED BY <2>3, <2>4
<1>3. m \in T
  <2> HIDE DEF T
  <2>1. \A n \in 0..m : n \in T
    BY <1>1, <1>2, CountUp
  <2> QED BY <2>1
<1>4. Upto(m) = S
  OBVIOUS
<1>5. IsFiniteSet(S) /\ \E s : Enumerates(s, S)
  <2> HIDE DEF Upto
  <2> QED BY <1>3, <1>4
<1> QED BY <1>5

-----------------------------------------------------------------------------
(* Whose ids are in a sequence.                                            *)

\* The ids that the elements of T have in a sequence, no two the same.
Ids(s, T) == {s[i].id : i \in Places(s, T)}
Apart(s, T) == \A i, j \in Places(s, T) : s[i].id = s[j].id => i = j

LEMMA IdsConcat ==
  ASSUME NEW S, NEW T, NEW s \in Seq(S), NEW t \in Seq(S)
  PROVE  /\ s \o t \in Seq(S) /\ Ids(s \o t, T) = Ids(s, T) \cup Ids(t, T)
         /\ Apart(s, T) /\ Apart(t, T) /\ Ids(s, T) \cap Ids(t, T) = {} => Apart(s \o t, T)
         /\ \A P : (\A i \in Places(s, T) : s[i] \in P) /\ (\A i \in Places(t, T) : t[i] \in P)
                     => \A i \in Places(s \o t, T) : (s \o t)[i] \in P
<1> DEFINE c == s \o t
<1>1. /\ c \in Seq(S) /\ Len(c) = Len(s) + Len(t)
      /\ \A i \in 1 .. Len(s) + Len(t) : c[i] = IF i <= Len(s) THEN s[i] ELSE t[i - Len(s)]
  BY ConcatProperties
<1>2. Len(s) \in Nat /\ Len(t) \in Nat /\ DOMAIN s = 1..Len(s) /\ DOMAIN t = 1..Len(t)
  OBVIOUS
<1> HIDE DEF c
<1>3. DOMAIN c = 1..(Len(s) + Len(t))
  BY <1>1
<1>4. ASSUME NEW i \in Places(s, T) PROVE i \in Places(c, T) /\ c[i] = s[i]
  <2>1. i \in 1..Len(s) /\ s[i] \in T
    BY <1>2 DEF Places
  <2>2. i \in 1..(Len(s) + Len(t)) /\ i <= Len(s)
    BY <1>2, <2>1
  <2>3. c[i] = s[i]
    BY <1>1, <2>2
  <2> QED BY <1>3, <2>1, <2>2, <2>3 DEF Places
<1>5. ASSUME NEW i \in Places(t, T) PROVE i + Len(s) \in Places(c, T) /\ c[i + Len(s)] = t[i]
  <2>1. i \in 1..Len(t) /\ t[i] \in T
    BY <1>2 DEF Places
  <2>2. i + Len(s) \in 1..(Len(s) + Len(t)) /\ ~(i + Len(s) <= Len(s)) /\ (i + Len(s)) - Len(s) = i
    BY <1>2, <2>1
  <2>3. c[i + Len(s)] = t[i]
    BY <1>1, <2>2
  <2> QED BY <1>3, <2>1, <2>2, <2>3 DEF Places
<1>6. ASSUME NEW i \in Places(c, T)
      PROVE  \/ i \in Places(s, T) /\ c[i] = s[i]
             \/ i - Len(s) \in Places(t, T) /\ c[i] = t[i - Len(s)] /\ i \in Int
  <2>1. i \in 1..(Len(s) + Len(t)) /\ c[i] \in T
    BY <1>3 DEF Places
  <2>2. CASE i <= Len(s)
    <3>1. i \in 1..Len(s) /\ c[i] = s[i]
      BY <1>1, <1>2, <2>1, <2>2
    <3> QED BY <1>2, <2>1, <3>1 DEF Places
  <2>3. CASE ~(i <= Len(s))
    <3>1. i - Len(s) \in 1..Len(t) /\ c[i] = t[i - Len(s)] /\ i \in Int
      BY <1>1, <1>2, <2>1, <2>3
    <3> QED BY <1>2, <2>1, <3>1 DEF Places
  <2> QED BY <2>2, <2>3
<1>7. Ids(c, T) = Ids(s, T) \cup Ids(t, T)
  <2>1. ASSUME NEW x \in Ids(c, T) PROVE x \in Ids(s, T) \cup Ids(t, T)
    <3>1. PICK i \in Places(c, T) : x = c[i].id
      BY DEF Ids
    <3> QED BY <1>6, <3>1 DEF Ids
  <2>2. ASSUME NEW x \in Ids(s, T) PROVE x \in Ids(c, T)
    <3>1. PICK i \in Places(s, T) : x = s[i].id
      BY DEF Ids
    <3> QED BY <1>4, <3>1 DEF Ids
  <2>3. ASSUME NEW x \in Ids(t, T) PROVE x \in Ids(c, T)
    <3>1. PICK i \in Places(t, T) : x = t[i].id
      BY DEF Ids
    <3> QED BY <1>5, <3>1 DEF Ids
  <2> QED BY <2>1, <2>2, <2>3
<1>8. ASSUME Apart(s, T), Apart(t, T), Ids(s, T) \cap Ids(t, T) = {} PROVE Apart(c, T)
  <2> SUFFICES ASSUME NEW i \in Places(c, T), NEW j \in Places(c, T), c[i].id = c[j].id PROVE i = j
    BY DEF Apart
  <2>1. /\ i \in Places(s, T) => c[i].id \in Ids(s, T)
        /\ i - Len(s) \in Places(t, T) /\ c[i] = t[i - Len(s)] => c[i].id \in Ids(t, T)
    BY <1>4 DEF Ids
  <2>2. /\ j \in Places(s, T) => c[j].id \in Ids(s, T)
        /\ j - Len(s) \in Places(t, T) /\ c[j] = t[j - Len(s)] => c[j].id \in Ids(t, T)
    BY <1>4 DEF Ids
  <2>3. CASE i \in Places(s, T)
    <3>1. j \in Places(s, T)
      BY <1>6, <1>8, <2>1, <2>2, <2>3
    <3> QED BY <1>4, <1>8, <2>3, <3>1 DEF Apart
  <2>4. CASE i \notin Places(s, T)
    <3>1. i - Len(s) \in Places(t, T) /\ c[i] = t[i - Len(s)] /\ i \in Int
      BY <1>6, <2>4
    <3>2. j - Len(s) \in Places(t, T) /\ c[j] = t[j - Len(s)] /\ j \in Int
      BY <1>6, <1>8, <2>1, <2>2, <3>1
    <3>3. i - Len(s) = j - Len(s)
      BY <1>8, <3>1, <3>2 DEF Apart
    <3> QED BY <1>2, <3>1, <3>2, <3>3
  <2> QED BY <2>3, <2>4
<1>9. ASSUME NEW P, \A i \in Places(s, T) : s[i] \in P, \A i \in Places(t, T) : t[i] \in P
      PROVE  \A i \in Places(c, T) : c[i] \in P
  BY <1>6, <1>9
<1> QED BY <1>1, <1>7, <1>8, <1>9 DEF c

LEMMA IdsSingle ==
  ASSUME NEW T, NEW e
  PROVE  /\ Ids(<<e>>, T) = IF e \in T THEN {e.id} ELSE {}
         /\ Apart(<<e>>, T) /\ Ids(<<>>, T) = {} /\ Apart(<<>>, T)
<1>1. Places(<<e>>, T) = IF e \in T THEN {1} ELSE {}
  BY DEF Places
<1>2. Places(<<>>, T) = {}
  BY DEF Places
<1>3. <<e>>[1] = e
  OBVIOUS
<1>4. CASE e \in T
  BY <1>1, <1>2, <1>3, <1>4 DEF Ids, Apart
<1>5. CASE e \notin T
  BY <1>1, <1>2, <1>5 DEF Ids, Apart
<1> QED BY <1>4, <1>5

LEMMA IdsSplit ==
  ASSUME NEW S, NEW T, NEW s \in Seq(S), s # <<>>
  PROVE  /\ Ids(s, T) = Ids(Tail(s), T) \cup (IF Head(s) \in T THEN {Head(s).id} ELSE {})
         /\ Apart(s, T) => Apart(Tail(s), T)
         /\ Apart(s, T) /\ Head(s) \in T => Head(s).id \notin Ids(Tail(s), T)
<1>1. /\ Tail(s) \in Seq(S) /\ 1 \in DOMAIN s /\ Head(s) = s[1] /\ DOMAIN s \subseteq Nat
      /\ \A i \in DOMAIN Tail(s) : i + 1 \in DOMAIN s /\ Tail(s)[i] = s[i + 1]
      /\ \A i \in DOMAIN s : i # 1 => i - 1 \in DOMAIN Tail(s) /\ Tail(s)[i - 1] = s[i]
      /\ DOMAIN Tail(s) \subseteq Nat /\ 0 \notin DOMAIN Tail(s)
  BY Dropped
<1>2. ASSUME NEW i \in Places(Tail(s), T) PROVE i + 1 \in Places(s, T) /\ Tail(s)[i] = s[i + 1] /\ i + 1 # 1 /\ i \in Nat
  BY <1>1 DEF Places
<1>3. ASSUME NEW i \in Places(s, T), i # 1 PROVE i - 1 \in Places(Tail(s), T) /\ Tail(s)[i - 1] = s[i]
  BY <1>1, <1>3 DEF Places
<1>4. 1 \in Places(s, T) <=> Head(s) \in T
  BY <1>1 DEF Places
<1>5. Ids(s, T) = Ids(Tail(s), T) \cup (IF Head(s) \in T THEN {Head(s).id} ELSE {})
  <2>1. ASSUME NEW x \in Ids(s, T) PROVE x \in Ids(Tail(s), T) \cup (IF Head(s) \in T THEN {Head(s).id} ELSE {})
    <3>1. PICK i \in Places(s, T) : x = s[i].id
      BY DEF Ids
    <3>2. CASE i = 1
      BY <1>1, <1>4, <3>1, <3>2
    <3>3. CASE i # 1
      BY <1>3, <3>1, <3>3 DEF Ids
    <3> QED BY <3>2, <3>3
  <2>2. ASSUME NEW x \in Ids(Tail(s), T) PROVE x \in Ids(s, T)
    <3>1. PICK i \in Places(Tail(s), T) : x = Tail(s)[i].id
      BY DEF Ids
    <3> QED BY <1>2, <3>1 DEF Ids
  <2>3. ASSUME Head(s) \in T PROVE Head(s).id \in Ids(s, T)
    BY <1>1, <1>4, <2>3 DEF Ids
  <2> QED BY <2>1, <2>2, <2>3
<1>6. ASSUME Apart(s, T) PROVE Apart(Tail(s), T)
  <2> SUFFICES ASSUME NEW i \in Places(Tail(s), T), NEW j \in Places(Tail(s), T), Tail(s)[i].id = Tail(s)[j].id PROVE i = j
    BY DEF Apart
  <2>1. i + 1 = j + 1
    BY <1>2, <1>6 DEF Apart
  <2> QED BY <1>2, <2>1
<1>7. ASSUME Apart(s, T), Head(s) \in T PROVE Head(s).id \notin Ids(Tail(s), T)
  <2> SUFFICES ASSUME NEW i \in Places(Tail(s), T), Tail(s)[i].id = Head(s).id PROVE FALSE
    BY DEF Ids
  <2> QED BY <1>1, <1>2, <1>4, <1>7 DEF Apart
<1> QED BY <1>5, <1>6, <1>7

\* As many elements as ids.
LEMMA IdsCount ==
  ASSUME NEW S, NEW T, NEW s \in Seq(S), Apart(s, T)
  PROVE  IsFiniteSet(Ids(s, T)) /\ Cardinality(Ids(s, T)) = Cardinality(Places(s, T))
<1> DEFINE f == [i \in Places(s, T) |-> s[i].id]
<1>1. IsFiniteSet(Places(s, T))
  BY PlacesFinite
<1>2. f \in Surjection(Places(s, T), Ids(s, T))
  BY DEF Surjection, Ids
<1>3. f \in Injection(Places(s, T), Ids(s, T))
  BY DEF Injection, IsInjective, Ids, Apart
<1>4. ExistsBijection(Places(s, T), Ids(s, T))
  BY <1>2, <1>3 DEF ExistsBijection, Bijection
<1> QED BY <1>1, <1>4, FS_Bijection
-----------------------------------------------------------------------------
(* Walks: a sequence whose elements each lead from a value to the next.    *)

\* The elements of s lead from x to y, each by one of the pairs that a gives.
Walks(a, s, x, y) ==
  \E w : /\ w[0] = x /\ w[Len(s)] = y
         /\ \A i \in 1..Len(s) : <<w[i - 1], w[i]>> \in a[s[i]]

LEMMA WalksNowhere == ASSUME NEW a, NEW x, NEW y PROVE Walks(a, <<>>, x, y) <=> x = y
<1>1. ASSUME x = y PROVE Walks(a, <<>>, x, y)
  <2> DEFINE w == [i \in {0} |-> x]
  <2>1. w[0] = x /\ w[Len(<<>>)] = y /\ \A i \in 1..Len(<<>>) : <<w[i - 1], w[i]>> \in a[<<>>[i]]
    BY <1>1
  <2> HIDE DEF w
  <2> QED BY <2>1 DEF Walks
<1>2. ASSUME Walks(a, <<>>, x, y) PROVE x = y
  BY <1>2 DEF Walks
<1> QED BY <1>1, <1>2

LEMMA WalksAppend ==
  ASSUME NEW S, NEW s \in Seq(S), NEW e \in S, NEW a, NEW x, NEW y, NEW z, Walks(a, s, x, y), <<y, z>> \in a[e]
  PROVE  Walks(a, Append(s, e), x, z)
<1> DEFINE n == Len(s)
           t == Append(s, e)
<1>1. n \in Nat /\ Len(t) = n + 1 /\ t[n + 1] = e /\ \A i \in 1..n : t[i] = s[i]
  OBVIOUS
<1>2. PICK w : w[0] = x /\ w[n] = y /\ \A i \in 1..n : <<w[i - 1], w[i]>> \in a[s[i]]
  BY DEF Walks
<1> DEFINE v == [i \in 0..(n + 1) |-> IF i = n + 1 THEN z ELSE w[i]]
<1> HIDE DEF n, t
<1>3. v[0] = x /\ v[n + 1] = z /\ \A i \in 0..n : v[i] = w[i]
  BY <1>1, <1>2
<1> HIDE DEF v
<1>4. ASSUME NEW i \in 1..(n + 1) PROVE <<v[i - 1], v[i]>> \in a[t[i]]
  <2>1. CASE i = n + 1
    <3>1. i - 1 = n /\ n \in 0..n
      BY <1>1, <2>1
    <3> QED BY <1>1, <1>2, <1>3, <2>1, <3>1
  <2>2. CASE i # n + 1
    <3>1. i \in 1..n /\ i \in 0..n /\ i - 1 \in 0..n
      BY <1>1, <2>2
    <3> QED BY <1>1, <1>2, <1>3, <3>1
  <2> QED BY <2>1, <2>2
<1> QED BY <1>1, <1>3, <1>4 DEF Walks, t

LEMMA WalksTail ==
  ASSUME NEW S, NEW s \in Seq(S), s # <<>>, NEW a, NEW x, NEW y, Walks(a, s, x, y)
  PROVE  \E z : <<x, z>> \in a[Head(s)] /\ Walks(a, Tail(s), z, y)
<1> DEFINE n == Len(s)
           t == Tail(s)
<1>1. n \in Nat /\ 1 <= n /\ Len(t) = n - 1 /\ Head(s) = s[1] /\ \A i \in 1..(n - 1) : t[i] = s[i + 1]
  OBVIOUS
<1>2. PICK w : w[0] = x /\ w[n] = y /\ \A i \in 1..n : <<w[i - 1], w[i]>> \in a[s[i]]
  BY DEF Walks
<1> DEFINE v == [i \in 0..(n - 1) |-> w[i + 1]]
<1> HIDE DEF n, t
<1>3. \A i \in 0..(n - 1) : v[i] = w[i + 1]
  OBVIOUS
<1>4. v[0] = w[1] /\ v[n - 1] = y
  <2>1. 0 \in 0..(n - 1) /\ n - 1 \in 0..(n - 1) /\ 0 + 1 = 1 /\ (n - 1) + 1 = n
    BY <1>1
  <2> HIDE DEF v
  <2>2. v[0] = w[0 + 1] /\ v[n - 1] = w[(n - 1) + 1]
    BY <1>3, <2>1
  <2> QED BY <1>2, <2>1, <2>2
<1> HIDE DEF v
<1>5. ASSUME NEW i \in 1..(n - 1) PROVE <<v[i - 1], v[i]>> \in a[t[i]]
  <2>1. i \in 0..(n - 1) /\ i - 1 \in 0..(n - 1) /\ i + 1 \in 1..n /\ (i - 1) + 1 = i /\ (i + 1) - 1 = i
    BY <1>1
  <2>2. v[i - 1] = w[i] /\ v[i] = w[i + 1]
    BY <1>3, <2>1
  <2>3. <<w[i], w[i + 1]>> \in a[s[i + 1]]
    BY <1>2, <2>1
  <2> QED BY <1>1, <2>2, <2>3
<1>6. <<x, w[1]>> \in a[Head(s)]
  <2>1. 1 \in 1..n /\ 1 - 1 = 0
    BY <1>1
  <2>2. <<w[1 - 1], w[1]>> \in a[s[1]]
    BY <1>2, <2>1
  <2> QED BY <1>1, <1>2, <2>1, <2>2
<1>7. Walks(a, t, w[1], y)
  BY <1>1, <1>4, <1>5 DEF Walks
<1> QED BY <1>6, <1>7 DEF t

LEMMA WalksCons ==
  ASSUME NEW S, NEW s \in Seq(S), NEW e \in S, NEW a, NEW x, NEW y, NEW z, Walks(a, s, y, z), <<x, y>> \in a[e]
  PROVE  Walks(a, <<e>> \o s, x, z)
<1> DEFINE n == Len(s)
           t == <<e>> \o s
<1>1. n \in Nat /\ Len(t) = n + 1 /\ t[1] = e /\ \A i \in 1..n : t[i + 1] = s[i]
  OBVIOUS
<1>2. PICK w : w[0] = y /\ w[n] = z /\ \A i \in 1..n : <<w[i - 1], w[i]>> \in a[s[i]]
  BY DEF Walks
<1> DEFINE v == [i \in 0..(n + 1) |-> IF i = 0 THEN x ELSE w[i - 1]]
<1> HIDE DEF n, t
<1>3. v[0] = x /\ v[n + 1] = z /\ \A i \in 1..(n + 1) : v[i] = w[i - 1]
  <2>1. n + 1 \in 0..(n + 1) /\ n + 1 # 0 /\ (n + 1) - 1 = n
    BY <1>1
  <2>2. v[n + 1] = w[(n + 1) - 1]
    BY <2>1
  <2>3. v[n + 1] = z
    BY <1>2, <2>1, <2>2
  <2> QED BY <1>1, <2>3
<1> HIDE DEF v
<1>4. ASSUME NEW i \in 1..(n + 1) PROVE <<v[i - 1], v[i]>> \in a[t[i]]
  <2>1. CASE i = 1
    <3>1. i - 1 = 0 /\ 1 \in 1..(n + 1)
      BY <1>1, <2>1
    <3>2. v[1] = w[1 - 1] /\ 1 - 1 = 0
      BY <1>3, <3>1
    <3> QED BY <1>1, <1>2, <1>3, <2>1, <3>1, <3>2
  <2>2. CASE i # 1
    <3>1. i - 1 \in 1..n /\ i - 1 \in 1..(n + 1) /\ i = (i - 1) + 1
      BY <1>1, <2>2
    <3>2. v[i - 1] = w[(i - 1) - 1] /\ v[i] = w[i - 1] /\ t[(i - 1) + 1] = s[i - 1]
      BY <1>1, <1>3, <3>1
    <3>3. <<w[(i - 1) - 1], w[i - 1]>> \in a[s[i - 1]]
      BY <1>2, <3>1
    <3> QED BY <3>1, <3>2, <3>3
  <2> QED BY <2>1, <2>2
<1> QED BY <1>1, <1>3, <1>4 DEF Walks, t

\* From a place on that only elements follow that stay where they are,
LEMMA WalksStay ==
  ASSUME NEW n \in Nat, NEW m \in 0..n, NEW w, \A i \in (m + 1)..n : w[i] = w[i - 1]
  PROVE  w[n] = w[m]
<1> DEFINE T == {k \in 0..(n - m) : w[m + k] = w[m]}
<1>1. n - m \in Nat /\ 0 \in T /\ m \in Nat
  OBVIOUS
<1>2. \A k \in 0..(n - m) : k \in T /\ k < n - m => k + 1 \in T
  <2> SUFFICES ASSUME NEW k \in 0..(n - m), k \in T, k < n - m PROVE k + 1 \in T
    OBVIOUS
  <2>1. m + k + 1 \in (m + 1)..n /\ (m + k + 1) - 1 = m + k /\ k + 1 \in 0..(n - m) /\ m + (k + 1) = m + k + 1
    BY <1>1
  <2>2. w[m + k + 1] = w[(m + k + 1) - 1]
    BY <2>1
  <2>3. w[m + (k + 1)] = w[m]
    BY <2>1, <2>2
  <2> QED BY <2>1, <2>3
<1>3. n - m \in T
  <2>1. \A k \in 0..(n - m) : k \in T
    <3> HIDE DEF T
    <3> QED BY <1>1, <1>2, CountUp
  <2> HIDE DEF T
  <2> QED BY <1>1, <2>1
<1>4. m + (n - m) = n
  BY <1>1
<1> QED BY <1>3, <1>4

\* the walk ends at what the element there leads to, or where it began.
LEMMA WalksLast ==
  ASSUME NEW S, NEW s \in Seq(S), NEW a, NEW x, NEW y, Walks(a, s, x, y), NEW m \in 0..Len(s),
         \A i \in (m + 1)..Len(s) : \A p \in a[s[i]] : p[1] = p[2]
  PROVE  IF m = 0 THEN y = x ELSE \E z : <<z, y>> \in a[s[m]]
<1> DEFINE n == Len(s)
<1>1. PICK w : w[0] = x /\ w[n] = y /\ \A i \in 1..n : <<w[i - 1], w[i]>> \in a[s[i]]
  BY DEF Walks
<1>2. n \in Nat
  OBVIOUS
<1> HIDE DEF n
<1>3. \A i \in (m + 1)..n : w[i] = w[i - 1]
  <2> SUFFICES ASSUME NEW i \in (m + 1)..n PROVE w[i] = w[i - 1]
    OBVIOUS
  <2>1. i \in 1..n
    BY <1>2 DEF n
  <2>2. <<w[i - 1], w[i]>> \in a[s[i]]
    BY <1>1, <2>1
  <2>3. <<w[i - 1], w[i]>>[1] = <<w[i - 1], w[i]>>[2]
    BY <2>2 DEF n
  <2> QED BY <2>3
<1>4. w[n] = w[m]
  BY <1>2, <1>3, WalksStay DEF n
<1>5. CASE m = 0
  BY <1>1, <1>4, <1>5
<1>6. CASE m # 0
  <2>1. m \in 1..n
    BY <1>2, <1>6 DEF n
  <2>2. <<w[m - 1], y>> \in a[s[m]]
    BY <1>1, <1>4, <2>1
  <2> QED BY <1>6, <2>2
<1> QED BY <1>5, <1>6

\* The greatest of some numbers up to n.
LEMMA GreatestNat ==
  ASSUME NEW n \in Nat, NEW G, G \subseteq 0..n, G # {}
  PROVE  Max(G) \in G /\ \A y \in G : Max(G) >= y
<1> DEFINE T == {k \in 0..n : n - k \in G}
<1>1. T \subseteq Nat /\ T # {}
  <2>1. PICK g \in G : TRUE
    OBVIOUS
  <2>2. g \in 0..n
    BY <2>1
  <2>3. n - g \in 0..n /\ n - (n - g) = g
    BY <2>2
  <2>4. n - g \in T
    BY <2>1, <2>3
  <2>5. T \subseteq Nat
    OBVIOUS
  <2> HIDE DEF T
  <2> QED BY <2>4, <2>5
<1>2. PICK x \in T : \A y \in T : x <= y
  <2> HIDE DEF T
  <2> QED BY <1>1, LeastNat
<1>3. x \in 0..n /\ n - x \in G
  BY <1>2
<1>4. ASSUME NEW y \in G PROVE n - x >= y
  <2>1. y \in 0..n
    BY <1>4
  <2>2. n - y \in 0..n /\ n - (n - y) = y
    BY <2>1
  <2>3. n - y \in T
    BY <2>2
  <2>4. x <= n - y
    BY <1>2, <2>3
  <2> QED BY <1>3, <2>1, <2>4
<1>5. \E g \in G : \A y \in G : g >= y
  BY <1>3, <1>4
<1> QED BY <1>5 DEF Max

\* One walk after another.
LEMMA WalksConcat ==
  ASSUME NEW S, NEW s \in Seq(S), NEW t \in Seq(S), NEW a, NEW x, NEW y, NEW z, Walks(a, s, x, y), Walks(a, t, y, z)
  PROVE  Walks(a, s \o t, x, z)
<1> DEFINE m == Len(s)
           n == Len(t)
           r == s \o t
<1>1. m \in Nat /\ n \in Nat /\ Len(r) = m + n /\ (\A i \in 1..m : r[i] = s[i]) /\ \A i \in 1..n : r[m + i] = t[i]
  OBVIOUS
<1>2. PICK v : v[0] = x /\ v[m] = y /\ \A i \in 1..m : <<v[i - 1], v[i]>> \in a[s[i]]
  BY DEF Walks
<1>3. PICK w : w[0] = y /\ w[n] = z /\ \A i \in 1..n : <<w[i - 1], w[i]>> \in a[t[i]]
  BY DEF Walks
<1> DEFINE u == [i \in 0..(m + n) |-> IF i <= m THEN v[i] ELSE w[i - m]]
<1> HIDE DEF m, n, r
<1>4. (\A i \in 0..m : u[i] = v[i]) /\ \A i \in 0..n : u[m + i] = w[i]
  <2>1. \A i \in 0..m : u[i] = v[i]
    BY <1>1
  <2>2. ASSUME NEW i \in 0..n PROVE u[m + i] = w[i]
    <3>1. m + i \in 0..(m + n) /\ (m + i) - m = i /\ m + 0 = m
      BY <1>1
    <3>2. CASE i = 0
      BY <1>1, <1>2, <1>3, <3>1, <3>2
    <3>3. CASE i # 0
      <4>1. ~(m + i <= m)
        BY <1>1, <3>3
      <4> QED BY <3>1, <4>1
    <3> QED BY <3>2, <3>3
  <2> HIDE DEF u
  <2> QED BY <2>1, <2>2
<1> HIDE DEF u
<1>5. u[0] = x /\ u[m + n] = z
  <2>1. 0 \in 0..m /\ n \in 0..n
    BY <1>1
  <2> QED BY <1>2, <1>3, <1>4, <2>1
<1>6. ASSUME NEW i \in 1..(m + n) PROVE <<u[i - 1], u[i]>> \in a[r[i]]
  <2>1. CASE i <= m
    <3>1. i \in 1..m /\ i \in 0..m /\ i - 1 \in 0..m
      BY <1>1, <2>1
    <3> QED BY <1>1, <1>2, <1>4, <3>1
  <2>2. CASE ~(i <= m)
    <3> DEFINE k == i - m
    <3>1. k \in 1..n /\ k \in 0..n /\ k - 1 \in 0..n /\ i = m + k /\ i - 1 = m + (k - 1)
      BY <1>1, <2>2
    <3> HIDE DEF k
    <3>2. u[i] = w[k] /\ u[i - 1] = w[k - 1] /\ r[i] = t[k]
      BY <1>1, <1>4, <3>1
    <3> QED BY <1>3, <3>1, <3>2
  <2> QED BY <2>1, <2>2
<1> QED BY <1>1, <1>5, <1>6 DEF Walks, r

\* A walk none of whose elements moves.
LEMMA WalksStill ==
  ASSUME NEW S, NEW s \in Seq(S), NEW a, NEW x, \A i \in DOMAIN s : <<x, x>> \in a[s[i]]
  PROVE  Walks(a, s, x, x)
<1> DEFINE w == [i \in 0..Len(s) |-> x]
<1>1. Len(s) \in Nat /\ DOMAIN s = 1..Len(s)
  OBVIOUS
<1>2. w[0] = x /\ w[Len(s)] = x /\ \A i \in 1..Len(s) : w[i - 1] = x /\ w[i] = x
  <2>1. 0 \in 0..Len(s) /\ Len(s) \in 0..Len(s) /\ \A i \in 1..Len(s) : i \in 0..Len(s) /\ i - 1 \in 0..Len(s)
    BY <1>1
  <2> QED BY <2>1
<1> HIDE DEF w
<1> QED BY <1>1, <1>2 DEF Walks

\* The values up to the first element that moves are where the walk begins.
LEMMA WalksFirst ==
  ASSUME NEW S, NEW s \in Seq(S), NEW a, NEW x, NEW y, Walks(a, s, x, y), NEW m \in 1..Len(s),
         \A i \in 1..(m - 1) : \A p \in a[s[i]] : p[1] = p[2]
  PROVE  \E z : <<x, z>> \in a[s[m]]
<1> DEFINE n == Len(s)
<1>1. PICK w : w[0] = x /\ w[n] = y /\ \A i \in 1..n : <<w[i - 1], w[i]>> \in a[s[i]]
  BY DEF Walks
<1>2. n \in Nat /\ m - 1 \in Nat /\ 0 \in 0..(m - 1)
  OBVIOUS
<1>3. \A i \in 1..(m - 1) : w[i] = w[i - 1]
  <2> SUFFICES ASSUME NEW i \in 1..(m - 1) PROVE w[i] = w[i - 1]
    OBVIOUS
  <2>1. i \in 1..n
    BY <1>2
  <2> HIDE DEF n
  <2>2. <<w[i - 1], w[i]>> \in a[s[i]]
    BY <1>1, <2>1
  <2>3. <<w[i - 1], w[i]>>[1] = <<w[i - 1], w[i]>>[2]
    BY <2>2
  <2> QED BY <2>3
<1>4. w[m - 1] = w[0]
  <2>1. \A i \in (0 + 1)..(m - 1) : w[i] = w[i - 1]
    BY <1>3
  <2> HIDE DEF n
  <2> QED BY <1>2, <2>1, WalksStay
<1>5. <<w[m - 1], w[m]>> \in a[s[m]]
  BY <1>1
<1> QED BY <1>1, <1>4, <1>5

\* From anywhere there is a walk when every element leads on.
LEMMA WalksTotal ==
  ASSUME NEW S, NEW s \in Seq(S), NEW a, NEW V, NEW x \in V,
         \A e \in S, v \in V : \E u \in V : <<v, u>> \in a[e]
  PROVE  \E y \in V : Walks(a, s, x, y)
<1> DEFINE pre(n) == SubSeq(s, 1, n)
           T == {n \in 0..Len(s) : \E y \in V : Walks(a, pre(n), x, y)}
<1>1. Len(s) \in Nat /\ pre(0) = <<>> /\ pre(Len(s)) = s
  OBVIOUS
<1>2. ASSUME NEW n \in 0..Len(s), n < Len(s)
      PROVE  pre(n) \in Seq(S) /\ s[n + 1] \in S /\ pre(n + 1) = Append(pre(n), s[n + 1])
  <2>1. n + 1 \in 1..Len(s)
    BY <1>1, <1>2
  <2> QED BY <1>1, <1>2, <2>1
<1> HIDE DEF pre
<1>3. 0 \in T
  <2>1. Walks(a, <<>>, x, x)
    BY WalksNowhere
  <2>2. 0 \in 0..Len(s)
    BY <1>1
  <2> QED BY <1>1, <2>1, <2>2
<1>4. ASSUME NEW n \in 0..Len(s), n \in T /\ n < Len(s) PROVE n + 1 \in T
  <2>1. PICK y \in V : Walks(a, pre(n), x, y)
    BY <1>4
  <2>2. PICK z \in V : <<y, z>> \in a[s[n + 1]]
    BY <1>2, <1>4
  <2>3. Walks(a, Append(pre(n), s[n + 1]), x, z)
    BY <1>2, <1>4, <2>1, <2>2, WalksAppend
  <2>4. n + 1 \in 0..Len(s)
    BY <1>1, <1>4
  <2> QED BY <1>2, <1>4, <2>3, <2>4
<1>5. Len(s) \in T
  <2> HIDE DEF T
  <2>1. \A n \in 0..Len(s) : n \in T
    BY <1>1, <1>3, <1>4, CountUp
  <2> QED BY <1>1, <2>1
<1> QED BY <1>1, <1>5

\* A sequence of the elements of a finite set, each once.
LEMMA SequencesOf ==
  ASSUME NEW S, IsFiniteSet(S), NEW s \in SetToSeqs(S)
  PROVE  /\ s \in Seq(S) /\ DOMAIN s = 1..Len(s) /\ Len(s) = Cardinality(S) /\ Len(s) \in Nat
         /\ \A i, j \in DOMAIN s : s[i] = s[j] => i = j
         /\ \A x \in S : \E i \in DOMAIN s : s[i] = x
<1> DEFINE n == Cardinality(S)
<1>1. n \in Nat
  BY FS_CardinalityType
<1>2. s \in [1..n -> S] /\ \A i, j \in 1..n : i # j => s[i] # s[j]
  BY DEF SetToSeqs
<1> HIDE DEF n
<1>3. s \in Seq(S) /\ Len(s) = n /\ DOMAIN s = 1..n
  BY <1>1, <1>2
<1>4. IsFiniteSet(1..n) /\ Cardinality(1..n) = n
  BY <1>1, FS_Interval
<1>5. s \in Injection(1..n, S)
  BY <1>2 DEF Injection, IsInjective
<1>6. s \in Surjection(1..n, S)
  BY <1>4, <1>5, FS_Injection DEF n
<1>7. \A x \in S : \E i \in 1..n : s[i] = x
  BY <1>6 DEF Surjection
<1> QED BY <1>1, <1>2, <1>3, <1>7 DEF n

\* What is empty has one such sequence; so has what has one element.
LEMMA SequencesOfOne ==
  ASSUME NEW x, NEW s \in SetToSeqs({x})
  PROVE  s = <<x>>
<1>1. IsFiniteSet({x}) /\ Cardinality({x}) = 1
  BY FS_Singleton
<1>2. s \in Seq({x}) /\ Len(s) = 1
  BY <1>1, SequencesOf
<1> QED BY <1>2

\* What is in a sequence stays in it when more comes, and until it is first.
Among(e, s) == \E i \in DOMAIN s : s[i] = e

LEMMA AmongStays ==
  ASSUME NEW S, NEW s \in Seq(S), NEW e
  PROVE  /\ \A o \in S : Among(e, Append(s, o)) <=> Among(e, s) \/ e = o
         /\ \A t \in Seq(S) : Among(e, s) \/ Among(e, t) => Among(e, s \o t)
         /\ s # <<>> => (Among(e, s) => e = Head(s) \/ Among(e, Tail(s)))
<1>1. ASSUME NEW o \in S PROVE Among(e, Append(s, o)) <=> Among(e, s) \/ e = o
  <2>1. /\ DOMAIN Append(s, o) = 1..(Len(s) + 1) /\ DOMAIN s = 1..Len(s) /\ Len(s) \in Nat
        /\ \A i \in DOMAIN s : Append(s, o)[i] = s[i]
        /\ Append(s, o)[Len(s) + 1] = o
    OBVIOUS
  <2>2. Among(e, s) => Among(e, Append(s, o))
    BY <2>1 DEF Among
  <2>3. e = o => Among(e, Append(s, o))
    BY <2>1 DEF Among
  <2>4. Among(e, Append(s, o)) => Among(e, s) \/ e = o
    BY <2>1 DEF Among
  <2> QED BY <2>2, <2>3, <2>4
<1>2. ASSUME NEW t \in Seq(S), Among(e, s) \/ Among(e, t) PROVE Among(e, s \o t)
  <2>1. /\ DOMAIN (s \o t) = 1..(Len(s) + Len(t)) /\ DOMAIN s = 1..Len(s) /\ DOMAIN t = 1..Len(t) /\ Len(s) \in Nat /\ Len(t) \in Nat
        /\ \A i \in DOMAIN s : (s \o t)[i] = s[i]
        /\ \A i \in DOMAIN t : (s \o t)[Len(s) + i] = t[i]
    OBVIOUS
  <2>2. CASE Among(e, s)
    <3>1. PICK i \in DOMAIN s : s[i] = e
      BY <2>2 DEF Among
    <3>2. i \in DOMAIN (s \o t) /\ (s \o t)[i] = e
      BY <2>1, <3>1
    <3> QED BY <3>2 DEF Among
  <2>3. CASE Among(e, t)
    <3>1. PICK i \in DOMAIN t : t[i] = e
      BY <2>3 DEF Among
    <3>2. Len(s) + i \in DOMAIN (s \o t) /\ (s \o t)[Len(s) + i] = e
      BY <2>1, <3>1
    <3> QED BY <3>2 DEF Among
  <2> QED BY <1>2, <2>2, <2>3
<1>3. ASSUME s # <<>>, Among(e, s) PROVE e = Head(s) \/ Among(e, Tail(s))
  <2>1. Head(s) = s[1] /\ \A i \in DOMAIN s : i # 1 => i - 1 \in DOMAIN Tail(s) /\ Tail(s)[i - 1] = s[i]
    BY <1>3, Dropped
  <2> QED BY <1>3, <2>1 DEF Among
<1> QED BY <1>1, <1>2, <1>3
-----------------------------------------------------------------------------
(* The last element of a kind.                                             *)

NoneOf(s, T) == \A i \in DOMAIN s : s[i] \notin T

\* Some element of s is in T, and the last of them is in U.
Final(s, T, U) == \E i \in DOMAIN s : s[i] \in U /\ \A j \in DOMAIN s : i < j => s[j] \notin T

\* Every element of s in T has one in U after it.
Followed(s, T, U) == \A i \in DOMAIN s : s[i] \in T => \E j \in DOMAIN s : i < j /\ s[j] \in U

LEMMA LastAppend ==
  ASSUME NEW S, NEW s \in Seq(S), NEW e \in S, NEW T, NEW U
  PROVE  /\ NoneOf(Append(s, e), T) <=> NoneOf(s, T) /\ e \notin T
         /\ e \in U => Final(Append(s, e), T, U)
         /\ e \notin T /\ Final(s, T, U) => Final(Append(s, e), T, U)
         /\ e \in U /\ e \notin T => Followed(Append(s, e), T, U)
         /\ e \notin T /\ Followed(s, T, U) => Followed(Append(s, e), T, U)
<1> DEFINE t == Append(s, e)
           n == Len(s)
<1>1. /\ n \in Nat /\ DOMAIN s = 1..n /\ DOMAIN t = 1..(n + 1) /\ t[n + 1] = e
      /\ \A i \in 1..n : t[i] = s[i]
  OBVIOUS
<1> HIDE DEF t, n
<1>2. \A i \in DOMAIN t : i \in DOMAIN s \/ i = n + 1
  BY <1>1
<1>3. (\A i \in DOMAIN s : i \in DOMAIN t /\ i < n + 1 /\ t[i] = s[i]) /\ n + 1 \in DOMAIN t
  BY <1>1
<1>4. NoneOf(t, T) <=> NoneOf(s, T) /\ e \notin T
  BY <1>1, <1>2, <1>3 DEF NoneOf
<1>5. ASSUME e \in U PROVE Final(t, T, U)
  <2>1. \A j \in DOMAIN t : ~(n + 1 < j)
    BY <1>1
  <2> QED BY <1>1, <1>3, <1>5, <2>1 DEF Final
<1>6. ASSUME e \notin T, Final(s, T, U) PROVE Final(t, T, U)
  <2>1. PICK i \in DOMAIN s : s[i] \in U /\ \A j \in DOMAIN s : i < j => s[j] \notin T
    BY <1>6 DEF Final
  <2>2. \A j \in DOMAIN t : i < j => t[j] \notin T
    BY <1>1, <1>2, <1>3, <1>6, <2>1
  <2> QED BY <1>3, <2>1, <2>2 DEF Final
<1>7. ASSUME e \in U, e \notin T PROVE Followed(t, T, U)
  <2> SUFFICES ASSUME NEW i \in DOMAIN t, t[i] \in T PROVE \E j \in DOMAIN t : i < j /\ t[j] \in U
    BY DEF Followed
  <2>1. i \in DOMAIN s
    BY <1>1, <1>2, <1>7
  <2> QED BY <1>1, <1>3, <1>7, <2>1
<1>8. ASSUME e \notin T, Followed(s, T, U) PROVE Followed(t, T, U)
  <2> SUFFICES ASSUME NEW i \in DOMAIN t, t[i] \in T PROVE \E j \in DOMAIN t : i < j /\ t[j] \in U
    BY DEF Followed
  <2>1. i \in DOMAIN s /\ s[i] \in T
    BY <1>1, <1>2, <1>3, <1>8
  <2>2. PICK j \in DOMAIN s : i < j /\ s[j] \in U
    BY <1>8, <2>1 DEF Followed
  <2> QED BY <1>3, <2>2
<1> QED BY <1>4, <1>5, <1>6, <1>7, <1>8 DEF t

LEMMA LastTail ==
  ASSUME NEW S, NEW s \in Seq(S), s # <<>>, NEW T, NEW U
  PROVE  /\ NoneOf(s, T) <=> NoneOf(Tail(s), T) /\ Head(s) \notin T
         /\ Final(s, T, U) => Final(Tail(s), T, U) \/ (Head(s) \in U /\ NoneOf(Tail(s), T))
         /\ Followed(s, T, U) => Followed(Tail(s), T, U)
         /\ Followed(s, T, U) /\ Head(s) \in T => ~NoneOf(Tail(s), U)
<1> DEFINE t == Tail(s)
           n == Len(s)
<1>1. /\ n \in Nat /\ n # 0 /\ DOMAIN s = 1..n /\ DOMAIN t = 1..(n - 1) /\ Head(s) = s[1]
      /\ \A i \in 1..(n - 1) : t[i] = s[i + 1]
  OBVIOUS
<1> HIDE DEF t, n
<1>2. \A i \in DOMAIN s : i = 1 \/ (i - 1 \in DOMAIN t /\ t[i - 1] = s[i] /\ 1 < i)
  <2> SUFFICES ASSUME NEW i \in DOMAIN s, i # 1 PROVE i - 1 \in DOMAIN t /\ t[i - 1] = s[i] /\ 1 < i
    OBVIOUS
  <2>1. i - 1 \in 1..(n - 1) /\ (i - 1) + 1 = i /\ 1 < i
    BY <1>1
  <2> QED BY <1>1, <2>1
<1>3. \A i \in DOMAIN t : i \in Int /\ i + 1 \in DOMAIN s /\ s[i + 1] = t[i] /\ 1 < i + 1
  BY <1>1
<1>4. 1 \in DOMAIN s /\ \A i \in DOMAIN s : i \in Int
  BY <1>1
<1>5. NoneOf(s, T) <=> NoneOf(t, T) /\ Head(s) \notin T
  BY <1>1, <1>2, <1>3, <1>4 DEF NoneOf
<1>6. ASSUME Final(s, T, U) PROVE Final(t, T, U) \/ (Head(s) \in U /\ NoneOf(t, T))
  <2>1. PICK i \in DOMAIN s : s[i] \in U /\ \A j \in DOMAIN s : i < j => s[j] \notin T
    BY <1>6 DEF Final
  <2>2. CASE i = 1
    <3>1. \A j \in DOMAIN t : t[j] \notin T
      BY <1>3, <2>1, <2>2
    <3> QED BY <1>1, <2>1, <2>2, <3>1 DEF NoneOf
  <2>3. CASE i # 1
    <3>1. i - 1 \in DOMAIN t /\ t[i - 1] \in U
      BY <1>2, <2>1, <2>3
    <3>2. \A j \in DOMAIN t : i - 1 < j => t[j] \notin T
      BY <1>3, <1>4, <2>1
    <3> QED BY <3>1, <3>2 DEF Final
  <2> QED BY <2>2, <2>3
<1>7. ASSUME Followed(s, T, U) PROVE Followed(t, T, U)
  <2> SUFFICES ASSUME NEW i \in DOMAIN t, t[i] \in T PROVE \E j \in DOMAIN t : i < j /\ t[j] \in U
    BY DEF Followed
  <2>1. PICK j \in DOMAIN s : i + 1 < j /\ s[j] \in U
    BY <1>3, <1>7 DEF Followed
  <2>2. j # 1 /\ i < j - 1
    BY <1>3, <1>4, <2>1
  <2> QED BY <1>2, <2>1, <2>2
<1>8. ASSUME Followed(s, T, U), Head(s) \in T PROVE ~NoneOf(t, U)
  <2>1. PICK j \in DOMAIN s : 1 < j /\ s[j] \in U
    BY <1>1, <1>4, <1>8 DEF Followed
  <2>2. j - 1 \in DOMAIN t /\ t[j - 1] \in U
    BY <1>2, <1>4, <2>1
  <2> QED BY <2>2 DEF NoneOf
<1> QED BY <1>5, <1>6, <1>7, <1>8 DEF t

\* Nothing is left of a kind when nothing is left.
LEMMA LastNothing == \A T, U : NoneOf(<<>>, T) /\ ~Final(<<>>, T, U) /\ Followed(<<>>, T, U)
  BY DEF NoneOf, Final, Followed
-----------------------------------------------------------------------------
(* Sequences in a row.                                                     *)

LEMMA SeqSingle == ASSUME NEW S, NEW n \in S PROVE <<n>> \in Seq(S)
OBVIOUS

Associative(S) == \A a, b, c \in Seq(S) : (a \o b) \o c = a \o (b \o c) /\ a \o b \in Seq(S)

\* One sequence after another.
Joined(r, s, t) == /\ Len(r) = Len(s) + Len(t)
                   /\ \A i \in 1..Len(r) : r[i] = IF i <= Len(s) THEN s[i] ELSE t[i - Len(s)]

LEMMA Joins ==
  ASSUME NEW S, NEW s \in Seq(S), NEW t \in Seq(S)
  PROVE  s \o t \in Seq(S) /\ Joined(s \o t, s, t)
BY ConcatProperties DEF Joined

LEMMA Associates == ASSUME NEW S PROVE Associative(S)
<1> SUFFICES ASSUME NEW a \in Seq(S), NEW b \in Seq(S), NEW c \in Seq(S)
             PROVE  (a \o b) \o c = a \o (b \o c) /\ a \o b \in Seq(S)
  BY DEF Associative
<1> QED BY ConcatAssociative, ConcatProperties

\* The first sequence, then what the others are flattened to.
LEMMA FlattenCons ==
  ASSUME NEW S, NEW ss \in Seq(Seq(S)), ss # <<>>
  PROVE  FlattenSeq(ss) = Head(ss) \o FlattenSeq(Tail(ss))
<1> DEFINE h == Head(ss)
           t == Tail(ss)
<1>0. Associative(S)
  BY Associates
<1>1. h \in Seq(S) /\ t \in Seq(Seq(S)) /\ h = ss[1] /\ Len(ss) = Len(t) + 1 /\ Len(t) \in Nat
  <2>1. 1 \in 1..Len(ss)
    OBVIOUS
  <2> QED BY <2>1, HeadTailProperties
<1>2. \A i \in 1..Len(t) : t[i] = ss[i + 1]
  BY HeadTailProperties
<1>3. PICK f : Flattens(f, ss) /\ FlattenSeq(ss) = f[Len(ss)]
  BY FlattensIs
<1>4. \A i \in 1..Len(ss) : f[i] = IF i = 1 THEN ss[i] ELSE f[i - 1] \o ss[i]
  BY <1>3 DEF Flattens
<1> HIDE DEF h, t
<1>5. CASE t = <<>>
  <2>1. Len(ss) = 1 /\ f[1] = ss[1]
    BY <1>1, <1>4, <1>5
  <2>2. FlattenSeq(t) = <<>>
    BY <1>5 DEF FlattenSeq
  <2>3. h \o <<>> = h
    BY <1>1, ConcatEmptySeq
  <2>4. FlattenSeq(ss) = h \o FlattenSeq(t)
    BY <1>1, <1>3, <2>1, <2>2, <2>3
  <2> QED BY <2>4 DEF h, t
<1>6. CASE t # <<>>
  <2>1. PICK g : Flattens(g, t) /\ FlattenSeq(t) = g[Len(t)]
    BY <1>1, <1>6, FlattensIs
  <2> DEFINE G == [n \in 1..Len(t) |-> {s \in Seq(S) : f[n + 1] = h \o s}]
  <2>2. Len(t) >= 1 /\ 1 \in 1..Len(t)
    BY <1>1, <1>6
  <2>3. t[1] \in G[1]
    <3>1. f[2] = f[1] \o ss[2] /\ f[1] = ss[1]
      <4>1. 1 \in 1..Len(ss) /\ 2 \in 1..Len(ss) /\ 2 - 1 = 1 /\ 2 # 1
        BY <1>1, <2>2
      <4> QED BY <4>1, <1>4
    <3>2. t[1] = ss[2] /\ t[1] \in Seq(S)
      BY <1>1, <1>2, <2>2
    <3>3. f[2] = h \o t[1]
      BY <3>1, <3>2, <1>1, Zenon
    <3>4. 1 + 1 = 2
      OBVIOUS
    <3> QED BY <3>2, <3>3, <3>4, <2>2
  <2>4. ASSUME NEW n \in 1..(Len(t) - 1), NEW s \in G[n] PROVE s \o t[n + 1] \in G[n + 1]
    <3>1. n \in 1..Len(t) /\ n + 1 \in 1..Len(t) /\ n + 2 \in 1..Len(ss) /\ n + 2 # 1 /\ n + 2 - 1 = n + 1
          /\ n + 1 + 1 = n + 2
      BY <1>1
    <3>2. s \in Seq(S) /\ f[n + 1] = h \o s
      BY <3>1
    <3>3. t[n + 1] \in Seq(S) /\ t[n + 1] = ss[n + 2]
      BY <1>1, <1>2, <3>1
    <3>4. f[n + 2] = f[n + 1] \o ss[n + 2]
      <4>1. PICK i \in 1..Len(ss) : i = n + 2
        BY <3>1
      <4>2. f[i] = f[i - 1] \o ss[i]
        BY <1>4, <3>1, <4>1
      <4>3. i - 1 = n + 1
        BY <4>1
      <4> QED BY <4>1, <4>2, <4>3
    <3> DEFINE u == t[n + 1]
               w == s \o u
    <3>5. h \in Seq(S) /\ s \in Seq(S) /\ u \in Seq(S)
      BY <1>1, <3>2, <3>3
    <3> DEFINE v == f[n + 1]
    <3>6. f[n + 2] = v \o u
      BY <3>3, <3>4
    <3>7. v = h \o s /\ w = s \o u
      BY <3>2
    <3> HIDE DEF u, v, w, G
    <3>8. v \o u = h \o w /\ w \in Seq(S)
      BY <3>5, <3>7, <1>0 DEF Associative
    <3> HIDE DEF w
    <3>9. f[n + 1 + 1] = h \o w
      BY <3>1, <3>6, <3>8
    <3>10. w \in G[n + 1]
      BY <3>1, <3>8, <3>9 DEF G
    <3> QED BY <3>10 DEF w, u
  <2>5. \A n \in 1..Len(t) : g[n] \in G[n]
    <3> HIDE DEF G
    <3> QED BY <1>1, <1>6, <2>1, <2>3, <2>4, FlattensInduct
  <2>6. f[Len(t) + 1] = h \o g[Len(t)]
    <3>1. Len(t) \in 1..Len(t)
      BY <2>2
    <3> QED BY <3>1, <2>5
  <2>7. FlattenSeq(ss) = h \o FlattenSeq(t)
    BY <1>1, <1>3, <2>1, <2>6
  <2> QED BY <2>7 DEF h, t
<1> QED BY <1>5, <1>6

\* The head and the rest of two sequences in a row.
LEMMA HeadOfTwo ==
  ASSUME NEW S, NEW p \in Seq(S), NEW q \in Seq(S), NEW r, r = p \o q, p # <<>>
  PROVE  /\ r \in Seq(S) /\ r # <<>> /\ Head(r) = p[1] /\ Tail(r) = Tail(p) \o q
         /\ Len(p) >= 2 => Len(r) >= 2 /\ r[2] = p[2]
<1>1. r \in Seq(S) /\ Len(r) = Len(p) + Len(q)
      /\ \A i \in 1..Len(r) : r[i] = IF i <= Len(p) THEN p[i] ELSE q[i - Len(p)]
  BY ConcatProperties
<1>2. Len(p) \in Nat /\ Len(q) \in Nat /\ Len(p) >= 1
  OBVIOUS
<1>3. r # <<>> /\ Head(r) = p[1] /\ (Len(p) >= 2 => Len(r) >= 2 /\ r[2] = p[2])
  BY <1>1, <1>2
<1> DEFINE t == Tail(p)
           l == Tail(r)
           m == t \o q
<1>4. t \in Seq(S) /\ Len(t) = Len(p) - 1 /\ \A i \in 1..Len(t) : t[i] = p[i + 1]
  BY HeadTailProperties
<1>5. l \in Seq(S) /\ Len(l) = Len(r) - 1 /\ \A i \in 1..Len(l) : l[i] = r[i + 1]
  BY <1>1, <1>3, HeadTailProperties
<1> HIDE DEF t, l
<1>6. m \in Seq(S) /\ Len(m) = Len(t) + Len(q)
      /\ \A i \in 1..Len(m) : m[i] = IF i <= Len(t) THEN t[i] ELSE q[i - Len(t)]
  <2>1. m \in Seq(S) /\ Joined(m, t, q)
    BY <1>4, Joins
  <2> HIDE DEF m
  <2> QED BY <2>1 DEF Joined
<1> HIDE DEF m
<1>7. Len(l) = Len(m) /\ Len(m) \in Nat
  BY <1>1, <1>2, <1>4, <1>5, <1>6
<1>8. ASSUME NEW i \in 1..Len(l) PROVE l[i] = m[i]
  <2>1. i + 1 \in 1..Len(r) /\ i \in Nat /\ i \in 1..Len(m)
    BY <1>1, <1>2, <1>5, <1>7
  <2>2. CASE i <= Len(t)
    <3>1. i \in 1..Len(t) /\ i + 1 <= Len(p)
      BY <1>2, <1>4, <2>1, <2>2
    <3> QED BY <1>1, <1>4, <1>5, <1>6, <2>1, <2>2, <3>1
  <2>3. CASE ~(i <= Len(t))
    <3>0. Len(t) \in Nat /\ i > Len(t)
      BY <1>4, <2>1, <2>3
    <3>1. PICK j \in Nat : j = i - Len(t)
      <4>1. i - Len(t) \in Nat
        BY <2>1, <3>0
      <4> QED BY <4>1
    <3>2. ~(i + 1 <= Len(p)) /\ (i + 1) - Len(p) = j
      BY <1>2, <1>4, <2>1, <2>3, <3>1
    <3>3. r[i + 1] = q[j]
      BY <1>1, <2>1, <3>2
    <3>4. m[i] = q[j]
      BY <1>6, <2>1, <2>3, <3>1
    <3> QED BY <1>5, <3>3, <3>4
  <2> QED BY <2>2, <2>3
<1>9. l = m
  BY <1>5, <1>6, <1>7, <1>8, SeqEqual
<1> QED BY <1>1, <1>3, <1>9 DEF l, m, t
=============================================================================
