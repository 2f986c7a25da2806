---------------------------- MODULE FiniteLemmas ----------------------------
(***************************************************************************)
(* Facts about finite sets that stand in for induction: the least number   *)
(* of a set of naturals up to a bound, by which the proofs about recursive *)
(* functions refute the least argument at which a claim fails; the         *)
(* places that a strict order gives the elements of a finite set; and sums *)
(* over finite sets, which the folds of the community modules compute.     *)
(***************************************************************************)
EXTENDS Integers, FiniteSetTheorems, TLAPS

\* A set of naturals up to a bound has a least element: initial segments that grow
\* are strict supersets.
LEMMA LeastElement ==
  ASSUME NEW n \in Nat, NEW S \in SUBSET (1..n), S # {}
  PROVE  \E least \in S : \A k \in S : least <= k
<1>. DEFINE Segments == {1..k : k \in S}
<1>1. IsWellFoundedOn(StrictSubsetOrdering(1..n), FiniteSubsetsOf(1..n))
  BY FS_StrictSubsetOrderingWellFounded
<1>2. Segments \subseteq FiniteSubsetsOf(1..n) /\ Segments # {}
  <2>1. ASSUME NEW k \in S PROVE IsFiniteSet(1..k) /\ 1..k \subseteq 1..n
    BY FS_Interval
  <2>. QED
    BY <2>1 DEF FiniteSubsetsOf
<1>3. PICK segment \in Segments :
        \A other \in Segments : <<other, segment>> \notin StrictSubsetOrdering(1..n)
  <2>. HIDE DEF Segments
  <2>. QED
    BY <1>1, <1>2, WFMin
<1>4. PICK least \in S : segment = 1..least
  OBVIOUS
<1>5. ASSUME NEW k \in S, k < least PROVE FALSE
  <2>1. 1..k \subseteq 1..least /\ 1..k # 1..least /\ 1..least \subseteq 1..n
    BY <1>5
  <2>2. <<1..k, segment>> \in StrictSubsetOrdering(1..n)
    BY <1>4, <2>1 DEF StrictSubsetOrdering
  <2>. QED
    BY <1>3, <2>2
<1>. QED
  BY <1>5
-----------------------------------------------------------------------------
(* Places in a strict order.                                               *)

\* The pairs B order the elements of T.
Orders(B, T) ==
  /\ \A r \in T : <<r, r>> \notin B
  /\ \A r, s, t \in T : <<r, s>> \in B /\ <<s, t>> \in B => <<r, t>> \in B
  /\ \A r, s \in T : r = s \/ <<r, s>> \in B \/ <<s, r>> \in B

Place(B, T, r) == 1 + Cardinality({s \in T : <<s, r>> \in B})

\* The places count the set from 1 in its order.
LEMMA PlacesCount ==
  ASSUME NEW T, IsFiniteSet(T), NEW B, Orders(B, T)
  PROVE  /\ Cardinality(T) \in Nat
         /\ \A r \in T : Place(B, T, r) \in 1..Cardinality(T)
         /\ \A r, s \in T : Place(B, T, r) < Place(B, T, s) <=> <<r, s>> \in B
         /\ \A r, s \in T : Place(B, T, r) = Place(B, T, s) => r = s
         /\ \A i \in 1..Cardinality(T) : \E r \in T : Place(B, T, r) = i
<1>. DEFINE Behind(r) == {s \in T : <<s, r>> \in B}
            At(r) == Place(B, T, r)
            n == Cardinality(T)
            place == [r \in T |-> At(r)]
<1>1. n \in Nat
  BY FS_CardinalityType
<1>2. ASSUME NEW r \in T
      PROVE  /\ IsFiniteSet(Behind(r)) /\ Cardinality(Behind(r)) \in Nat
             /\ Cardinality(Behind(r)) < n
  <2>1. Behind(r) \in SUBSET T /\ r \notin Behind(r)
    BY DEF Orders
  <2>. HIDE DEF Behind
  <2>2. /\ IsFiniteSet(Behind(r)) /\ Cardinality(Behind(r)) <= n
        /\ n = Cardinality(Behind(r)) => T = Behind(r)
    BY <2>1, FS_Subset
  <2>3. Cardinality(Behind(r)) \in Nat
    BY <2>2, FS_CardinalityType
  <2>. QED
    BY <1>1, <2>1, <2>2, <2>3
<1>3. ASSUME NEW r \in T, NEW s \in T, <<r, s>> \in B
      PROVE  Cardinality(Behind(r)) < Cardinality(Behind(s))
  <2>1. Behind(r) \in SUBSET Behind(s) /\ r \in Behind(s) /\ r \notin Behind(r)
    BY <1>3 DEF Orders
  <2>2. /\ IsFiniteSet(Behind(s)) /\ Cardinality(Behind(s)) \in Nat
        /\ Cardinality(Behind(r)) \in Nat
    BY <1>2
  <2>. HIDE DEF Behind
  <2>3. /\ Cardinality(Behind(r)) <= Cardinality(Behind(s))
        /\ Cardinality(Behind(s)) = Cardinality(Behind(r)) => Behind(s) = Behind(r)
    BY <2>1, <2>2, FS_Subset
  <2>. QED
    BY <2>1, <2>2, <2>3
<1>4. \A r, s \in T : r = s \/ <<r, s>> \in B \/ <<s, r>> \in B
  BY DEF Orders
<1>5. \A r \in T : At(r) = 1 + Cardinality(Behind(r))
  BY DEF Place
<1>. HIDE DEF Behind, n, At
<1>6. \A r \in T : At(r) \in 1..n
  BY <1>1, <1>2, <1>5
<1>7. \A r, s \in T : (At(r) < At(s) <=> <<r, s>> \in B) /\ (At(r) = At(s) => r = s)
  <2>. TAKE r, s \in T
  <2>1. /\ <<r, s>> \in B => Cardinality(Behind(r)) < Cardinality(Behind(s))
        /\ <<s, r>> \in B => Cardinality(Behind(s)) < Cardinality(Behind(r))
        /\ r = s \/ <<r, s>> \in B \/ <<s, r>> \in B
        /\ Cardinality(Behind(r)) \in Nat /\ Cardinality(Behind(s)) \in Nat
    BY <1>2, <1>3, <1>4
  <2>. QED
    BY <1>5, <2>1
<1>8. place \in Injection(T, 1..n)
  BY <1>6, <1>7 DEF Injection, IsInjective
<1>9. place \in Surjection(T, 1..n)
  <2>1. IsFiniteSet(1..n) /\ Cardinality(1..n) = n
    BY <1>1, FS_Interval
  <2>. HIDE DEF place
  <2>. QED
    BY <1>8, <2>1, FS_Injection DEF n
<1>10. \A i \in 1..n : \E r \in T : At(r) = i
  BY <1>9 DEF Surjection
<1>. QED
  BY <1>1, <1>6, <1>7, <1>10 DEF n, At

\* The last of a finite set in its order.
LEMMA GreatestElement ==
  ASSUME NEW T, IsFiniteSet(T), T # {}, NEW B, Orders(B, T)
  PROVE  \E r \in T : \A s \in T : s = r \/ <<s, r>> \in B
<1>. DEFINE n == Cardinality(T)
            At(r) == Place(B, T, r)
<1>1. /\ n \in Nat
      /\ \A r \in T : At(r) \in 1..n
      /\ \A r, s \in T : At(r) < At(s) <=> <<r, s>> \in B
      /\ \A r, s \in T : At(r) = At(s) => r = s
      /\ \A i \in 1..n : \E r \in T : At(r) = i
  BY PlacesCount
<1>2. n # 0
  BY FS_EmptySet
<1>. HIDE DEF n, At
<1>3. PICK r \in T : At(r) = n
  BY <1>1, <1>2
<1>. QED
  BY <1>1, <1>3

\* A function that puts each element at its place lists the set in its order.
LEMMA PlacesList ==
  ASSUME NEW T, IsFiniteSet(T), NEW B, Orders(B, T),
         NEW f, DOMAIN f = 1..Cardinality(T),
         \A i \in 1..Cardinality(T) : f[i] \in T /\ Place(B, T, f[i]) = i
  PROVE  /\ {f[i] : i \in DOMAIN f} = T
         /\ \A i, j \in DOMAIN f : i < j <=> <<f[i], f[j]>> \in B
<1>. DEFINE n == Cardinality(T)
            At(r) == Place(B, T, r)
<1>1. /\ n \in Nat
      /\ \A r \in T : At(r) \in 1..n
      /\ \A r, s \in T : At(r) < At(s) <=> <<r, s>> \in B
      /\ \A r, s \in T : At(r) = At(s) => r = s
  BY PlacesCount
<1>2. DOMAIN f = 1..n /\ \A i \in 1..n : f[i] \in T /\ At(f[i]) = i
  BY Zenon DEF n, At
<1>. HIDE DEF n, At
<1>3. ASSUME NEW r \in T PROVE \E i \in 1..n : f[i] = r
  BY <1>1, <1>2
<1>4. {f[i] : i \in 1..n} = T
  BY <1>2, <1>3
<1>5. \A i, j \in 1..n : i < j <=> <<f[i], f[j]>> \in B
  BY <1>1, <1>2
<1>. QED
  BY <1>2, <1>4, <1>5
-----------------------------------------------------------------------------
\* A set of subsets of a finite set has a minimal one.
LEMMA MinimalSubset ==
  ASSUME NEW S, IsFiniteSet(S), NEW Subsets \in SUBSET (SUBSET S), Subsets # {}
  PROVE  \E s \in Subsets : \A t \in Subsets : t \subseteq s => t = s
<1>1. IsWellFoundedOn(StrictSubsetOrdering(S), FiniteSubsetsOf(S))
  BY FS_StrictSubsetOrderingWellFounded
<1>2. Subsets \subseteq FiniteSubsetsOf(S)
  BY FS_Subset DEF FiniteSubsetsOf
<1>3. PICK s \in Subsets : \A t \in Subsets : <<t, s>> \notin StrictSubsetOrdering(S)
  BY <1>1, <1>2, WFMin
<1>4. ASSUME NEW t \in Subsets, t \subseteq s, t # s PROVE FALSE
  <2>1. <<t, s>> \in StrictSubsetOrdering(S)
    BY <1>4 DEF StrictSubsetOrdering
  <2>. QED
    BY <1>3, <2>1
<1>. QED
  BY <1>4
-----------------------------------------------------------------------------
(* Sums over finite sets, as the folds of the community modules compute    *)
(* them.                                                                   *)

\* g gives each subset of S the sum of its weights.
AddOne(g, w, s) == IF s = {} THEN 0 ELSE LET x == CHOOSE x \in s : TRUE IN w[x] + g[s \ {x}]
Sums(g, w, S) == g = [s \in SUBSET S |-> AddOne(g, w, s)]

\* There is such a function: the one for the subsets of up to k elements makes that
\* of up to k + 1.
LEMMA SumsExist ==
  ASSUME NEW S, IsFiniteSet(S), NEW w
  PROVE  \E g : Sums(g, w, S)
<1>. DEFINE n == Cardinality(S)
            UpTo(k) == {s \in SUBSET S : Cardinality(s) <= k}
            Holds(k) == \E g : \A s \in UpTo(k) : g[s] = AddOne(g, w, s)
            Wrong == {k \in 1..(n + 1) : ~ Holds(k - 1)}
<1>1. n \in Nat /\ \A s \in SUBSET S : IsFiniteSet(s) /\ Cardinality(s) \in 0..n
  BY FS_CardinalityType, FS_Subset
<1>2. Holds(0)
  <2>1. \A s \in UpTo(0) : s = {}
    BY <1>1, FS_EmptySet
  <2>2. \A s \in UpTo(0) : [s0 \in {{}} |-> 0][s] = AddOne([s0 \in {{}} |-> 0], w, s)
    BY <2>1 DEF AddOne
  <2>. QED
    BY <2>2
<1>3. ASSUME NEW k \in 0..n, Holds(k) PROVE Holds(k + 1)
  <2>1. PICK g : \A s \in UpTo(k) : g[s] = AddOne(g, w, s)
    BY <1>3
  <2>. DEFINE h == [s \in SUBSET S |-> AddOne(g, w, s)]
  <2>2. ASSUME NEW s \in UpTo(k + 1), s # {}
        PROVE  s \ {CHOOSE x \in s : TRUE} \in UpTo(k)
    <3>. DEFINE x == CHOOSE x \in s : TRUE
    <3>1. x \in s
      BY <2>2
    <3>2. IsFiniteSet(s) /\ Cardinality(s) \in Nat /\ Cardinality(s) <= k + 1
      BY <1>1
    <3>. HIDE DEF x, UpTo
    <3>3. Cardinality(s \ {x}) = Cardinality(s) - 1
      BY <3>1, <3>2, FS_RemoveElement
    <3>4. s \ {x} \in SUBSET S
      BY DEF UpTo
    <3>. QED
      BY <3>2, <3>3, <3>4 DEF x, UpTo
  <2>3. ASSUME NEW s \in UpTo(k + 1) PROVE h[s] = AddOne(h, w, s)
    <3>1. h[s] = AddOne(g, w, s)
      OBVIOUS
    <3>2. ASSUME s # {} PROVE h[s \ {CHOOSE x \in s : TRUE}] = g[s \ {CHOOSE x \in s : TRUE}]
      <4>1. \A t \in UpTo(k) : h[t] = g[t]
        BY <2>1
      <4>. HIDE DEF h, UpTo
      <4>. QED
        BY <2>2, <3>2, <4>1
    <3>. HIDE DEF h
    <3>. QED
      BY <3>1, <3>2 DEF AddOne
  <2>. QED
    BY <2>3
<1>4. Wrong = {}
  <2>1. ASSUME Wrong # {} PROVE FALSE
    <3>1. PICK k \in Wrong : \A j \in Wrong : k <= j
      <4>1. n + 1 \in Nat /\ Wrong \in SUBSET (1..(n + 1))
        BY <1>1
      <4>. HIDE DEF Wrong, n
      <4>. QED
        BY <2>1, <4>1, LeastElement
    <3>2. k \in 1..(n + 1) /\ ~ Holds(k - 1)
      BY <3>1
    <3>. HIDE DEF Holds
    <3>3. k # 1
      BY <1>2, <3>2
    <3>4. k - 1 \in 1..(n + 1) /\ ~ (k <= k - 1) /\ k - 2 \in 0..n /\ k - 1 = (k - 2) + 1
      BY <1>1, <3>2, <3>3
    <3>5. Holds(k - 2)
      <4>1. (k - 1) - 1 = k - 2
        BY <3>4
      <4>. QED
        BY <3>1, <3>4, <4>1
    <3>. QED
      BY <1>3, <3>2, <3>4, <3>5
  <2>. QED
    BY <2>1
<1>5. Holds(n)
  <2>1. n + 1 \in 1..(n + 1) /\ (n + 1) - 1 = n
    BY <1>1
  <2>. HIDE DEF Holds, n
  <2>. QED
    BY <1>4, <2>1
<1>6. PICK g : \A s \in SUBSET S : g[s] = AddOne(g, w, s)
  BY <1>1, <1>5
<1>. DEFINE h == [s \in SUBSET S |-> g[s]]
<1>7. \A s \in SUBSET S : AddOne(h, w, s) = AddOne(g, w, s)
  BY DEF AddOne
<1>8. Sums(h, w, S)
  BY <1>6, <1>7 DEF Sums
<1>. QED
  BY <1>8

\* Of any element and of the rest.
Additive(g, w, S) ==
  /\ \A x \in S : w[x] \in Int
  /\ g[{}] = 0
  /\ \A s \in SUBSET S : g[s] \in Int
  /\ \A s \in SUBSET S : \A x \in s : g[s] = w[x] + g[s \ {x}]

\* A sum is that of any element and of the rest.
LEMMA SumsAdd ==
  ASSUME NEW S, IsFiniteSet(S), NEW w, \A x \in S : w[x] \in Int, NEW g, Sums(g, w, S)
  PROVE  Additive(g, w, S)
<1>1. \A s \in SUBSET S : g[s] = AddOne(g, w, s)
  BY DEF Sums
<1>2. g[{}] = 0
  BY <1>1 DEF AddOne
<1>3. ASSUME NEW s \in SUBSET S, s # {}
      PROVE  \E x \in s : g[s] = w[x] + g[s \ {x}]
  BY <1>1, <1>3 DEF AddOne
<1>. DEFINE Wrong == {s \in SUBSET S : ~ (g[s] \in Int /\ \A x \in s : g[s] = w[x] + g[s \ {x}])}
<1>4. ASSUME Wrong # {} PROVE FALSE
  <2>1. PICK s \in Wrong : \A t \in Wrong : t \subseteq s => t = s
    <3>1. Wrong \in SUBSET (SUBSET S)
      OBVIOUS
    <3>. HIDE DEF Wrong
    <3>. QED
      BY <1>4, <3>1, MinimalSubset
  <2>2. \A t \in SUBSET S : t \subseteq s /\ t # s => g[t] \in Int /\ \A x \in t : g[t] = w[x] + g[t \ {x}]
    BY <2>1
  <2>3. s \in SUBSET S /\ s # {}
    <3>1. s \in SUBSET S /\ ~ (g[s] \in Int /\ \A x \in s : g[s] = w[x] + g[s \ {x}])
      BY <2>1
    <3>2. s # {}
      <4>1. CASE s = {}
        <5>1. g[s] = 0 /\ \A x \in s : FALSE
          BY <1>2, <4>1
        <5>. QED
          BY <3>1, <5>1
      <4>. QED
        BY <4>1
    <3>. QED
      BY <3>1, <3>2
  <2>4. PICK y \in s : g[s] = w[y] + g[s \ {y}]
    BY <1>3, <2>3
  <2>5. g[s \ {y}] \in Int /\ w[y] \in Int
    BY <2>2, <2>3
  <2>6. ASSUME NEW x \in s, x # y PROVE g[s] = w[x] + g[s \ {x}]
    <3>1. g[s \ {y}] = w[x] + g[(s \ {y}) \ {x}]
      <4>1. (s \ {y}) \in SUBSET S /\ s \ {y} \subseteq s /\ s \ {y} # s /\ x \in s \ {y}
        BY <2>3, <2>6
      <4>. QED
        BY <2>2, <4>1
    <3>2. g[s \ {x}] = w[y] + g[(s \ {x}) \ {y}]
      <4>1. (s \ {x}) \in SUBSET S /\ s \ {x} \subseteq s /\ s \ {x} # s /\ y \in s \ {x}
        BY <2>3, <2>6
      <4>. QED
        BY <2>2, <4>1
    <3>3. (s \ {x}) \ {y} = (s \ {y}) \ {x} /\ w[x] \in Int
      BY <2>3
    <3>4. g[(s \ {x}) \ {y}] \in Int
      <4>1. (s \ {x}) \ {y} \in SUBSET S /\ (s \ {x}) \ {y} \subseteq s /\ (s \ {x}) \ {y} # s
        BY <2>3
      <4>. QED
        BY <2>2, <4>1
    <3>5. g[s \ {x}] = w[y] + g[(s \ {y}) \ {x}] /\ g[(s \ {y}) \ {x}] \in Int
      BY <3>2, <3>3, <3>4
    <3>. QED
      BY <2>4, <2>5, <3>1, <3>3, <3>5
  <2>7. g[s] \in Int
    BY <2>4, <2>5
  <2>8. \A x \in s : g[s] = w[x] + g[s \ {x}]
    BY <2>4, <2>6
  <2>. QED
    BY <2>1, <2>7, <2>8
<1>. QED
  BY <1>2, <1>4 DEF Additive

\* A sum over a set is one of its subsets' too.
LEMMA SumsAgree ==
  ASSUME NEW T, IsFiniteSet(T), NEW w, NEW h, Sums(h, w, T),
         NEW S \in SUBSET T, NEW g, Sums(g, w, S)
  PROVE  g[S] = h[S]
<1>1. IsFiniteSet(S) /\ \A s \in SUBSET S : g[s] = AddOne(g, w, s) /\ h[s] = AddOne(h, w, s)
  BY FS_Subset DEF Sums
<1>. DEFINE Wrong == {s \in SUBSET S : g[s] # h[s]}
<1>2. ASSUME Wrong # {} PROVE FALSE
  <2>1. PICK s \in Wrong : \A t \in Wrong : t \subseteq s => t = s
    <3>1. Wrong \in SUBSET (SUBSET S)
      OBVIOUS
    <3>. HIDE DEF Wrong
    <3>. QED
      BY <1>2, <3>1, MinimalSubset
  <2>2. s \in SUBSET S /\ g[s] # h[s]
    BY <2>1
  <2>3. s # {}
    BY <1>1, <2>2 DEF AddOne
  <2>. DEFINE x == CHOOSE x \in s : TRUE
  <2>4. x \in s
    BY <2>3
  <2>5. g[s \ {x}] = h[s \ {x}]
    <3>. HIDE DEF x
    <3>. QED
      BY <2>1, <2>2, <2>4
  <2>6. g[s] = w[x] + g[s \ {x}] /\ h[s] = w[x] + h[s \ {x}]
    BY <1>1, <2>2, <2>3 DEF AddOne
  <2>. HIDE DEF x
  <2>. QED
    BY <2>2, <2>4, <2>5, <2>6
<1>. QED
  BY <1>2

\* The sum over two sets that share nothing.
LEMMA AdditiveUnion ==
  ASSUME NEW S, IsFiniteSet(S), NEW w, NEW g, Additive(g, w, S),
         NEW s \in SUBSET S, NEW t \in SUBSET S, s \cap t = {}
  PROVE  g[s \cup t] = g[s] + g[t]
<1>. DEFINE Wrong == {r \in SUBSET S : r \cap t = {} /\ g[r \cup t] # g[r] + g[t]}
<1>1. /\ g[{}] = 0 /\ \A x \in S : w[x] \in Int
      /\ \A r \in SUBSET S : g[r] \in Int
      /\ \A r \in SUBSET S : \A x \in r : g[r] = w[x] + g[r \ {x}]
  BY DEF Additive
<1>2. ASSUME Wrong # {} PROVE FALSE
  <2>1. PICK r \in Wrong : \A q \in Wrong : q \subseteq r => q = r
    <3>1. Wrong \in SUBSET (SUBSET S)
      OBVIOUS
    <3>. HIDE DEF Wrong
    <3>. QED
      BY <1>2, <3>1, MinimalSubset
  <2>2. r \in SUBSET S /\ r \cap t = {} /\ g[r \cup t] # g[r] + g[t]
    BY <2>1
  <2>3. r # {}
    <3>1. CASE r = {}
      <4>1. r \cup t = t /\ g[t] \in Int
        BY <1>1, <3>1
      <4>. QED
        BY <1>1, <2>2, <3>1, <4>1
    <3>. QED
      BY <3>1
  <2>4. PICK x \in r : TRUE
    BY <2>3
  <2>5. g[(r \ {x}) \cup t] = g[r \ {x}] + g[t]
    <3>1. r \ {x} \in SUBSET S /\ (r \ {x}) \cap t = {} /\ r \ {x} \subseteq r /\ r \ {x} # r
      BY <2>2
    <3>. QED
      BY <2>1, <3>1
  <2>6. (r \cup t) \ {x} = (r \ {x}) \cup t /\ x \in r \cup t /\ r \cup t \in SUBSET S
    BY <2>2
  <2>7. g[r \cup t] = w[x] + g[(r \ {x}) \cup t]
    BY <1>1, <2>6
  <2>8. g[r] = w[x] + g[r \ {x}] /\ w[x] \in Int /\ g[r \ {x}] \in Int /\ g[t] \in Int
    BY <1>1, <2>2
  <2>. QED
    BY <2>2, <2>5, <2>7, <2>8
<1>. QED
  BY <1>2

\* c makes parts of S, one for each element of T, of which v is the sum.
Partitions(c, S, T, g, v) ==
  c \in [S -> T] /\ \A t \in T : v[t] = g[{x \in S : c[x] = t}]

\* The sum over the parts is that over the set.
LEMMA AdditivePartition ==
  ASSUME NEW S, IsFiniteSet(S), NEW w, NEW g, Additive(g, w, S),
         NEW T, IsFiniteSet(T), NEW v, NEW h, Additive(h, v, T),
         NEW c, Partitions(c, S, T, g, v)
  PROVE  h[T] = g[S]
<1>. DEFINE Part(Q) == {x \in S : c[x] \in Q}
            Wrong == {Q \in SUBSET T : h[Q] # g[Part(Q)]}
<1>1. /\ g[{}] = 0 /\ h[{}] = 0 /\ \A Q \in SUBSET T : \A x \in Q : h[Q] = v[x] + h[Q \ {x}]
      /\ c \in [S -> T] /\ \A t \in T : v[t] = g[{x \in S : c[x] = t}]
  BY DEF Additive, Partitions
<1>2. ASSUME Wrong # {} PROVE FALSE
  <2>1. PICK Q \in Wrong : \A P \in Wrong : P \subseteq Q => P = Q
    <3>1. Wrong \in SUBSET (SUBSET T)
      OBVIOUS
    <3>. HIDE DEF Wrong
    <3>. QED
      BY <1>2, <3>1, MinimalSubset
  <2>2. Q \in SUBSET T /\ h[Q] # g[Part(Q)]
    BY <2>1
  <2>3. Q # {}
    <3>1. Part({}) = {}
      OBVIOUS
    <3>. QED
      BY <1>1, <2>2, <3>1
  <2>4. PICK t \in Q : TRUE
    BY <2>3
  <2>5. h[Q \ {t}] = g[Part(Q \ {t})]
    <3>1. Q \ {t} \in SUBSET T /\ Q \ {t} \subseteq Q /\ Q \ {t} # Q
      BY <2>2
    <3>. QED
      BY <2>1, <3>1
  <2>. DEFINE s1 == {x \in S : c[x] = t}
              s2 == Part(Q \ {t})
  <2>6. s1 \in SUBSET S /\ s2 \in SUBSET S /\ s1 \cap s2 = {} /\ s1 \cup s2 = Part(Q)
    BY <2>2
  <2>7. v[t] = g[s1]
    BY <1>1, <2>2
  <2>. HIDE DEF s1, s2, Part
  <2>8. g[s1 \cup s2] = g[s1] + g[s2]
    BY <2>6, AdditiveUnion
  <2>. QED
    BY <1>1, <2>2, <2>5, <2>6, <2>7, <2>8 DEF s2
<1>3. h[T] = g[Part(T)]
  BY <1>2
<1>4. Part(T) = S
  BY <1>1
<1>. QED
  BY <1>3, <1>4

\* The sum of up to four weights.
LEMMA AdditiveOne ==
  ASSUME NEW S, NEW w, NEW g, Additive(g, w, S), NEW a \in S
  PROVE  g[{a}] = w[a]
<1>1. {a} \ {a} = {} /\ {a} \in SUBSET S /\ a \in {a} /\ w[a] \in Int
  BY DEF Additive
<1>2. g[{a}] = w[a] + g[{a} \ {a}] /\ g[{}] = 0
  BY <1>1 DEF Additive
<1>3. g[{a}] = w[a] + 0
  BY Zenon, <1>1, <1>2
<1>. QED
  BY <1>1, <1>3

\* An additive function at two elements.
LEMMA AdditiveTwo ==
  ASSUME NEW S, NEW w, NEW g, Additive(g, w, S),
         NEW a \in S, NEW b \in S, a # b
  PROVE  g[{a, b}] = w[a] + w[b]
<1>1. {a, b} \ {a} = {b} /\ {a, b} \in SUBSET S
  OBVIOUS
<1>2. g[{a, b}] = w[a] + g[{a, b} \ {a}]
  BY <1>1 DEF Additive
<1>3. g[{b}] = w[b]
  BY AdditiveOne
<1>. QED
  BY Zenon, <1>1, <1>2, <1>3

\* At three.
LEMMA AdditiveThree ==
  ASSUME NEW S, NEW w, NEW g, Additive(g, w, S),
         NEW a \in S, NEW b \in S, NEW c \in S, a # b, a # c, b # c
  PROVE  g[{a, b, c}] = w[a] + w[b] + w[c]
<1>1. {a, b, c} \ {a} = {b, c} /\ {a, b, c} \in SUBSET S
  OBVIOUS
<1>2. g[{a, b, c}] = w[a] + g[{a, b, c} \ {a}]
  BY <1>1 DEF Additive
<1>3. g[{b, c}] = w[b] + w[c]
  BY AdditiveTwo
<1>4. g[{a, b, c}] = w[a] + (w[b] + w[c])
  BY Zenon, <1>1, <1>2, <1>3
<1>5. w[a] \in Int /\ w[b] \in Int /\ w[c] \in Int
  BY DEF Additive
<1>6. w[a] + (w[b] + w[c]) = w[a] + w[b] + w[c]
  BY <1>5
<1>. QED
  BY Zenon, <1>4, <1>6

\* At four.
LEMMA AdditiveFour ==
  ASSUME NEW S, NEW w, NEW g, Additive(g, w, S),
         NEW a \in S, NEW b \in S, NEW c \in S, NEW d \in S,
         a # b, a # c, a # d, b # c, b # d, c # d
  PROVE  g[{a, b, c, d}] = w[a] + w[b] + w[c] + w[d]
<1>1. {a, b, c, d} \ {a} = {b, c, d} /\ {a, b, c, d} \in SUBSET S
  OBVIOUS
<1>2. g[{a, b, c, d}] = w[a] + g[{a, b, c, d} \ {a}]
  BY <1>1 DEF Additive
<1>3. g[{b, c, d}] = w[b] + w[c] + w[d]
  BY AdditiveThree
<1>4. w[a] \in Int /\ w[b] \in Int /\ w[c] \in Int /\ w[d] \in Int
  BY DEF Additive
<1>5. g[{a, b, c, d}] = w[a] + (w[b] + w[c] + w[d])
  BY Zenon, <1>1, <1>2, <1>3
<1>6. w[a] + (w[b] + w[c] + w[d]) = w[a] + w[b] + w[c] + w[d]
  BY <1>4
<1>. QED
  BY Zenon, <1>5, <1>6

\* Larger weights have no smaller sum.
LEMMA AdditiveGrows ==
  ASSUME NEW S, IsFiniteSet(S), NEW w, NEW g, Additive(g, w, S), NEW v, NEW h, Additive(h, v, S),
         \A x \in S : w[x] <= v[x]
  PROVE  g[S] <= h[S]
<1>. DEFINE Wrong == {s \in SUBSET S : ~ (g[s] <= h[s])}
<1>1. /\ g[{}] = 0 /\ h[{}] = 0
      /\ \A x \in S : w[x] \in Int /\ v[x] \in Int
      /\ \A s \in SUBSET S : g[s] \in Int /\ h[s] \in Int
      /\ \A s \in SUBSET S : \A x \in s : g[s] = w[x] + g[s \ {x}] /\ h[s] = v[x] + h[s \ {x}]
  BY DEF Additive
<1>2. ASSUME Wrong # {} PROVE FALSE
  <2>1. PICK s \in Wrong : \A t \in Wrong : t \subseteq s => t = s
    <3>1. Wrong \in SUBSET (SUBSET S)
      OBVIOUS
    <3>. HIDE DEF Wrong
    <3>. QED
      BY <1>2, <3>1, MinimalSubset
  <2>2. s \in SUBSET S /\ ~ (g[s] <= h[s])
    BY <2>1
  <2>3. s # {}
    <3>1. CASE s = {}
      <4>1. g[s] = 0 /\ h[s] = 0
        BY <1>1, <3>1
      <4>. QED
        BY <2>2, <4>1
    <3>. QED
      BY <3>1
  <2>4. PICK x \in s : TRUE
    BY <2>3
  <2>5. g[s \ {x}] <= h[s \ {x}]
    <3>1. s \ {x} \in SUBSET S /\ s \ {x} \subseteq s /\ s \ {x} # s
      BY <2>2
    <3>. QED
      BY <2>1, <3>1
  <2>6. g[s] = w[x] + g[s \ {x}] /\ h[s] = v[x] + h[s \ {x}]
    BY <1>1, <2>2
  <2>7. /\ w[x] \in Int /\ v[x] \in Int /\ w[x] <= v[x]
        /\ g[s \ {x}] \in Int /\ h[s \ {x}] \in Int
    BY <1>1, <2>2
  <2>. QED
    BY <2>2, <2>5, <2>6, <2>7
<1>. QED
  BY <1>2

\* The sum of equal weights.
LEMMA AdditiveConstant ==
  ASSUME NEW S, IsFiniteSet(S), NEW k \in Int, NEW w, NEW g, Additive(g, w, S), \A x \in S : w[x] = k
  PROVE  g[S] = Cardinality(S) * k
<1>. DEFINE Wrong == {s \in SUBSET S : g[s] # Cardinality(s) * k}
<1>1. /\ g[{}] = 0
      /\ \A s \in SUBSET S : \A x \in s : g[s] = k + g[s \ {x}]
  BY DEF Additive
<1>2. ASSUME Wrong # {} PROVE FALSE
  <2>1. PICK s \in Wrong : \A t \in Wrong : t \subseteq s => t = s
    <3>1. Wrong \in SUBSET (SUBSET S)
      OBVIOUS
    <3>. HIDE DEF Wrong
    <3>. QED
      BY <1>2, <3>1, MinimalSubset
  <2>2. s \in SUBSET S /\ g[s] # Cardinality(s) * k
    BY <2>1
  <2>3. s # {}
    <3>1. Cardinality({}) * k = 0
      BY FS_EmptySet
    <3>. QED
      BY <1>1, <2>2, <3>1
  <2>4. PICK x \in s : TRUE
    BY <2>3
  <2>5. g[s \ {x}] = Cardinality(s \ {x}) * k
    <3>1. s \ {x} \in SUBSET S /\ s \ {x} \subseteq s /\ s \ {x} # s
      BY <2>2
    <3>. QED
      BY <2>1, <3>1
  <2>6. g[s] = k + g[s \ {x}]
    BY <1>1, <2>2
  <2>7. Cardinality(s) \in Nat /\ Cardinality(s \ {x}) = Cardinality(s) - 1
    <3>1. IsFiniteSet(s)
      BY <2>2, FS_Subset
    <3>. QED
      BY <3>1, FS_RemoveElement, FS_CardinalityType
  <2>8. k + (Cardinality(s) - 1) * k = Cardinality(s) * k
    BY <2>7
  <2>. QED
    BY <2>2, <2>5, <2>6, <2>7, <2>8
<1>. QED
  BY <1>2
=============================================================================
