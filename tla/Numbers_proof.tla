--------------------------- MODULE Numbers_proof ----------------------------
(***************************************************************************)
(* Lemmas about Numbers.  A finite set of naturals can be listed in order: *)
(* what Python's sorted does to dictionary keys, and how Ascending names   *)
(* the elements of the list, by the number of smaller ones.  A product of  *)
(* different primes tells which ones they are.                             *)
(***************************************************************************)
EXTENDS Numbers, TLAPS, FiniteSetTheorems, FunctionTheorems, WellFoundedInduction

-----------------------------------------------------------------------------
(* Lists in order.                                                         *)

(* A nonempty set of naturals has a least element.                         *)
LEMMA LeastNatural ==
    ASSUME NEW S, S \subseteq Nat, S # {}
    PROVE  \E m \in S : \A k \in S : m <= k
<1> DEFINE R == OpToRel(<, Nat)
<1>1. IsWellFoundedOn(R, Nat)
  BY NatLessThanWellFounded
<1>2. PICK m \in S : \A k \in S : ~(<<k, m>> \in R)
  <2> HIDE DEF R
  <2> QED BY <1>1, WFMin
<1>3. \A k \in S : ~(k < m)
  BY <1>2 DEF OpToRel
<1> QED BY <1>3

(* Every rank is taken: in a set of n naturals there is, for every i in    *)
(* 1..n, one with exactly i - 1 smaller ones.                              *)
LEMMA RankExists ==
    ASSUME NEW S, S \subseteq Nat, IsFiniteSet(S), NEW i \in 1..Cardinality(S)
    PROVE  \E v \in S : Cardinality({k \in S : k < v}) = i - 1
<1> DEFINE n == Cardinality(S)
           Has(m) == \E v \in S : Cardinality({k \in S : k < v}) = m - 1
           Bad == {m \in 1..n : ~Has(m)}
<1> USE DEF Has
<1>0. n \in Nat
  BY FS_CardinalityType
<1>1. SUFFICES ASSUME Bad # {} PROVE FALSE
  <2>1. i \notin Bad => Has(i)
    BY DEF Bad
  <2> QED BY <1>1, <2>1
<1>2. Bad \subseteq Nat
  BY <1>0
<1>3. PICK m \in Bad : \A k \in Bad : m <= k
  <2> HIDE DEF Bad
  <2> QED BY <1>1, <1>2, LeastNatural
<1>4. CASE m = 1
  <2>1. S # {}
    BY <1>0, FS_EmptySet
  <2>2. PICK v \in S : \A k \in S : v <= k
    BY <2>1, LeastNatural
  <2>3. {k \in S : k < v} = {}
    <3>1. ASSUME NEW k \in S PROVE ~(k < v)
      <4>1. k \in Nat /\ v \in Nat /\ v <= k
        BY <2>2
      <4> QED BY <4>1
    <3> QED BY <3>1
  <2>4. Cardinality({k \in S : k < v}) = 0
    BY <2>3, FS_EmptySet
  <2> QED BY <2>4, <1>4
<1>5. CASE m # 1
  <2>1. m - 1 \in 1..n /\ m - 1 \notin Bad
    <3>1. m \in 1..n
      OBVIOUS
    <3>2. m - 1 \in 1..n /\ ~(m <= m - 1)
      BY <1>0, <1>5, <3>1
    <3> HIDE DEF Bad
    <3> QED BY <1>3, <3>2
  <2>2. PICK u \in S : Cardinality({k \in S : k < u}) = m - 2
    BY <2>1
  <2> DEFINE Low == {k \in S : k < u}
             Up == {k \in S : k > u}
  <2>3. IsFiniteSet(Low) /\ u \notin Low
    <3>1. Low \in SUBSET S
      OBVIOUS
    <3>2. u \notin Low
      OBVIOUS
    <3> QED BY <3>1, <3>2, FS_Subset
  <2>4. Cardinality(Low \cup {u}) = m - 1
    <3>1. Cardinality(Low \cup {u}) = Cardinality(Low) + 1
      BY <2>3, FS_AddElement
    <3> QED BY <2>1, <2>2, <3>1
  <2>5. Up # {}
    <3>1. SUFFICES ASSUME Up = {} PROVE FALSE
      OBVIOUS
    <3>2. ASSUME NEW k \in S PROVE k \in Low \cup {u}
      <4>1. k \in Nat /\ u \in Nat /\ ~(k > u)
        BY <3>1
      <4> QED BY <4>1
    <3>4. S = Low \cup {u}
      BY <3>2
    <3>3. n = m - 1
      BY <2>4, <3>4
    <3> QED BY <1>0, <1>3, <3>3
  <2>6. PICK v \in Up : \A k \in Up : v <= k
    BY <2>5, LeastNatural
  <2>7. {k \in S : k < v} = Low \cup {u}
    <3>1. v \in Nat /\ u \in Nat /\ v > u
      OBVIOUS
    <3>2. ASSUME NEW k \in S PROVE k < v <=> k \in Low \cup {u}
      <4>1. k \in Nat /\ (k > u => v <= k)
        BY <2>6
      <4> QED BY <3>1, <4>1
    <3> QED BY <3>2
  <2> QED BY <2>4, <2>6, <2>7
<1> QED BY <1>4, <1>5

(* An element has as many smaller ones as its rank says, and two have not  *)
(* the same rank.                                                          *)
LEMMA RanksDiffer ==
    ASSUME NEW S, S \subseteq Nat, IsFiniteSet(S), NEW u \in S, NEW v \in S, u < v
    PROVE  /\ Cardinality({k \in S : k < u}) \in Nat
           /\ Cardinality({k \in S : k < v}) \in Nat
           /\ Cardinality({k \in S : k < u}) < Cardinality({k \in S : k < v})
           /\ Cardinality({k \in S : k < v}) < Cardinality(S)
<1> DEFINE Low(w) == {k \in S : k < w}
<1>1. IsFiniteSet(Low(u)) /\ IsFiniteSet(Low(v))
  <2>1. Low(u) \in SUBSET S /\ Low(v) \in SUBSET S
    OBVIOUS
  <2> HIDE DEF Low
  <2> QED BY <2>1, FS_Subset
<1>2. u \notin Low(u) /\ v \notin Low(v)
  OBVIOUS
<1>3. Low(u) \cup {u} \in SUBSET Low(v) /\ Low(v) \cup {v} \in SUBSET S
  <2>1. ASSUME NEW k \in S, k < u
        PROVE  k < v
    <3>1. k \in Nat /\ u \in Nat /\ v \in Nat
      OBVIOUS
    <3> QED BY <2>1, <3>1
  <2> QED BY <2>1
<1> HIDE DEF Low
<1>4. /\ Cardinality(Low(u)) \in Nat /\ Cardinality(Low(v)) \in Nat /\ Cardinality(S) \in Nat
  BY <1>1, FS_CardinalityType
<1>5. /\ Cardinality(Low(u) \cup {u}) = Cardinality(Low(u)) + 1
      /\ Cardinality(Low(v) \cup {v}) = Cardinality(Low(v)) + 1
  BY <1>1, <1>2, FS_AddElement
<1>6. /\ Cardinality(Low(u) \cup {u}) <= Cardinality(Low(v))
      /\ Cardinality(Low(v) \cup {v}) <= Cardinality(S)
  BY <1>1, <1>3, FS_Subset
<1> QED BY <1>4, <1>5, <1>6 DEF Low

(* The element with i - 1 smaller ones is the i-th.                        *)
LEMMA RankTells ==
    ASSUME NEW S, S \subseteq Nat, IsFiniteSet(S), NEW v \in S, NEW i \in 1..Cardinality(S),
           Cardinality({k \in S : k < v}) = i - 1
    PROVE  Ascending(S)[i] = v
<1> DEFINE Rank(u) == Cardinality({k \in S : k < u})
<1>1. Ascending(S)[i] = CHOOSE u \in S : Rank(u) = i - 1
  BY DEF Ascending
<1>2. ASSUME NEW u \in S, Rank(u) = i - 1
      PROVE  u = v
  <2>1. u \in Nat /\ v \in Nat
    OBVIOUS
  <2>2. ~(Rank(u) < Rank(v)) /\ ~(Rank(v) < Rank(u))
    BY <1>2
  <2>3. ~(u < v) /\ ~(v < u)
    BY <2>2, RanksDiffer
  <2> QED BY <2>1, <2>3
<1>3. Rank(v) = i - 1
  OBVIOUS
<1> HIDE DEF Rank
<1> QED BY <1>1, <1>2, <1>3

(* Ascending lists every element, once, and in order.                      *)
LEMMA AscendingLists ==
    ASSUME NEW S, S \subseteq Nat, IsFiniteSet(S)
    PROVE  /\ Cardinality(S) \in Nat
           /\ Ascending(S) \in Bijection(1..Cardinality(S), S)
           /\ \A i \in 1..Cardinality(S) :
                Cardinality({k \in S : k < Ascending(S)[i]}) = i - 1
<1> DEFINE n == Cardinality(S)
           A == Ascending(S)
           Rank(u) == Cardinality({k \in S : k < u})
<1>1. n \in Nat
  BY FS_CardinalityType
<1>2. ASSUME NEW i \in 1..n
      PROVE  A[i] \in S /\ Rank(A[i]) = i - 1
  <2>1. A[i] = CHOOSE u \in S : Rank(u) = i - 1
    BY DEF Ascending
  <2>2. \E u \in S : Rank(u) = i - 1
    BY RankExists
  <2> HIDE DEF Rank, A
  <2> QED BY <2>1, <2>2
<1>3. A \in [1..n -> S]
  <2>1. A = [i \in 1..n |-> CHOOSE u \in S : Rank(u) = i - 1]
    BY Zenon DEF Ascending
  <2>2. A = [i \in 1..n |-> A[i]]
    BY <2>1, Zenon
  <2> HIDE DEF A, n
  <2> QED BY <1>2, <2>2
<1>4. ASSUME NEW i \in 1..n, NEW j \in 1..n, A[i] = A[j]
      PROVE  i = j
  <2>1. i - 1 = j - 1
    BY <1>2, <1>4
  <2> QED BY <2>1
<1>5. ASSUME NEW v \in S
      PROVE  \E i \in 1..n : A[i] = v
  <2>1. Rank(v) \in Nat /\ Rank(v) < n
    <3>1. {k \in S : k < v} \in SUBSET S /\ v \notin {k \in S : k < v}
      OBVIOUS
    <3> HIDE DEF n
    <3>2. IsFiniteSet({k \in S : k < v}) /\ Rank(v) <= n /\ Rank(v) # n
      BY <3>1, FS_Subset DEF n
    <3>3. Rank(v) \in Nat
      BY <3>2, FS_CardinalityType
    <3> QED BY <1>1, <3>2, <3>3
  <2>2. Rank(v) + 1 \in 1..n
    BY <1>1, <2>1
  <2>3. PICK i \in 1..n : i = Rank(v) + 1
    BY <2>2
  <2>4. Rank(v) = i - 1
    BY <2>1, <2>3
  <2>5. A[i] = v
    BY <2>4, RankTells
  <2> QED BY <2>5
<1>6. A \in Bijection(1..n, S)
  <2> HIDE DEF A, n
  <2>1. A \in Injection(1..n, S)
    BY <1>3, <1>4 DEF Injection, IsInjective
  <2>2. A \in Surjection(1..n, S)
    BY <1>3, <1>5 DEF Surjection
  <2> QED BY <2>1, <2>2 DEF Bijection
<1> QED BY <1>1, <1>2, <1>6

(* A number greater than all others comes last.                            *)
LEMMA AscendingAppends ==
    ASSUME NEW S, S \subseteq Nat, IsFiniteSet(S), NEW n \in Nat, \A k \in S : k < n
    PROVE  /\ Cardinality(S \cup {n}) = Cardinality(S) + 1
           /\ \A i \in 1..Cardinality(S) : Ascending(S \cup {n})[i] = Ascending(S)[i]
           /\ Ascending(S \cup {n})[Cardinality(S) + 1] = n
<1> DEFINE T == S \cup {n}
           c == Cardinality(S)
<1>1. T \subseteq Nat /\ n \notin S
  OBVIOUS
<1>2. IsFiniteSet(T) /\ Cardinality(T) = c + 1
  BY <1>1, FS_AddElement
<1>3. c \in Nat
  BY FS_CardinalityType
<1>4. ASSUME NEW i \in 1..c
      PROVE  Ascending(T)[i] = Ascending(S)[i]
  <2>1. PICK v \in S : v = Ascending(S)[i]
    <3>1. Ascending(S) \in [1..c -> S]
      BY AscendingLists, Fun_BijectionProperties
    <3> QED BY <3>1
  <2>2. Cardinality({k \in S : k < v}) = i - 1
    BY <2>1, AscendingLists
  <2>3. {k \in T : k < v} = {k \in S : k < v}
    <3>1. v \in Nat /\ v < n
      OBVIOUS
    <3> QED BY <3>1
  <2>4. v \in T /\ i \in 1..Cardinality(T)
    BY <1>2, <1>3
  <2>5. Cardinality({k \in T : k < v}) = i - 1
    BY <2>2, <2>3
  <2> HIDE DEF T
  <2> QED BY <1>1, <1>2, <2>1, <2>4, <2>5, RankTells
<1>5. Ascending(T)[c + 1] = n
  <2>1. {k \in T : k < n} = S
    <3>1. ~(n < n)
      OBVIOUS
    <3> QED BY <3>1
  <2>2. n \in T /\ c + 1 \in 1..Cardinality(T)
    BY <1>2, <1>3
  <2>3. Cardinality({k \in T : k < n}) = (c + 1) - 1
    <3>1. Cardinality({k \in T : k < n}) = c
      BY <2>1
    <3> HIDE DEF c, T
    <3> QED BY <1>3, <3>1
  <2> HIDE DEF T, c
  <2> QED BY <1>1, <1>2, <2>2, <2>3, RankTells
<1> QED BY <1>2, <1>4, <1>5

(* A nonempty set of indices has a greatest one.                           *)
LEMMA GreatestIndex ==
    ASSUME NEW n \in Nat, NEW S, S \subseteq 1..n, S # {}
    PROVE  \E m \in S : \A k \in S : k <= m
<1> DEFINE T == {n - k : k \in S}
<1>1. T \subseteq Nat /\ T # {}
  <2>1. \A k \in S : n - k \in Nat
    OBVIOUS
  <2> QED BY <2>1
<1>2. PICK t \in T : \A k \in T : t <= k
  <2> HIDE DEF T
  <2> QED BY <1>1, LeastNatural
<1>3. PICK m \in S : t = n - m
  OBVIOUS
<1>4. ASSUME NEW k \in S PROVE k <= m
  <2>1. n - m <= n - k
    BY <1>2, <1>3
  <2> QED BY <2>1
<1> QED BY <1>4

(* What a bijection carries over is as much there as here.                 *)
LEMMA SameCount ==
    ASSUME NEW S, NEW T, IsFiniteSet(S), NEW f \in Bijection(S, T),
           NEW A, A \subseteq S, NEW B, B \subseteq T, \A i \in S : i \in A <=> f[i] \in B
    PROVE  Cardinality(A) = Cardinality(B)
<1> DEFINE g == [i \in A |-> f[i]]
<1>1. /\ f \in [S -> T]
      /\ \A i, k \in S : f[i] = f[k] => i = k
      /\ \A t \in T : \E i \in S : f[i] = t
  BY Fun_BijectionProperties
<1>2. g \in [A -> B]
  BY <1>1
<1>3. g \in Injection(A, B)
  BY <1>1, <1>2 DEF Injection, IsInjective
<1>4. g \in Surjection(A, B)
  <2>1. ASSUME NEW t \in B
        PROVE  \E i \in A : g[i] = t
    BY <1>1
  <2> QED BY <1>2, <2>1 DEF Surjection
<1>5. g \in Bijection(A, B)
  BY <1>3, <1>4 DEF Bijection
<1>6. IsFiniteSet(A)
  BY FS_Subset
<1> QED BY <1>5, <1>6, FS_Bijection DEF ExistsBijection

(* One more entry at the end of a sequence is one more kept if its place   *)
(* is among those kept, and changes nothing otherwise.                     *)
LEMMA KeptAppends ==
    ASSUME NEW T, NEW s \in Seq(T), NEW e \in T, NEW P \in SUBSET DOMAIN s,
           NEW t \in Seq(T), Len(t) = Len(s) + 1, t[Len(t)] = e, \A k \in DOMAIN s : t[k] = s[k]
    PROVE  /\ Kept(s, P) \in Seq(T) /\ Kept(t, P \cup {Len(t)}) \in Seq(T)
           /\ Kept(t, P) = Kept(s, P)
           /\ Len(Kept(t, P \cup {Len(t)})) = Len(Kept(s, P)) + 1
           /\ Kept(t, P \cup {Len(t)})[Len(Kept(s, P)) + 1] = e
           /\ \A i \in 1..Len(Kept(s, P)) : Kept(t, P \cup {Len(t)})[i] = Kept(s, P)[i]
<1> DEFINE n == Len(s)
           A == Ascending(P)
           c == Cardinality(P)
           B == Ascending(P \cup {n + 1})
<1>1. n \in Nat /\ DOMAIN s = 1..n /\ \A k \in 1..n : t[k] = s[k] /\ s[k] \in T
  OBVIOUS
<1>2. t[n + 1] = e /\ Len(t) = n + 1
  OBVIOUS
<1>3. P \subseteq Nat /\ IsFiniteSet(P) /\ \A k \in P : k < n + 1
  <2>1. PICK length \in Nat : length = n
    BY <1>1
  <2>2. IsFiniteSet(1..length)
    BY FS_Interval
  <2>3. IsFiniteSet(P)
    BY <2>1, <2>2, FS_Subset
  <2> QED BY <1>1, <2>3
<1> HIDE DEF n
<1>4. c \in Nat /\ A \in Bijection(1..c, P)
  BY <1>3, AscendingLists
<1>5. \A i \in 1..c : A[i] \in P
  <2>1. PICK S : S = 1..c
    OBVIOUS
  <2>2. A \in Bijection(S, P)
    BY <1>4, <2>1
  <2> HIDE DEF A, c
  <2>3. A \in [S -> P]
    BY <2>2, Fun_BijectionProperties
  <2> QED BY <2>1, <2>3
<1>6. /\ Cardinality(P \cup {n + 1}) = c + 1
      /\ \A i \in 1..c : B[i] = A[i]
      /\ B[c + 1] = n + 1
  <2>1. PICK last \in Nat : last = n + 1
    BY <1>1
  <2>2. \A k \in P : k < last
    BY <1>3, <2>1
  <2> QED BY <1>3, <2>1, <2>2, AscendingAppends
<1>7. /\ Kept(s, P) = [i \in 1..c |-> s[A[i]]]
      /\ Kept(t, P) = [i \in 1..c |-> t[A[i]]]
      /\ Kept(t, P \cup {n + 1}) = [i \in 1..(c + 1) |-> t[B[i]]]
  BY <1>6 DEF Kept
<1> HIDE DEF A, B, c
<1>8. \A i \in 1..c : A[i] \in 1..n
  BY <1>5 DEF n
<1>9. Kept(s, P) \in Seq(T) /\ Len(Kept(s, P)) = c
  BY <1>1, <1>4, <1>7, <1>8
<1>10. Kept(t, P) = Kept(s, P)
  BY <1>1, <1>7, <1>8
<1>11. /\ Kept(t, P \cup {n + 1}) \in Seq(T)
       /\ Len(Kept(t, P \cup {n + 1})) = c + 1
       /\ Kept(t, P \cup {n + 1})[c + 1] = e
       /\ \A i \in 1..c : Kept(t, P \cup {n + 1})[i] = Kept(s, P)[i]
  <2>1. \A i \in 1..c : t[B[i]] = s[A[i]] /\ s[A[i]] \in T
    BY <1>1, <1>6, <1>8
  <2>2. t[B[c + 1]] = e
    BY <1>2, <1>6
  <2>3. \A i \in 1..(c + 1) : i = c + 1 \/ i \in 1..c
    BY <1>4
  <2>4. \A i \in 1..(c + 1) : t[B[i]] \in T
    BY <2>1, <2>2, <2>3
  <2>5. PICK longer : longer = [i \in 1..(c + 1) |-> t[B[i]]]
    OBVIOUS
  <2>6. longer \in [1..(c + 1) -> T] /\ c + 1 \in Nat
    BY <1>4, <2>4, <2>5
  <2>7. longer \in Seq(T) /\ Len(longer) = c + 1
    BY <2>6
  <2>8. longer[c + 1] = e /\ \A i \in 1..c : longer[i] = s[A[i]]
    BY <1>4, <2>1, <2>2, <2>5
  <2>9. \A i \in 1..c : Kept(s, P)[i] = s[A[i]]
    BY <1>7
  <2>10. Kept(t, P \cup {n + 1}) = longer
    BY <1>7, <2>5
  <2> QED BY <2>7, <2>8, <2>9, <2>10
<1> QED BY <1>2, <1>9, <1>10, <1>11

-----------------------------------------------------------------------------
(* Numbers.                                                                *)

(* Induction up to n.                                                      *)
LEMMA UpTo ==
    ASSUME NEW n \in Nat, NEW S, 0 \in S, \A k \in 1..n : k - 1 \in S => k \in S
    PROVE  0..n \subseteq S
<1> DEFINE L == (0..n) \ S
<1>1. L = {}
  <2> SUFFICES ASSUME L # {} PROVE FALSE
    OBVIOUS
  <2>0. L \subseteq Nat
    OBVIOUS
  <2>1. PICK m \in L : \A k \in L : m <= k
    <3> HIDE DEF L
    <3> QED BY <2>0, LeastNatural
  <2>2. m \in 1..n /\ m - 1 \in 0..n /\ m - 1 \notin L
    BY <2>1
  <2> QED BY <2>1, <2>2
<1> QED BY <1>1

LEMMA Division ==
    ASSUME NEW p \in Nat \ {0}, NEW a \in Nat
    PROVE  /\ a \div p \in Nat /\ a % p \in Nat
           /\ a % p < p /\ a = p * (a \div p) + (a % p)
OBVIOUS

LEMMA OneRemainder ==
    ASSUME NEW p \in Nat \ {0}, NEW t \in Nat, NEW u \in Nat, NEW r \in Nat, NEW s \in Nat,
           r < p, s < p, p * t + r = p * u + s
    PROVE  r = s
<1>1. ~(t < u)
  <2> SUFFICES ASSUME t < u PROVE FALSE
    OBVIOUS
  <2>1. PICK v \in Nat : u = t + 1 + v
    <3>1. u - t - 1 \in Nat /\ u = t + 1 + (u - t - 1)
      OBVIOUS
    <3> QED BY <3>1
  <2>2. p * u = p * t + p + p * v /\ p * v >= 0
    BY <2>1
  <2> QED BY <2>2
<1>2. ~(u < t)
  <2> SUFFICES ASSUME u < t PROVE FALSE
    OBVIOUS
  <2>1. PICK v \in Nat : t = u + 1 + v
    <3>1. t - u - 1 \in Nat /\ t = u + 1 + (t - u - 1)
      OBVIOUS
    <3> QED BY <3>1
  <2>2. p * t = p * u + p + p * v /\ p * v >= 0
    BY <2>1
  <2> QED BY <2>2
<1> QED BY <1>1, <1>2

-----------------------------------------------------------------------------
(* Products of some of a list of numbers.                                  *)

(* The product of the numbers at some places, number after number.         *)
PlaceByPlace(f, numbers, places) ==
    /\ f[0] = 1
    /\ \A n \in 1..Len(numbers) :
         f[n] = IF n \in places THEN f[n - 1] * numbers[n] ELSE f[n - 1]
    /\ Product(numbers, places) = f[Len(numbers)]

LEMMA ProductPlaces ==
    ASSUME NEW numbers, Len(numbers) \in Nat, NEW places
    PROVE  \E f : PlaceByPlace(f, numbers, places)
<1> DEFINE Step(f, n) == IF n = 0 THEN 1
                         ELSE IF n \in places THEN f[n - 1] * numbers[n] ELSE f[n - 1]
           Is(n, f) == f = [m \in 0..n |-> Step(f, m)]
           l == Len(numbers)
           S == {n \in Nat : \E f : Is(n, f)}
<1>1. 0 \in S
  <2> DEFINE g == [m \in 0..0 |-> 1]
  <2>1. Is(0, g)
    OBVIOUS
  <2> QED BY <2>1
<1>2. ASSUME NEW n \in 1..l, n - 1 \in S
      PROVE  n \in S
  <2>1. PICK f : Is(n - 1, f)
    BY <1>2
  <2> DEFINE g == [m \in 0..n |-> IF m = n THEN Step(f, n) ELSE f[m]]
  <2>2. \A m \in 0..n : g[m] = Step(g, m)
    <3> SUFFICES ASSUME NEW m \in 0..n PROVE g[m] = Step(g, m)
      OBVIOUS
    <3>1. CASE m = n
      BY <1>2, <3>1
    <3>2. CASE m # n
      <4>1. m \in 0..(n - 1) /\ (m = 0 \/ m - 1 \in 0..(n - 1))
        BY <3>2
      <4>2. g[m] = f[m] /\ (m = 0 \/ g[m - 1] = f[m - 1])
        BY <3>2, <4>1
      <4>3. f[m] = Step(f, m)
        BY <2>1, <4>1
      <4> HIDE DEF g
      <4> QED BY <4>1, <4>2, <4>3
    <3> QED BY <3>1, <3>2
  <2>3. g = [m \in 0..n |-> g[m]]
    OBVIOUS
  <2>4. Is(n, g)
    <3> HIDE DEF g, Step
    <3> QED BY <2>2, <2>3
  <2>5. n \in Nat
    OBVIOUS
  <2> HIDE DEF Is
  <2> QED BY <2>4, <2>5
<1>3. l \in S
  <2>1. l \in Nat /\ l \in 0..l
    OBVIOUS
  <2> HIDE DEF S, l
  <2>2. 0..l \subseteq S
    BY <1>1, <1>2, <2>1, UpTo
  <2> QED BY <2>1, <2>2
<1> DEFINE f == CHOOSE h : Is(l, h)
<1>4. Is(l, f)
  <2> HIDE DEF Is
  <2> QED BY <1>3
<1>5. Product(numbers, places) = f[l]
  BY DEF Product
<1> HIDE DEF f
<1>6. \A n \in 0..l : f[n] = Step(f, n)
  BY <1>4
<1>7. f[0] = 1 /\ \A n \in 1..l :
        f[n] = IF n \in places THEN f[n - 1] * numbers[n] ELSE f[n - 1]
  BY <1>6
<1> QED BY <1>5, <1>7 DEF PlaceByPlace

(* Positive numbers.                                                       *)
Positive(numbers) ==
    Len(numbers) \in Nat /\ \A k \in 1..Len(numbers) : numbers[k] \in Nat \ {0}

LEMMA PlacesPositive ==
    ASSUME NEW numbers, Positive(numbers), NEW places, NEW f, PlaceByPlace(f, numbers, places),
           NEW n \in 0..Len(numbers)
    PROVE  f[n] \in Nat \ {0}
<1> DEFINE l == Len(numbers)
           S == {m \in 0..l : f[m] \in Nat \ {0}}
<1>1. 0 \in S
  BY DEF PlaceByPlace, Positive
<1>2. ASSUME NEW m \in 1..l, m - 1 \in S
      PROVE  m \in S
  <2>1. PICK u \in Nat \ {0}, v \in Nat \ {0} : u = f[m - 1] /\ v = numbers[m]
    BY <1>2 DEF Positive
  <2>2. u * v \in Nat \ {0}
    OBVIOUS
  <2> QED BY <2>1, <2>2 DEF PlaceByPlace
<1>3. l \in Nat
  BY DEF Positive
<1>4. 0..l \subseteq S
  <2> HIDE DEF S, l
  <2> QED BY <1>1, <1>2, <1>3, UpTo
<1> QED BY <1>4

LEMMA ProductPositive ==
    ASSUME NEW numbers, Positive(numbers), NEW places
    PROVE  Product(numbers, places) \in Nat \ {0}
<1>1. Len(numbers) \in Nat /\ Len(numbers) \in 0..Len(numbers)
  BY DEF Positive
<1>2. PICK f : PlaceByPlace(f, numbers, places)
  BY <1>1, ProductPlaces
<1>3. f[Len(numbers)] \in Nat \ {0}
  BY <1>1, <1>2, PlacesPositive
<1> QED BY <1>2, <1>3 DEF PlaceByPlace

LEMMA EmptyProduct ==
    ASSUME NEW numbers, Positive(numbers)
    PROVE  Product(numbers, {}) = 1
<1> DEFINE l == Len(numbers)
<1>1. l \in Nat
  BY DEF Positive
<1>2. PICK f : PlaceByPlace(f, numbers, {})
  BY <1>1, ProductPlaces
<1> DEFINE S == {m \in 0..l : f[m] = 1}
<1>3. 0 \in S /\ \A m \in 1..l : m - 1 \in S => m \in S
  BY <1>1, <1>2 DEF PlaceByPlace
<1>4. 0..l \subseteq S
  <2> HIDE DEF S, l
  <2> QED BY <1>1, <1>3, UpTo
<1> QED BY <1>1, <1>2, <1>4 DEF PlaceByPlace

(* One place more is one factor more.                                      *)
LEMMA OneMoreFactor ==
    ASSUME NEW numbers, Positive(numbers), NEW places, NEW j \in 1..Len(numbers), j \notin places
    PROVE  Product(numbers, places \cup {j}) = Product(numbers, places) * numbers[j]
<1> DEFINE l == Len(numbers)
           more == places \cup {j}
<1>1. l \in Nat
  BY DEF Positive
<1>2. PICK f : PlaceByPlace(f, numbers, places)
  BY <1>1, ProductPlaces
<1>3. PICK g : PlaceByPlace(g, numbers, more)
  BY <1>1, ProductPlaces
<1> DEFINE S == {m \in 0..l : g[m] = IF m < j THEN f[m] ELSE f[m] * numbers[j]}
<1>4. 0 \in S
  BY <1>1, <1>2, <1>3 DEF PlaceByPlace
<1>5. ASSUME NEW m \in 1..l, m - 1 \in S
      PROVE  m \in S
  <2>1. PICK u \in Nat, v \in Nat, w \in Nat : u = f[m - 1] /\ v = numbers[m] /\ w = numbers[j]
    <3>1. m - 1 \in 0..l
      BY <1>1
    <3>2. f[m - 1] \in Nat
      BY <1>2, <3>1, PlacesPositive
    <3> QED BY <3>2 DEF Positive
  <2>2. /\ f[m] = IF m \in places THEN u * v ELSE u
        /\ g[m] = IF m \in more THEN g[m - 1] * v ELSE g[m - 1]
    BY <1>2, <1>3, <2>1 DEF PlaceByPlace
  <2>3. g[m - 1] = IF m - 1 < j THEN u ELSE u * w
    BY <1>5, <2>1
  <2>4. CASE m < j
    BY <1>1, <2>2, <2>3, <2>4
  <2>5. CASE m = j
    BY <1>1, <2>1, <2>2, <2>3, <2>5
  <2>6. CASE j < m
    <3>1. g[m] = IF m \in places THEN (u * w) * v ELSE u * w
      BY <1>1, <2>2, <2>3, <2>6
    <3>2. (u * w) * v = (u * v) * w
      OBVIOUS
    <3> QED BY <1>1, <2>1, <2>2, <2>6, <3>1, <3>2
  <2> QED BY <1>1, <2>4, <2>5, <2>6
<1>6. 0..l \subseteq S
  <2> HIDE DEF S, l
  <2> QED BY <1>1, <1>4, <1>5, UpTo
<1> QED BY <1>1, <1>2, <1>3, <1>6 DEF PlaceByPlace

-----------------------------------------------------------------------------
(* Products of primes.                                                     *)

Divides(d, n) == \E k \in Nat : n = d * k

(* Trial division up to the square root leaves no divisor but one and the  *)
(* number.                                                                 *)
LEMMA DivisorsOfPrime ==
    ASSUME NEW n \in Nat, IsPrime(n), NEW d \in Nat, Divides(d, n)
    PROVE  d = 1 \/ d = n
<1>1. PICK t \in Nat : n = d * t
  BY DEF Divides
<1>2. n > 1
  BY DEF IsPrime
<1>3. ASSUME NEW u \in Nat, NEW v \in Nat, n = u * v, 1 < u, u <= v
      PROVE  FALSE
  <2>1. u < n
    <3>1. 2 * v <= u * v
      BY <1>3
    <3> QED BY <1>3, <3>1
  <2>2. u * u <= n
    <3>1. u * u <= u * v
      BY <1>3
    <3> QED BY <1>3, <3>1
  <2>3. n % u # 0
    <3>1. u \in 2..(n - 1)
      BY <1>3, <2>1
    <3> QED BY <2>2, <3>1, Zenon DEF IsPrime
  <2>4. u \in Nat \ {0}
    BY <1>3
  <2>5. PICK a \in Nat, r \in Nat : r = n % u /\ r < u /\ n = u * a + r
    BY <2>4, Division
  <2>6. u * a + r = u * v + 0 /\ 0 < u
    BY <1>3, <2>5
  <2>7. r = 0
    BY <2>4, <2>5, <2>6, OneRemainder
  <2> QED BY <2>3, <2>5, <2>7
<1>4. d # 0 /\ t # 0
  BY <1>1, <1>2
<1>5. n = t * d
  BY <1>1
<1>6. d = 1 \/ t = 1
  <2>1. d <= t \/ t <= d
    OBVIOUS
  <2>2. (d = 1 \/ 1 < d) /\ (t = 1 \/ 1 < t)
    BY <1>4
  <2> QED BY <1>1, <1>3, <1>5, <2>1, <2>2
<1> QED BY <1>1, <1>6

(* Euclid: a prime divides a product only through one of the factors.      *)
LEMMA PrimeOfFactor ==
    ASSUME NEW p \in Nat, IsPrime(p), NEW a \in Nat \ {0}, NEW b \in Nat \ {0}, Divides(p, a * b)
    PROVE  Divides(p, a) \/ Divides(p, b)
<1> DEFINE G == {x \in Nat \ {0} : Divides(p, x * b)}
<1>1. p > 1
  BY DEF IsPrime
<1>2. a \in G
  OBVIOUS
<1>3. p \in G
  <2>1. p * b = p * b
    OBVIOUS
  <2> QED BY <1>1, <2>1 DEF Divides
<1>4. PICK m \in G : \A x \in G : m <= x
  <2>1. G \subseteq Nat /\ G # {}
    BY <1>2
  <2> HIDE DEF G
  <2> QED BY <2>1, LeastNatural
<1>5. ASSUME NEW x \in G
      PROVE  Divides(m, x)
  <2>1. PICK k \in Nat : x * b = p * k
    BY <1>5 DEF Divides
  <2>2. PICK l \in Nat : m * b = p * l
    BY <1>4 DEF Divides
  <2>3. PICK q \in Nat, r \in Nat : r < m /\ x = m * q + r
    <3>1. m \in Nat \ {0} /\ x \in Nat
      OBVIOUS
    <3> QED BY <3>1, Division
  <2>4. r * b = p * (k - l * q)
    <3>1. x * b = (m * b) * q + r * b
      BY <2>3
    <3>2. (p * l) * q = p * (l * q)
      OBVIOUS
    <3>3. PICK y \in Nat : y = l * q
      OBVIOUS
    <3>4. p * (k - y) = p * k - p * y
      BY <3>3
    <3> QED BY <2>1, <2>2, <3>1, <3>2, <3>3, <3>4
  <2>5. PICK z \in Int : z = k - l * q
    OBVIOUS
  <2>6. z \in Nat
    <3> SUFFICES ASSUME z < 0 PROVE FALSE
      OBVIOUS
    <3>1. p * z < 0
      BY <1>1
    <3>2. r * b >= 0
      OBVIOUS
    <3> QED BY <2>4, <2>5, <3>1, <3>2
  <2>7. r = 0
    <3> SUFFICES ASSUME r # 0 PROVE FALSE
      OBVIOUS
    <3>1. r \in G
      BY <2>4, <2>5, <2>6 DEF Divides
    <3> QED BY <1>4, <2>3, <3>1
  <2> QED BY <2>3, <2>7 DEF Divides
<1>6. m = 1 \/ m = p
  BY <1>3, <1>5, DivisorsOfPrime
<1>7. CASE m = 1
  BY <1>7 DEF Divides
<1>8. CASE m = p
  BY <1>2, <1>5, <1>8
<1> QED BY <1>6, <1>7, <1>8

(* A prime that divides a product divides one of its numbers.              *)
LEMMA PrimeOfProduct ==
    ASSUME NEW numbers, Positive(numbers), NEW places, NEW p \in Nat, IsPrime(p),
           Divides(p, Product(numbers, places))
    PROVE  \E j \in places \cap (1..Len(numbers)) : Divides(p, numbers[j])
<1> DEFINE l == Len(numbers)
           Has(m) == \E j \in places \cap (1..m) : Divides(p, numbers[j])
<1>1. l \in Nat /\ p > 1
  BY DEF Positive, IsPrime
<1>2. PICK f : PlaceByPlace(f, numbers, places)
  BY <1>1, ProductPlaces
<1> DEFINE S == {m \in 0..l : Divides(p, f[m]) => Has(m)}
<1>3. 0 \in S
  <2>1. \A k \in Nat : 1 # p * k
    BY <1>1
  <2> QED BY <1>1, <1>2, <2>1 DEF Divides, PlaceByPlace
<1>4. ASSUME NEW m \in 1..l, m - 1 \in S, Divides(p, f[m])
      PROVE  Has(m)
  <2>1. PICK u \in Nat \ {0}, v \in Nat \ {0} : u = f[m - 1] /\ v = numbers[m]
    <3>1. m - 1 \in 0..l
      BY <1>1
    <3>2. f[m - 1] \in Nat \ {0}
      BY <1>2, <3>1, PlacesPositive
    <3> QED BY <3>2 DEF Positive
  <2>2. f[m] = IF m \in places THEN u * v ELSE u
    BY <1>2, <2>1 DEF PlaceByPlace
  <2>3. Has(m - 1) => Has(m)
    BY <1>1
  <2>4. Divides(p, u) => Has(m)
    BY <1>4, <2>1, <2>3
  <2>5. m \in places /\ Divides(p, v) => Has(m)
    BY <2>1
  <2> HIDE DEF Has
  <2> QED BY <1>4, <2>2, <2>4, <2>5, PrimeOfFactor
<1>5. 0..l \subseteq S
  <2>1. \A m \in 1..l : m - 1 \in S => m \in S
    BY <1>1, <1>4
  <2> HIDE DEF S, l
  <2> QED BY <1>1, <1>3, <2>1, UpTo
<1>6. Divides(p, f[l])
  BY <1>2 DEF PlaceByPlace
<1> QED BY <1>1, <1>5, <1>6

(* Different primes: a product of some of them tells which.                *)
DifferentPrimes(numbers) ==
    /\ Positive(numbers)
    /\ \A i \in 1..Len(numbers) : IsPrime(numbers[i])
    /\ \A i, j \in 1..Len(numbers) : numbers[i] = numbers[j] => i = j

LEMMA FactorIsPlace ==
    ASSUME NEW numbers, DifferentPrimes(numbers), NEW T \in SUBSET (1..Len(numbers)),
           NEW U \in SUBSET (1..Len(numbers)), Product(numbers, T) = Product(numbers, U)
    PROVE  T \subseteq U
<1> SUFFICES ASSUME NEW j \in T PROVE j \in U
  OBVIOUS
<1>1. Positive(numbers)
  BY DEF DifferentPrimes
<1>2. PICK u \in Nat, v \in Nat : u = Product(numbers, T \ {j}) /\ v = numbers[j]
  <2>1. Product(numbers, T \ {j}) \in Nat
    BY <1>1, ProductPositive
  <2> QED BY <1>1, <2>1 DEF Positive
<1>3. Product(numbers, T) = u * v
  <2>1. (T \ {j}) \cup {j} = T /\ j \notin T \ {j}
    OBVIOUS
  <2>2. Product(numbers, (T \ {j}) \cup {j}) = Product(numbers, T \ {j}) * numbers[j]
    BY <1>1, <2>1, OneMoreFactor
  <2> QED BY <1>2, <2>1, <2>2
<1>4. Divides(numbers[j], Product(numbers, U))
  <2>1. u * v = v * u
    OBVIOUS
  <2> QED BY <1>2, <1>3, <2>1 DEF Divides
<1>5. IsPrime(numbers[j]) /\ numbers[j] \in Nat
  BY <1>1 DEF DifferentPrimes, Positive
<1>6. PICK l \in U : Divides(numbers[j], numbers[l])
  BY <1>1, <1>4, <1>5, PrimeOfProduct
<1>7. IsPrime(numbers[l]) /\ numbers[l] \in Nat
  BY <1>1 DEF DifferentPrimes, Positive
<1>8. numbers[j] = 1 \/ numbers[j] = numbers[l]
  BY <1>5, <1>6, <1>7, DivisorsOfPrime
<1>9. numbers[j] > 1
  BY <1>5 DEF IsPrime
<1>10. j = l
  BY <1>5, <1>8, <1>9 DEF DifferentPrimes
<1> QED BY <1>10

(* Of as many places or fewer, those of the largest numbers have the       *)
(* largest product.                                                        *)
LEMMA LargestProduct ==
    ASSUME NEW numbers, Positive(numbers),
           \A i, j \in 1..Len(numbers) : i < j => numbers[i] <= numbers[j],
           NEW W \in SUBSET (1..Len(numbers)),
           \A i \in (1..Len(numbers)) \ W, j \in W : i < j,
           NEW T \in SUBSET (1..Len(numbers)), Cardinality(T) <= Cardinality(W)
    PROVE  Product(numbers, T) <= Product(numbers, W)
<1> DEFINE l == Len(numbers)
           P(V) == Product(numbers, V)
           Less(V) == Cardinality(V) <= Cardinality(W) => P(V) <= P(W)
           N == Cardinality(W)
           S == {n \in 0..N : \A V \in SUBSET (1..l) : Cardinality(W \ V) = n => Less(V)}
<1>1. l \in Nat /\ IsFiniteSet(1..l)
  BY FS_Interval DEF Positive
<1>2. \A V \in SUBSET (1..l) : IsFiniteSet(V) /\ Cardinality(V) \in Nat /\ P(V) \in Nat \ {0}
  BY <1>1, FS_Subset, FS_CardinalityType, ProductPositive
<1>3. \A V \in SUBSET (1..l) : W \ V \in SUBSET (1..l) /\ Cardinality(W \ V) <= N
  BY <1>1, <1>2, FS_Subset
<1>4. 0 \in S
  <2> SUFFICES ASSUME NEW V \in SUBSET (1..l), Cardinality(W \ V) = 0, Cardinality(V) <= N
               PROVE  P(V) <= P(W)
    BY <1>2
  <2>1. W \ V = {}
    BY <1>2, <1>3, FS_EmptySet
  <2>2. W \in SUBSET V
    BY <2>1
  <2>3. Cardinality(W) <= Cardinality(V) /\ (Cardinality(V) = Cardinality(W) => V = W)
    BY <1>2, <2>2, FS_Subset
  <2>4. V = W
    BY <1>2, <2>3
  <2> QED BY <1>2, <2>4
<1>5. ASSUME NEW n \in 1..N, n - 1 \in S, NEW V \in SUBSET (1..l), Cardinality(W \ V) = n,
             Cardinality(V) <= N
      PROVE  P(V) <= P(W)
  <2>1. PICK w \in W : w \notin V
    <3>1. W \ V # {}
      BY <1>2, <1>5, FS_EmptySet
    <3> QED BY <3>1
  <2>2. w \in 1..l /\ numbers[w] \in Nat \ {0}
    BY DEF Positive
  <2>3. ASSUME NEW R \in SUBSET (1..l), w \notin R, W \ R = W \ V, Cardinality(R \cup {w}) <= N
        PROVE  P(R) * numbers[w] <= P(W)
    <3>1. W \ (R \cup {w}) = (W \ V) \ {w} /\ w \in W \ V
      BY <2>1, <2>3
    <3>2. Cardinality(W \ (R \cup {w})) = n - 1
      BY <1>2, <1>3, <1>5, <3>1, FS_RemoveElement
    <3>3. R \cup {w} \in SUBSET (1..l)
      BY <2>2
    <3>4. Less(R \cup {w})
      BY <1>5, <3>2, <3>3
    <3>5. P(R \cup {w}) = P(R) * numbers[w]
      BY <2>2, <2>3, OneMoreFactor
    <3> QED BY <2>3, <3>4, <3>5
  <2>4. CASE V \subseteq W
    <3>1. V \cup {w} \in SUBSET W
      BY <2>4
    <3>2. Cardinality(V \cup {w}) <= N
      BY <1>2, <3>1, FS_Subset
    <3>3. P(V) * numbers[w] <= P(W)
      BY <2>1, <2>3, <3>2
    <3>4. PICK u \in Nat, v \in Nat \ {0} : u = P(V) /\ v = numbers[w]
      BY <1>2, <2>2
    <3>5. u <= u * v
      OBVIOUS
    <3>6. P(W) \in Nat
      BY <1>2
    <3> HIDE DEF P
    <3> QED BY <3>3, <3>4, <3>5, <3>6
  <2>5. CASE ~(V \subseteq W)
    <3>1. PICK t \in V : t \notin W
      BY <2>5
    <3> DEFINE R == V \ {t}
    <3>2. R \in SUBSET (1..l) /\ w \notin R /\ W \ R = W \ V /\ t \notin R /\ t \in 1..l
          /\ V = R \cup {t}
      BY <2>1, <3>1
    <3>3. Cardinality(R) = Cardinality(V) - 1 /\ Cardinality(R \cup {w}) = Cardinality(R) + 1
      BY <1>2, <3>2, FS_RemoveElement, FS_AddElement
    <3>4. Cardinality(R \cup {w}) <= N
      BY <1>2, <1>5, <3>3
    <3> HIDE DEF R
    <3>5. P(R) * numbers[w] <= P(W)
      BY <2>3, <3>2, <3>4
    <3>6. P(V) = P(R) * numbers[t]
      BY <3>2, OneMoreFactor
    <3>7. numbers[t] <= numbers[w] /\ numbers[t] \in Nat
      BY <2>2, <3>1, <3>2 DEF Positive
    <3>8. PICK u \in Nat, v \in Nat, x \in Nat, y \in Nat :
            u = P(R) /\ v = numbers[w] /\ x = numbers[t] /\ y = P(W)
      BY <1>2, <2>2, <3>2, <3>7
    <3>9. x <= v /\ u * v <= y
      BY <3>5, <3>7, <3>8
    <3>10. u * x <= u * v
      BY <3>9
    <3>11. u * x <= y
      BY <3>9, <3>10
    <3> QED BY <3>6, <3>8, <3>11
  <2> QED BY <2>4, <2>5
<1>6. N \in Nat /\ 0..N \subseteq S
  <2>1. N \in Nat
    BY <1>2
  <2>2. \A n \in 1..N : n - 1 \in S => n \in S
    BY <1>5, <2>1
  <2> HIDE DEF S, N
  <2> QED BY <1>4, <2>1, <2>2, UpTo
<1>7. Cardinality(W \ T) \in 0..N
  BY <1>2, <1>3, <1>6
<1> QED BY <1>6, <1>7

(* A factor may be reduced before it is multiplied.                        *)
LEMMA Reduced ==
    ASSUME NEW p \in Nat \ {0}, NEW a \in Nat, NEW b \in Nat
    PROVE  ((a % p) * b) % p = (a * b) % p
<1> DEFINE q == a \div p
           r == a % p
           x == r * b
           y == a * b
<1>1. q \in Nat /\ r \in Nat /\ a = p * q + r
  BY Division
<1> HIDE DEF q, r
<1>2. x \in Nat /\ y \in Nat /\ y = p * (q * b) + x
  <2>1. a * b = p * (q * b) + r * b
    BY <1>1
  <2> QED BY <1>1, <2>1
<1> HIDE DEF x, y
<1> DEFINE t == q * b + (x \div p)
<1>3. /\ x \div p \in Nat /\ x % p \in Nat /\ x % p < p /\ x = p * (x \div p) + (x % p)
  BY <1>2, Division
<1>4. t \in Nat /\ y = p * t + (x % p)
  <2>1. q * b \in Nat
    BY <1>1
  <2> HIDE DEF q
  <2>2. PICK m \in Nat, n \in Nat, k \in Nat : m = q * b /\ n = x \div p /\ k = x % p
    BY <2>1, <1>3
  <2>3. y = p * m + p * n + k
    BY <1>2, <1>3, <2>2
  <2>4. p * (m + n) = p * m + p * n
    BY <2>2
  <2> QED BY <2>1, <2>2, <2>3, <2>4
<1> HIDE DEF t
<1>5. /\ y \div p \in Nat /\ y % p \in Nat /\ y % p < p /\ y = p * (y \div p) + (y % p)
  BY <1>2, Division
<1>6. y % p = x % p
  BY <1>3, <1>4, <1>5, OneRemainder
<1> QED BY <1>6 DEF x, y, r

(* A number is its quotient and its remainder.                             *)
LEMMA DivMod ==
    ASSUME NEW p \in Nat \ {0}, NEW y \in Nat, NEW d \in 0..(p - 1)
    PROVE  (y * p + d) \div p = y /\ (y * p + d) % p = d
<1>1. PICK a \in Nat : a = y * p + d /\ a = p * y + d
  <2>1. y * p = p * y /\ y * p \in Nat
    OBVIOUS
  <2>2. y * p + d \in Nat
    BY <2>1
  <2> QED BY <2>1, <2>2
<1>2. a \div p \in Nat /\ a % p \in Nat /\ a % p < p /\ a = p * (a \div p) + (a % p)
  BY Division
<1>3. d \in Nat /\ d < p
  OBVIOUS
<1>4. a % p = d
  BY <1>1, <1>2, <1>3, OneRemainder
<1>5. PICK c \in Nat : c = a \div p
  BY <1>2
<1>6. p * c = p * y
  <2>1. PICK u \in Nat, v \in Nat : u = p * c /\ v = p * y
    OBVIOUS
  <2>2. u + d = v + d
    BY <1>1, <1>2, <1>4, <1>5, <2>1
  <2> QED BY <2>1, <2>2
<1>7. c = y
  <2>1. c < y => p * c < p * y
    OBVIOUS
  <2>2. y < c => p * y < p * c
    OBVIOUS
  <2> QED BY <1>6, <2>1, <2>2
<1> QED BY <1>1, <1>4, <1>5, <1>7

(* The difference of congruent numbers, and what p divides.                *)
LEMMA SameRemainder ==
    ASSUME NEW p \in Nat \ {0}, NEW a \in Nat, NEW b \in Nat, b <= a, a % p = b % p
    PROVE  Divides(p, a - b)
<1>2. PICK c \in Nat, r \in Nat : r = a % p /\ a = p * c + r
  BY Division
<1>3. PICK d \in Nat, s \in Nat : s = b % p /\ b = p * d + s
  BY Division
<1>4. r = s
  BY <1>2, <1>3
<1>5. d <= c
  <2> SUFFICES ASSUME c < d PROVE FALSE
    OBVIOUS
  <2>1. PICK e \in Nat : d = c + 1 + e
    <3>1. d - c - 1 \in Nat /\ d = c + 1 + (d - c - 1)
      OBVIOUS
    <3> QED BY <3>1
  <2>2. p * d = p * c + p + p * e /\ p * e >= 0
    BY <2>1
  <2> QED BY <1>2, <1>3, <1>4, <2>2
<1>6. PICK e \in Nat : c = d + e
  <2>1. c - d \in Nat /\ c = d + (c - d)
    BY <1>5
  <2> QED BY <2>1
<1>7. p * c = p * d + p * e
  BY <1>6
<1>8. a - b = p * e
  <2>1. PICK x \in Nat, y \in Nat, z \in Nat : x = p * c /\ y = p * d /\ z = p * e
    OBVIOUS
  <2>2. a = x + r /\ b = y + r /\ x = y + z
    BY <1>2, <1>3, <1>4, <1>7, <2>1
  <2> QED BY <2>1, <2>2
<1> QED BY <1>8 DEF Divides

LEMMA NoRemainder ==
    ASSUME NEW p \in Nat \ {0}, NEW a \in Nat, a % p = 0
    PROVE  Divides(p, a)
<1>2. PICK c \in Nat, r \in Nat : r = a % p /\ a = p * c + r
  BY Division
<1> QED BY <1>2 DEF Divides

-----------------------------------------------------------------------------
(* Recursion.                                                              *)

(* A function defined by recursion to smaller numbers exists.              *)
Descends(prev, l) == \A n \in 1..l : prev[n] \in 0..(n - 1)
StaysIn(X, G, l) == \A n \in 1..l : \A x \in X : G[<<n, x>>] \in X
Recurs(f, X, b, prev, G, l) ==
    /\ f \in [0..l -> X] /\ f[0] = b
    /\ \A n \in 1..l : f[n] = G[<<n, f[prev[n]]>>]

LEMMA Recursion ==
    ASSUME NEW l \in Nat, NEW X, NEW b \in X, NEW prev, Descends(prev, l), NEW G, StaysIn(X, G, l)
    PROVE  \E f : Recurs(f, X, b, prev, G, l)
<1> USE DEF Descends, StaysIn, Recurs
<1> DEFINE Is(n, f) == /\ f \in [0..n -> X] /\ f[0] = b
                       /\ \A m \in 1..n : f[m] = G[<<m, f[prev[m]]>>]
           S == {n \in Nat : \E f : Is(n, f)}
<1>1. 0 \in S
  <2> DEFINE g == [m \in 0..0 |-> b]
  <2>1. Is(0, g)
    OBVIOUS
  <2> QED BY <2>1
<1>2. ASSUME NEW n \in 1..l, n - 1 \in S
      PROVE  n \in S
  <2>1. PICK f : Is(n - 1, f)
    BY <1>2
  <2> DEFINE g == [m \in 0..n |-> IF m = n THEN G[<<n, f[prev[n]]>>] ELSE f[m]]
  <2>2. prev[n] \in 0..(n - 1) /\ f[prev[n]] \in X
    BY <2>1
  <2>3. g \in [0..n -> X] /\ g[0] = b /\ g[n] = G[<<n, f[prev[n]]>>]
    BY <2>1, <2>2
  <2>4. \A m \in 0..(n - 1) : g[m] = f[m]
    OBVIOUS
  <2> HIDE DEF g
  <2>5. ASSUME NEW m \in 1..n
        PROVE  g[m] = G[<<m, g[prev[m]]>>]
    <3>1. prev[m] \in 0..(m - 1) /\ prev[m] \in 0..(n - 1)
      OBVIOUS
    <3>2. g[prev[m]] = f[prev[m]]
      BY <2>4, <3>1
    <3>3. m # n => g[m] = f[m] /\ f[m] = G[<<m, f[prev[m]]>>]
      BY <2>1, <2>4
    <3> QED BY <2>3, <3>2, <3>3
  <2>6. Is(n, g) /\ n \in Nat
    BY <2>3, <2>5
  <2> HIDE DEF Is
  <2> QED BY <2>6
<1>3. l \in S
  <2>1. l \in 0..l
    OBVIOUS
  <2> HIDE DEF S
  <2>2. 0..l \subseteq S
    BY <1>1, <1>2, UpTo
  <2> QED BY <2>1, <2>2
<1> QED BY <1>3
=============================================================================
