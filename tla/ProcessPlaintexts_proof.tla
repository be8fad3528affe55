---------------------- MODULE ProcessPlaintexts_proof ----------------------
(***************************************************************************)
(* The theorems of ProcessPlaintexts, for every table, every list of       *)
(* plaintexts and every safe prime: what is decoded is sound, write-ins    *)
(* never run out, and what a voter selected and wrote is published.        *)
(***************************************************************************)
EXTENDS ProcessPlaintexts, Numbers_proof

USE InputsAssumption

-----------------------------------------------------------------------------
(* Lemmas about the operators.                                             *)

(* A loop that keeps the entries at some places of the table goes through  *)
(* each of them once.                                                      *)
LEMMA PlacesListed ==
    ASSUME IsTable(table), NEW S \in SUBSET DOMAIN table
    PROVE  /\ S \subseteq Nat /\ IsFiniteSet(S) /\ Cardinality(S) \in Nat
           /\ Ascending(S) \in Bijection(1..Cardinality(S), S)
           /\ \A k \in 1..Cardinality(S) : Ascending(S)[k] \in S
           /\ \A k, l \in 1..Cardinality(S) : Ascending(S)[k] = Ascending(S)[l] => k = l
           /\ \A i \in S : \E k \in 1..Cardinality(S) : Ascending(S)[k] = i
<1>1. PICK n \in Nat : n = Len(table)
  BY DEF IsTable
<1>2. DOMAIN table = 1..n
  BY <1>1 DEF IsTable
<1>3. S \subseteq Nat /\ IsFiniteSet(S)
  <2>1. IsFiniteSet(1..n)
    BY FS_Interval
  <2>2. IsFiniteSet(S)
    BY <1>2, <2>1, FS_Subset
  <2> QED BY <1>2, <2>2
<1>4. Cardinality(S) \in Nat /\ Ascending(S) \in Bijection(1..Cardinality(S), S)
  BY <1>3, AscendingLists
<1>5. PICK places : places = 1..Cardinality(S)
  OBVIOUS
<1>6. PICK listed : listed = Ascending(S)
  OBVIOUS
<1>7. listed \in Bijection(places, S)
  BY <1>4, <1>5, <1>6
<1>8. /\ listed \in [places -> S]
      /\ \A k, l \in places : listed[k] = listed[l] => k = l
      /\ \A i \in S : \E k \in places : listed[k] = i
  BY <1>7, Fun_BijectionProperties
<1>9. \A k \in places : listed[k] \in S
  BY <1>8
<1> QED BY <1>3, <1>4, <1>5, <1>6, <1>8, <1>9

(* The factors of a value are the options at the places that divide it.    *)
LEMMA FactorsListed ==
    ASSUME IsTable(table), NEW value
    PROVE  /\ Dividing(value) \in SUBSET DOMAIN table
           /\ DOMAIN Factors(value) = 1..Cardinality(Dividing(value))
           /\ Factors(value) \in Seq({table[i].enc : i \in DOMAIN table})
           /\ Len(Factors(value)) = Cardinality(Dividing(value))
           /\ \A k \in 1..Cardinality(Dividing(value)) :
                Factors(value)[k] = table[Ascending(Dividing(value))[k]].enc
<1> DEFINE S == Dividing(value)
           n == Cardinality(S)
           Encs == {table[i].enc : i \in DOMAIN table}
<1>1. S \in SUBSET DOMAIN table
  BY DEF Dividing
<1>2. n \in Nat /\ \A k \in 1..n : Ascending(S)[k] \in S
  <2> HIDE DEF S
  <2> QED BY <1>1, PlacesListed
<1>3. Kept(table, S) = [k \in 1..n |-> table[Ascending(S)[k]]]
  BY DEF Kept
<1>4. Factors(value) = [k \in 1..n |-> table[Ascending(S)[k]].enc]
  <2>1. Factors(value) = [k \in DOMAIN Kept(table, S) |-> Kept(table, S)[k].enc]
    BY DEF Factors
  <2> HIDE DEF S, n
  <2>2. DOMAIN Kept(table, S) = 1..n
    BY <1>3
  <2>3. \A k \in 1..n : Kept(table, S)[k] = table[Ascending(S)[k]]
    BY <1>3
  <2> QED BY <2>1, <2>2, <2>3
<1>5. \A k \in 1..n : table[Ascending(S)[k]].enc \in Encs
  <2>1. \A k \in 1..n : Ascending(S)[k] \in DOMAIN table
    BY <1>1, <1>2
  <2> QED BY <2>1
<1> HIDE DEF S, n, Encs
<1>6. Factors(value) \in Seq(Encs) /\ Len(Factors(value)) = n /\ DOMAIN Factors(value) = 1..n
  BY <1>2, <1>4, <1>5
<1>7. \A k \in 1..n : Factors(value)[k] = table[Ascending(S)[k]].enc
  BY <1>4
<1> QED BY <1>1, <1>6, <1>7 DEF S, n, Encs

(* The entries of a kind are places of the table.                          *)
LEMMA KindListed ==
    ASSUME NEW kind
    PROVE  OfKind(kind) \in SUBSET DOMAIN table
BY DEF OfKind

(* In a table of distinct options the dictionaries give an option's own    *)
(* entry.                                                                  *)
LEMMA OwnEntry ==
    ASSUME IsTable(table), Distinct, NEW i \in DOMAIN table
    PROVE  ActualOf(table[i].enc) = table[i].actual /\ CorrectnessOf(table[i].actual) = table[i].corr
<1>1. i <= i /\ \A k \in DOMAIN table : k \in Nat
  BY DEF IsTable
<1>2. \A k \in DOMAIN table : table[k].enc = table[i].enc => k = i
  BY DEF Distinct
<1>3. \A k \in DOMAIN table : table[k].actual = table[i].actual => k = i
  BY DEF Distinct
<1> DEFINE LastEnc(k) == /\ table[k].enc = table[i].enc
                         /\ \A l \in DOMAIN table : table[l].enc = table[i].enc => l <= k
           LastActual(k) == /\ table[k].actual = table[i].actual
                            /\ \A l \in DOMAIN table : table[l].actual = table[i].actual => l <= k
<1>4. LastEnc(i) /\ \A k \in DOMAIN table : LastEnc(k) => k = i
  BY <1>1, <1>2
<1>5. LastActual(i) /\ \A k \in DOMAIN table : LastActual(k) => k = i
  BY <1>1, <1>3
<1> HIDE DEF LastEnc, LastActual
<1>6. (CHOOSE k \in DOMAIN table : LastEnc(k)) = i
  BY <1>4
<1>7. (CHOOSE k \in DOMAIN table : LastActual(k)) = i
  BY <1>5
<1> QED BY <1>6, <1>7 DEF ActualOf, CorrectnessOf, LastEnc, LastActual

(* An option occurs among the factors of a value exactly if it divides it. *)
LEMMA FactorsTell ==
    ASSUME IsTable(table), Distinct, NEW value, NEW i \in DOMAIN table
    PROVE  table[i].enc \in ToSet(Factors(value)) <=> i \in Dividing(value)
<1> DEFINE S == Dividing(value)
           n == Cardinality(S)
<1>1. /\ S \in SUBSET DOMAIN table /\ DOMAIN Factors(value) = 1..n
      /\ \A k \in 1..n : Factors(value)[k] = table[Ascending(S)[k]].enc
  BY FactorsListed
<1> HIDE DEF S
<1>2. /\ \A k \in 1..n : Ascending(S)[k] \in S
      /\ \A l \in S : \E k \in 1..n : Ascending(S)[k] = l
  BY <1>1, PlacesListed
<1>3. ToSet(Factors(value)) = {Factors(value)[k] : k \in 1..n}
  BY <1>1 DEF ToSet
<1> HIDE DEF n
<1>4. ASSUME i \in S
      PROVE  table[i].enc \in ToSet(Factors(value))
  <2>1. PICK k \in 1..n : Ascending(S)[k] = i
    BY <1>2, <1>4
  <2> QED BY <1>1, <1>3, <2>1
<1>5. ASSUME table[i].enc \in ToSet(Factors(value))
      PROVE  i \in S
  <2>1. PICK k \in 1..n : table[i].enc = Factors(value)[k]
    BY <1>3, <1>5
  <2>2. table[i].enc = table[Ascending(S)[k]].enc /\ Ascending(S)[k] \in S
    BY <1>1, <1>2, <2>1
  <2> QED BY <1>1, <2>2 DEF Distinct
<1> QED BY <1>4, <1>5 DEF S

(* No factor occurs twice.                                                 *)
LEMMA FactorsDiffer ==
    ASSUME IsTable(table), Distinct, NEW value
    PROVE  Cardinality(ToSet(Factors(value))) = Len(Factors(value))
<1> DEFINE S == Dividing(value)
           n == Cardinality(S)
           f == Factors(value)
<1>1. /\ S \in SUBSET DOMAIN table /\ DOMAIN f = 1..n /\ Len(f) = n
      /\ \A k \in 1..n : f[k] = table[Ascending(S)[k]].enc
      /\ f \in Seq({table[i].enc : i \in DOMAIN table})
  BY FactorsListed
<1> HIDE DEF S
<1>2. /\ n \in Nat
      /\ \A k \in 1..n : Ascending(S)[k] \in DOMAIN table
      /\ \A k, l \in 1..n : Ascending(S)[k] = Ascending(S)[l] => k = l
  BY <1>1, PlacesListed
<1> HIDE DEF n, f
<1>3. \A k, l \in 1..n : f[k] = f[l] => k = l
  BY <1>1, <1>2 DEF Distinct
<1>4. ToSet(f) = {f[k] : k \in 1..n}
  BY <1>1 DEF ToSet
<1>5. PICK places : places = 1..n
  OBVIOUS
<1>6. f \in [places -> ToSet(f)]
  <2>1. \A k \in places : f[k] \in ToSet(f)
    BY <1>4, <1>5
  <2>2. DOMAIN f = places /\ f = [k \in DOMAIN f |-> f[k]]
    BY <1>1, <1>5
  <2> QED BY <2>1, <2>2
<1>7. f \in Bijection(places, ToSet(f))
  <2>1. f \in Injection(places, ToSet(f))
    BY <1>3, <1>5, <1>6 DEF Injection, IsInjective
  <2>2. f \in Surjection(places, ToSet(f))
    BY <1>4, <1>5, <1>6 DEF Surjection
  <2> QED BY <2>1, <2>2 DEF Bijection
<1>8. IsFiniteSet(places) /\ Cardinality(places) = n
  <2>1. \A m \in Nat : IsFiniteSet(1..m) /\ Cardinality(1..m) = m
    BY FS_Interval
  <2> QED BY <1>2, <1>5, <2>1
<1>9. Cardinality(ToSet(f)) = n
  BY <1>7, <1>8, FS_Bijection DEF ExistsBijection
<1> QED BY <1>1, <1>9 DEF f

(* delta leaves a place for every write-in option, and of distinct options *)
(* no more can be selected than there are.                                 *)
LEMMA PlacesSuffice ==
    ASSUME IsTable(table), Distinct, NEW T, NEW row \in Seq(T), Len(row) = Delta
    PROVE  ~NotEnoughWriteIns(Factors(row[1]), Tail(row))
<1> DEFINE S == Dividing(row[1])
           n == Cardinality(S)
           W == OfKind("WRITE_IN")
           encs == Factors(row[1])
           Selected == SelectedWriteIns(encs)
           f == [k \in Selected |-> Ascending(S)[k]]
<1>1. /\ S \in SUBSET DOMAIN table /\ DOMAIN encs = 1..n
      /\ \A k \in 1..n : encs[k] = table[Ascending(S)[k]].enc
  BY FactorsListed
<1>2. W \in SUBSET DOMAIN table
  BY KindListed
<1>3. Selected = {k \in 1..n : encs[k] \in WriteInOptions}
  BY <1>1 DEF SelectedWriteIns
<1> HIDE DEF S, encs
<1>4. IsFiniteSet(W) /\ Cardinality(W) \in Nat
  <2> HIDE DEF W
  <2> QED BY <1>2, PlacesListed
<1>5. /\ \A k \in 1..n : Ascending(S)[k] \in DOMAIN table
      /\ \A k, l \in 1..n : Ascending(S)[k] = Ascending(S)[l] => k = l
  BY <1>1, PlacesListed
<1> HIDE DEF n
<1>6. ASSUME NEW k \in Selected
      PROVE  k \in 1..n /\ Ascending(S)[k] \in W
  <2>1. k \in 1..n /\ encs[k] \in WriteInOptions
    BY <1>3
  <2>2. PICK i \in W : encs[k] = table[i].enc
    BY <2>1 DEF WriteInOptions
  <2>3. Ascending(S)[k] = i
    BY <1>1, <1>2, <1>5, <2>1, <2>2 DEF Distinct
  <2> QED BY <2>1, <2>2, <2>3
<1> HIDE DEF Selected, W
<1>7. f \in [Selected -> W] /\ \A k, l \in Selected : f[k] = f[l] => k = l
  BY <1>5, <1>6
<1>8. f \in Injection(Selected, W)
  <2> HIDE DEF f
  <2> QED BY <1>7 DEF Injection, IsInjective
<1>9. IsFiniteSet(Selected) /\ Cardinality(Selected) <= Cardinality(W)
  <2> HIDE DEF f
  <2> QED BY <1>4, <1>8, FS_Injection DEF ExistsInjection
<1>10. Cardinality(Selected) \in Nat
  BY <1>9, FS_CardinalityType
<1>11. Len(Tail(row)) = Cardinality(W)
  <2>1. Len(row) = Cardinality(W) + 1
    BY DEF Delta, W
  <2>2. row # <<>> /\ Len(Tail(row)) = Len(row) - 1
    BY <1>4, <2>1
  <2> QED BY <1>4, <2>1, <2>2
<1>12. ~(Cardinality(Selected) > Len(Tail(row)))
  BY <1>4, <1>9, <1>10, <1>11
<1> QED BY <1>12 DEF NotEnoughWriteIns, Selected, encs

(* Two lists that the code compares in the order of the table: if they are *)
(* equal, the selected options answer what the blanks answer, as often.    *)
LEMMA AnswersCounted ==
    ASSUME IsTable(table), Distinct, NEW value, NEW corr,
           CorrectnessInformation(ActualOptions(Factors(value))) = BlankCorrectness
    PROVE  Answers(Factors(value), corr) = Blanks(corr)
<1> DEFINE S == Dividing(value)
           n == Cardinality(S)
           B == OfKind("BLANK")
           m == Cardinality(B)
           encs == Factors(value)
<1>1. /\ S \in SUBSET DOMAIN table /\ DOMAIN encs = 1..n
      /\ \A k \in 1..n : encs[k] = table[Ascending(S)[k]].enc
  BY FactorsListed
<1>2. B \in SUBSET DOMAIN table
  BY KindListed
<1>3. Answers(encs, corr) = Cardinality({i \in S : table[i].corr = corr})
  <2>1. {i \in DOMAIN table : table[i].enc \in ToSet(encs) /\ table[i].corr = corr}
          = {i \in S : table[i].corr = corr}
    <3> HIDE DEF S, encs
    <3>1. \A i \in DOMAIN table : table[i].enc \in ToSet(encs) <=> i \in S
      BY FactorsTell DEF S, encs
    <3> QED BY <1>1, <3>1
  <2> QED BY <2>1, Zenon DEF Answers
<1>4. Blanks(corr) = Cardinality({i \in B : table[i].corr = corr})
  <2>1. {i \in DOMAIN table : table[i].kind = "BLANK" /\ table[i].corr = corr}
          = {i \in B : table[i].corr = corr}
    BY DEF OfKind
  <2> QED BY <2>1, Zenon DEF Blanks
<1> DEFINE blanks == Kept(table, B)
           actuals == ActualOptions(encs)
<1>5. blanks = [k \in 1..m |-> table[Ascending(B)[k]]]
  BY DEF Kept
<1> HIDE DEF S, B, encs
<1>6. /\ n \in Nat
      /\ Ascending(S) \in Bijection(1..n, S)
      /\ \A k \in 1..n : Ascending(S)[k] \in S
  BY <1>1, PlacesListed
<1>7. /\ m \in Nat
      /\ Ascending(B) \in Bijection(1..m, B)
      /\ \A k \in 1..m : Ascending(B)[k] \in B
  BY <1>2, PlacesListed
<1> HIDE DEF n, m
<1>8. DOMAIN actuals = 1..n /\ \A k \in 1..n : actuals[k] = table[Ascending(S)[k]].actual
  <2>1. actuals = [k \in 1..n |-> ActualOf(encs[k])]
    BY <1>1 DEF ActualOptions
  <2>2. \A k \in 1..n : ActualOf(encs[k]) = table[Ascending(S)[k]].actual
    BY <1>1, <1>6, OwnEntry
  <2> QED BY <2>1, <2>2
<1> HIDE DEF actuals
<1>9. CorrectnessInformation(actuals) = [k \in 1..n |-> table[Ascending(S)[k]].corr]
  <2>1. CorrectnessInformation(actuals) = [k \in 1..n |-> CorrectnessOf(actuals[k])]
    BY <1>8 DEF CorrectnessInformation
  <2>2. \A k \in 1..n : CorrectnessOf(actuals[k]) = table[Ascending(S)[k]].corr
    BY <1>1, <1>6, <1>8, OwnEntry
  <2> QED BY <2>1, <2>2
<1>10. BlankCorrectness = [k \in 1..m |-> table[Ascending(B)[k]].corr]
  <2>1. BlankCorrectness = [k \in DOMAIN blanks |-> blanks[k].corr]
    BY DEF BlankCorrectness, B
  <2>2. DOMAIN blanks = 1..m /\ \A k \in 1..m : blanks[k] = table[Ascending(B)[k]]
    BY <1>5
  <2> HIDE DEF blanks
  <2> QED BY <2>1, <2>2
<1>11. [k \in 1..n |-> table[Ascending(S)[k]].corr] = [k \in 1..m |-> table[Ascending(B)[k]].corr]
  BY <1>9, <1>10 DEF actuals, encs
<1>12. PICK infos : infos = [k \in 1..n |-> table[Ascending(S)[k]].corr]
  OBVIOUS
<1>13. PICK places : places = 1..n
  OBVIOUS
<1>14. 1..m = places
  <2>1. DOMAIN infos = 1..n
    BY <1>12
  <2>2. DOMAIN infos = 1..m
    BY <1>11, <1>12
  <2> QED BY <1>13, <2>1, <2>2
<1>15. \A k \in places : /\ infos[k] = table[Ascending(S)[k]].corr
                         /\ infos[k] = table[Ascending(B)[k]].corr
  BY <1>11, <1>12, <1>13, <1>14
<1>16. IsFiniteSet(places)
  <2>1. \A l \in Nat : IsFiniteSet(1..l)
    BY FS_Interval
  <2> QED BY <1>6, <1>13, <2>1
<1> DEFINE Answering == {k \in places : infos[k] = corr}
           InS == {i \in S : table[i].corr = corr}
           InB == {i \in B : table[i].corr = corr}
<1>17. Cardinality(Answering) = Cardinality(InS)
  <2>1. Answering \subseteq places /\ InS \subseteq S
    OBVIOUS
  <2>2. \A k \in places : k \in Answering <=> Ascending(S)[k] \in InS
    BY <1>6, <1>13, <1>15
  <2>3. Ascending(S) \in Bijection(places, S)
    BY <1>6, <1>13
  <2> HIDE DEF Answering, InS
  <2> QED BY <1>16, <2>1, <2>2, <2>3, SameCount
<1>18. Cardinality(Answering) = Cardinality(InB)
  <2>1. Answering \subseteq places /\ InB \subseteq B
    OBVIOUS
  <2>2. \A k \in places : k \in Answering <=> Ascending(B)[k] \in InB
    BY <1>7, <1>14, <1>15
  <2>3. Ascending(B) \in Bijection(places, B)
    BY <1>7, <1>14
  <2> HIDE DEF Answering, InB
  <2> QED BY <1>16, <2>1, <2>2, <2>3, SameCount
<1> QED BY <1>3, <1>4, <1>17, <1>18 DEF encs

-----------------------------------------------------------------------------
(* The loop over the plaintexts.                                           *)

(* The plaintexts the loop has passed that are no padding.                 *)
CastPlaces == {k \in 1..(next - 1) : rows[k] # Ones}

Actuals == {ActualOf(table[i].enc) : i \in DOMAIN table}
Encs == {table[i].enc : i \in DOMAIN table}

PlaintextTypes ==
    /\ IsTable(table) /\ rows \in Seq(Seq(1..(P - 1)))
    /\ next \in 1..(Len(rows) + 1)
    /\ votes \in Seq(Seq(Encs)) /\ decoded \in Seq(Seq(Actuals))

(* A vote and its decoding are those of a plaintext that the loop passed.  *)
StandsFor(row, vote, actuals) ==
    /\ vote = Factors(row[1]) /\ ProductOf(vote) = row[1]
    /\ actuals = ActualOptions(vote) /\ CorrectnessInformation(actuals) = BlankCorrectness

(* The inductive invariant: each vote stands for the plaintext it comes    *)
(* from, in the order of the plaintexts.                                   *)
OneVoteEach ==
    /\ Len(votes) = Cardinality(CastPlaces) /\ Len(decoded) = Cardinality(CastPlaces)
    /\ \A n \in 1..Cardinality(CastPlaces) : \A row, vote, actuals :
         row = rows[Ascending(CastPlaces)[n]] /\ vote = votes[n] /\ actuals = decoded[n]
           => StandsFor(row, vote, actuals)

PlaintextInv == PlaintextTypes /\ OneVoteEach /\ EnoughWriteIns

(* The plaintexts passed are finitely many numbers before next.            *)
LEMMA PassedBefore ==
    ASSUME PlaintextTypes
    PROVE  /\ CastPlaces \subseteq Nat /\ IsFiniteSet(CastPlaces) /\ Cardinality(CastPlaces) \in Nat
           /\ \A k \in CastPlaces : k < next /\ k \in 1..Len(rows)
           /\ \A k \in 1..Cardinality(CastPlaces) : Ascending(CastPlaces)[k] \in CastPlaces
<1>1. PICK n \in Nat : n = next - 1
  BY DEF PlaintextTypes
<1>2. CastPlaces \subseteq 1..n
  BY <1>1 DEF CastPlaces
<1>3. IsFiniteSet(CastPlaces) /\ CastPlaces \subseteq Nat
  <2>1. IsFiniteSet(1..n)
    BY FS_Interval
  <2>2. IsFiniteSet(CastPlaces)
    BY <1>2, <2>1, FS_Subset
  <2> QED BY <1>2, <2>2
<1>4. \A k \in CastPlaces : k < next /\ k \in 1..Len(rows)
  BY <1>1, <1>2 DEF PlaintextTypes
<1>5. Cardinality(CastPlaces) \in Nat /\ Ascending(CastPlaces) \in Bijection(1..Cardinality(CastPlaces), CastPlaces)
  BY <1>3, AscendingLists
<1>6. PICK places : places = 1..Cardinality(CastPlaces)
  OBVIOUS
<1>7. Ascending(CastPlaces) \in Bijection(places, CastPlaces)
  BY <1>5, <1>6
<1>8. Ascending(CastPlaces) \in [places -> CastPlaces]
  BY <1>7, Fun_BijectionProperties
<1> QED BY <1>3, <1>4, <1>5, <1>6, <1>8

(* A vote is a sequence of options of the table, and so is its decoding.   *)
LEMMA DecodedTyped ==
    ASSUME IsTable(table), NEW value
    PROVE  /\ Factors(value) \in Seq(Encs)
           /\ ActualOptions(Factors(value)) \in Seq(Actuals)
<1> DEFINE n == Cardinality(Dividing(value))
           encs == Factors(value)
<1>1. /\ encs \in Seq(Encs) /\ DOMAIN encs = 1..n /\ Len(encs) = n
      /\ Dividing(value) \in SUBSET DOMAIN table
  BY FactorsListed DEF Encs
<1>2. n \in Nat
  BY <1>1, PlacesListed
<1> HIDE DEF encs, n
<1>3. \A k \in 1..n : ActualOf(encs[k]) \in Actuals
  <2>1. \A k \in 1..n : encs[k] \in Encs
    BY <1>1
  <2> QED BY <2>1 DEF Encs, Actuals
<1>4. ActualOptions(encs) = [k \in 1..n |-> ActualOf(encs[k])]
  BY <1>1 DEF ActualOptions
<1>5. ActualOptions(encs) \in Seq(Actuals)
  BY <1>2, <1>3, <1>4
<1> QED BY <1>1, <1>5 DEF encs

LEMMA PassedAfter ==
    ASSUME PlaintextTypes, next <= Len(rows), next' = next + 1, UNCHANGED <<table, rows>>
    PROVE  /\ rows[next] = Ones => CastPlaces' = CastPlaces
           /\ rows[next] # Ones => CastPlaces' = CastPlaces \cup {next}
<1>1. Ones' = Ones
  BY DEF Ones, Delta, OfKind
<1>2. CastPlaces' = {k \in 1..next : rows[k] # Ones}
  BY <1>1 DEF CastPlaces, PlaintextTypes
<1>3. \A k \in 1..next : k = next \/ k \in 1..(next - 1)
  BY DEF PlaintextTypes
<1>4. \A k \in 1..(next - 1) : k \in 1..next /\ k # next
  BY DEF PlaintextTypes
<1>5. next \in 1..next
  BY DEF PlaintextTypes
<1> QED BY <1>2, <1>3, <1>4, <1>5 DEF CastPlaces

(* With the table unchanged, what is said of it is.                        *)
LEMMA SameTable ==
    ASSUME UNCHANGED table
    PROVE  /\ IsTable(table)' = IsTable(table)
           /\ Encs' = Encs /\ Actuals' = Actuals
           /\ Distinct' = Distinct
           /\ \A row, vote, actuals : StandsFor(row, vote, actuals)' = StandsFor(row, vote, actuals)
<1>1. IsTable(table)' = IsTable(table)
  BY DEF IsTable
<1>2. Distinct' = Distinct
  BY DEF Distinct
<1>3. Encs' = Encs
  BY DEF Encs
<1>4. Actuals' = Actuals
  BY DEF Actuals, ActualOf
<1>5. \A row : Factors(row[1])' = Factors(row[1])
  BY Zenon DEF Factors, Dividing
<1>6. \A enc : ActualOf(enc)' = ActualOf(enc)
  BY DEF ActualOf
<1>7. \A actual : CorrectnessOf(actual)' = CorrectnessOf(actual)
  BY DEF CorrectnessOf
<1>8. \A vote : ActualOptions(vote)' = ActualOptions(vote)
  BY <1>6 DEF ActualOptions
<1>9. \A actuals : CorrectnessInformation(actuals)' = CorrectnessInformation(actuals)
  BY <1>7 DEF CorrectnessInformation
<1>10. BlankCorrectness' = BlankCorrectness
  BY Zenon DEF BlankCorrectness, OfKind
<1>11. \A row, vote, actuals : StandsFor(row, vote, actuals)' = StandsFor(row, vote, actuals)
  BY <1>5, <1>8, <1>9, <1>10 DEF StandsFor
<1> QED BY <1>1, <1>2, <1>3, <1>4, <1>11

LEMMA InitOfInv == Init => PlaintextInv
<1> SUFFICES ASSUME Init PROVE PlaintextInv
  OBVIOUS
<1>1. PlaintextTypes
  <2>1. PICK input \in Inputs : table = input.table /\ rows = input.rows
    BY DEF Init
  <2>2. IsTable(table) /\ rows \in Seq(Seq(1..(P - 1)))
    BY <2>1
  <2>3. next \in 1..(Len(rows) + 1)
    BY <2>2 DEF Init
  <2> QED BY <2>2, <2>3 DEF Init, PlaintextTypes
<1>2. OneVoteEach
  <2>1. CastPlaces = {}
    BY DEF CastPlaces, Init
  <2>2. Cardinality(CastPlaces) = 0
    BY <2>1, FS_EmptySet
  <2> QED BY <2>2 DEF OneVoteEach, Init
<1>3. EnoughWriteIns
  BY DEF EnoughWriteIns, Init
<1> QED BY <1>1, <1>2, <1>3 DEF PlaintextInv

(* A step that leaves the lists alone keeps what is said of them.          *)
LEMMA SameLists ==
    ASSUME PlaintextInv, UNCHANGED <<table, rows, next, votes, decoded>>
    PROVE  PlaintextTypes' /\ OneVoteEach'
<1>1. PlaintextTypes'
  BY SameTable DEF PlaintextInv, PlaintextTypes
<1>2. OneVoteEach'
  <2>1. CastPlaces' = CastPlaces
    BY Zenon DEF CastPlaces, Ones, Delta, OfKind
  <2>2. /\ Cardinality(CastPlaces)' = Cardinality(CastPlaces)
        /\ Ascending(CastPlaces)' = Ascending(CastPlaces)
    BY <2>1
  <2>3. OneVoteEach
    BY DEF PlaintextInv
  <2> QED BY <2>2, <2>3, SameTable DEF OneVoteEach
<1> QED BY <1>1, <1>2

LEMMA RaiseKeepsInv ==
    ASSUME PlaintextInv, NEW error, Raise(error), Distinct => error # "not enough write-ins"
    PROVE  PlaintextInv'
<1>1. UNCHANGED <<table, rows, next, votes, decoded>> /\ status' = error
  BY DEF Raise
<1>2. EnoughWriteIns'
  BY <1>1, SameTable DEF EnoughWriteIns
<1> QED BY <1>1, <1>2, SameLists DEF PlaintextInv

LEMMA SkipKeepsInv ==
    ASSUME PlaintextInv, SkipPadding
    PROVE  PlaintextInv'
<1>1. /\ UNCHANGED <<table, rows, votes, decoded, status>>
      /\ next' = next + 1 /\ next <= Len(rows) /\ rows[next] = Ones
  BY DEF SkipPadding, Looping, Row, IsPadding
<1>2. PlaintextTypes'
  BY <1>1, SameTable DEF PlaintextInv, PlaintextTypes
<1>3. OneVoteEach'
  <2>1. CastPlaces' = CastPlaces
    BY <1>1, PassedAfter DEF PlaintextInv
  <2>2. /\ Cardinality(CastPlaces)' = Cardinality(CastPlaces)
        /\ Ascending(CastPlaces)' = Ascending(CastPlaces)
    BY <2>1
  <2>3. OneVoteEach
    BY DEF PlaintextInv
  <2> QED BY <1>1, <2>2, <2>3, SameTable DEF OneVoteEach
<1>4. EnoughWriteIns'
  BY <1>1, SameTable DEF PlaintextInv, EnoughWriteIns
<1> QED BY <1>2, <1>3, <1>4 DEF PlaintextInv

LEMMA DecodeKeepsInv ==
    ASSUME PlaintextInv, DecodeVote
    PROVE  PlaintextInv'
<1> DEFINE c == Cardinality(CastPlaces)
           encs == Factors(Row[1])
           list == ActualOptions(encs)
<1>1. /\ UNCHANGED <<table, rows, status>>
      /\ next' = next + 1 /\ next <= Len(rows)
      /\ Problem(Row) = "none" /\ ~(Len(Row) = Delta /\ IsPadding(Row))
      /\ votes' = Append(votes, encs) /\ decoded' = Append(decoded, list)
  BY DEF DecodeVote, Looping
<1>2. Row # Ones
  BY <1>1 DEF Problem, IsPadding
<1>3. encs \in Seq(Encs) /\ list \in Seq(Actuals)
  BY DecodedTyped DEF PlaintextInv, PlaintextTypes
<1> HIDE DEF encs, list
<1>4. PlaintextTypes'
  BY <1>1, <1>3, SameTable DEF PlaintextInv, PlaintextTypes
<1>5. CastPlaces' = CastPlaces \cup {next}
  BY <1>1, <1>2, PassedAfter DEF PlaintextInv, Row
<1>6. /\ CastPlaces \subseteq Nat /\ IsFiniteSet(CastPlaces) /\ c \in Nat
      /\ \A k \in CastPlaces : k < next
  BY PassedBefore DEF PlaintextInv
<1>7. /\ Cardinality(CastPlaces') = c + 1
      /\ \A i \in 1..c : Ascending(CastPlaces')[i] = Ascending(CastPlaces)[i]
      /\ Ascending(CastPlaces')[c + 1] = next
  <2>1. next \in Nat
    BY DEF PlaintextInv, PlaintextTypes
  <2> QED BY <1>5, <1>6, <2>1, AscendingAppends
<1>8. /\ Len(votes) = c /\ Len(decoded) = c
      /\ votes \in Seq(Seq(Encs)) /\ decoded \in Seq(Seq(Actuals))
  BY DEF PlaintextInv, PlaintextTypes, OneVoteEach
<1>9. /\ Len(votes') = c + 1 /\ Len(decoded') = c + 1
      /\ votes'[c + 1] = encs /\ decoded'[c + 1] = list
      /\ \A n \in 1..c : votes'[n] = votes[n] /\ decoded'[n] = decoded[n]
  <2> HIDE DEF c
  <2> QED BY <1>1, <1>3, <1>6, <1>8
<1>10. \A n \in 1..c : \A row, vote, actuals :
          row = rows[Ascending(CastPlaces)[n]] /\ vote = votes[n] /\ actuals = decoded[n]
            => StandsFor(row, vote, actuals)
  BY DEF PlaintextInv, OneVoteEach
<1> HIDE DEF c
<1>11. ASSUME NEW n \in 1..(c + 1), NEW row, NEW vote, NEW actuals,
              row = rows[Ascending(CastPlaces')[n]], vote = votes'[n], actuals = decoded'[n]
       PROVE  StandsFor(row, vote, actuals)'
  <2>1. CASE n = c + 1
    <3>1. row = Row /\ vote = Factors(row[1]) /\ actuals = ActualOptions(vote)
      BY <1>1, <1>7, <1>9, <1>11, <2>1 DEF Row, encs, list
    <3>2. StandsFor(row, vote, actuals)
      BY <1>1, <3>1 DEF StandsFor, Problem, Factorizes
    <3> QED BY <1>1, <3>2, SameTable
  <2>2. CASE n \in 1..c
    <3>1. StandsFor(row, vote, actuals)
      BY <1>7, <1>9, <1>10, <1>11, <2>2
    <3> QED BY <1>1, <3>1, SameTable
  <2> QED BY <1>6, <2>1, <2>2
<1>12. OneVoteEach'
  <2>1. Cardinality(CastPlaces)' = c + 1 /\ Ascending(CastPlaces)' = Ascending(CastPlaces')
    BY <1>7
  <2> QED BY <1>1, <1>9, <1>11, <2>1 DEF OneVoteEach
<1>13. EnoughWriteIns'
  BY <1>1, SameTable DEF PlaintextInv, EnoughWriteIns
<1> QED BY <1>4, <1>12, <1>13 DEF PlaintextInv

LEMMA StepKeepsInv == PlaintextInv /\ [Next]_vars => PlaintextInv'
<1> SUFFICES ASSUME PlaintextInv, [Next]_vars PROVE PlaintextInv'
  OBVIOUS
<1>1. CASE Refuse
  BY <1>1, RaiseKeepsInv DEF Refuse
<1>2. CASE RejectVote
  <2>1. Row \in Seq(1..(P - 1)) /\ IsTable(table)
    BY <1>2 DEF PlaintextInv, PlaintextTypes, RejectVote, Looping, Row
  <2>2. ASSUME Distinct
        PROVE  Problem(Row) # "not enough write-ins"
    <3>1. Len(Row) = Delta => ~NotEnoughWriteIns(Factors(Row[1]), Tail(Row))
      BY <2>1, <2>2, PlacesSuffice
    <3> QED BY <3>1 DEF Problem
  <2>3. Raise(Problem(Row))
    BY <1>2 DEF RejectVote
  <2> QED BY <2>2, <2>3, RaiseKeepsInv
<1>3. CASE SkipPadding
  BY <1>3, SkipKeepsInv
<1>4. CASE DecodeVote
  BY <1>4, DecodeKeepsInv
<1>5. CASE Return \/ UNCHANGED vars
  <2>1. UNCHANGED <<table, rows, next, votes, decoded>> /\ (status' = status \/ status' = "returned")
    BY <1>5 DEF Return, vars
  <2>2. EnoughWriteIns'
    BY <2>1, SameTable DEF PlaintextInv, EnoughWriteIns
  <2> QED BY <2>1, <2>2, SameLists DEF PlaintextInv
<1> QED BY <1>1, <1>2, <1>3, <1>4, <1>5 DEF Next

(* What the loop has decoded is, vote by vote, what it read (PlaintextInv):*)
(* the factors of the plaintexts that are no padding, in their order.      *)
THEOREM PlaintextInvariant == Spec => []PlaintextInv
<1>1. Init => PlaintextInv
  BY InitOfInv
<1>2. PlaintextInv /\ [Next]_vars => PlaintextInv'
  BY StepKeepsInv
<1> QED BY <1>1, <1>2, PTL DEF Spec

(* With distinct options the run never ends for want of encoded write-ins  *)
(* (EnoughWriteIns): delta leaves one place for each write-in option.      *)
THEOREM WriteInsSuffice == Spec => []EnoughWriteIns
<1>1. PlaintextInv => EnoughWriteIns
  BY DEF PlaintextInv
<1> QED BY <1>1, PlaintextInvariant, PTL

LEMMA SoundFromInv == PlaintextInv => DecodedSound
<1> SUFFICES ASSUME PlaintextInv, Distinct
             PROVE  /\ Len(votes) = Len(CastRows)
                    /\ \A n \in DOMAIN votes :
                         /\ ProductOf(votes[n]) = CastRows[n][1]
                         /\ Cardinality(ToSet(votes[n])) = Len(votes[n])
                         /\ \A i \in DOMAIN table :
                              Answers(votes[n], table[i].corr) = Blanks(table[i].corr)
                         /\ \A k \in DOMAIN votes[n] :
                              \E i \in DOMAIN table :
                                table[i].enc = votes[n][k] /\ table[i].actual = decoded[n][k]
  BY DEF DecodedSound
<1> DEFINE c == Cardinality(CastPlaces)
<1>1. /\ IsTable(table) /\ c \in Nat
      /\ votes \in Seq(Seq(Encs)) /\ Len(votes) = c
  BY PassedBefore DEF PlaintextInv, PlaintextTypes, OneVoteEach
<1>2. CastRows = [n \in 1..c |-> rows[Ascending(CastPlaces)[n]]]
  BY DEF CastRows, CastPlaces, Kept
<1>3. \A n \in 1..c : \A row, vote, actuals :
        row = rows[Ascending(CastPlaces)[n]] /\ vote = votes[n] /\ actuals = decoded[n]
          => StandsFor(row, vote, actuals)
  BY DEF PlaintextInv, OneVoteEach
<1> HIDE DEF c
<1>4. Len(CastRows) = c /\ DOMAIN votes = 1..c
  BY <1>1, <1>2
<1>5. ASSUME NEW n \in 1..c
      PROVE  /\ ProductOf(votes[n]) = CastRows[n][1]
             /\ Cardinality(ToSet(votes[n])) = Len(votes[n])
             /\ \A i \in DOMAIN table : Answers(votes[n], table[i].corr) = Blanks(table[i].corr)
             /\ \A k \in DOMAIN votes[n] :
                  \E i \in DOMAIN table :
                    table[i].enc = votes[n][k] /\ table[i].actual = decoded[n][k]
  <2>1. PICK row : row = CastRows[n]
    OBVIOUS
  <2>2. PICK vote : vote = votes[n]
    OBVIOUS
  <2>3. PICK actuals : actuals = decoded[n]
    OBVIOUS
  <2>4. StandsFor(row, vote, actuals)
    BY <1>2, <1>3, <2>1, <2>2, <2>3
  <2>5. /\ vote = Factors(row[1]) /\ ProductOf(vote) = row[1]
        /\ actuals = ActualOptions(vote)
        /\ CorrectnessInformation(ActualOptions(Factors(row[1]))) = BlankCorrectness
    BY <2>4 DEF StandsFor
  <2>6. Cardinality(ToSet(vote)) = Len(vote)
    BY <1>1, <2>5, FactorsDiffer
  <2>7. \A corr : Answers(vote, corr) = Blanks(corr)
    BY <1>1, <2>5, AnswersCounted
  <2>8. ASSUME NEW k \in DOMAIN vote
        PROVE  \E i \in DOMAIN table : table[i].enc = vote[k] /\ table[i].actual = actuals[k]
    <3>1. vote \in Seq({table[i].enc : i \in DOMAIN table})
      BY <1>1, <2>5, FactorsListed
    <3>2. PICK i \in DOMAIN table : table[i].enc = vote[k]
      BY <3>1
    <3>3. actuals[k] = ActualOf(vote[k])
      BY <2>5 DEF ActualOptions
    <3> QED BY <1>1, <3>2, <3>3, OwnEntry
  <2> QED BY <2>1, <2>2, <2>3, <2>5, <2>6, <2>7, <2>8
<1> QED BY <1>1, <1>4, <1>5

(* Soundness of a decoded vote (DecodedSound): with distinct options, the  *)
(* n-th vote's options are different entries of the table whose product is *)
(* the n-th plaintext that is no padding, they answer every question as    *)
(* often as it has blanks, and their texts are the decoded ones.           *)
THEOREM VotesSound == Spec => []DecodedSound
BY PlaintextInvariant, SoundFromInv, PTL

-----------------------------------------------------------------------------
(* The write-in codec: modulo a safe prime a word is found again.          *)

HIDE InputsAssumption
USE GroupAssumption, CodecAssumption

(* Powers modulo P, factor after factor.                                   *)
LEMMA PowSteps ==
    ASSUME NEW v \in Nat, NEW e \in Nat
    PROVE  \E f \in [0..e -> Nat] :
             f[0] = 1 /\ PowMod(v, e) = f[e] /\ \A n \in 1..e : f[n] = (f[n - 1] * v) % P
<1> DEFINE Is(h) == h = [n \in 0..e |-> IF n = 0 THEN 1 ELSE (h[n - 1] * v) % P]
           G == [a \in (1..e) \X Nat |-> (a[2] * v) % P]
           prev == [n \in 1..e |-> n - 1]
<1>1. \A n \in 1..e, x \in Nat : G[<<n, x>>] = (x * v) % P /\ G[<<n, x>>] \in Nat
  <2> SUFFICES ASSUME NEW n \in 1..e, NEW x \in Nat
               PROVE  G[<<n, x>>] = (x * v) % P /\ G[<<n, x>>] \in Nat
    OBVIOUS
  <2>1. G[<<n, x>>] = (x * v) % P
    OBVIOUS
  <2>2. \A y \in Nat : y % P \in Nat
    OBVIOUS
  <2>3. x * v \in Nat
    OBVIOUS
  <2> HIDE DEF G
  <2> QED BY <2>1, <2>2, <2>3
<1>2. \A n \in 1..e : prev[n] = n - 1 /\ prev[n] \in 0..(n - 1)
  OBVIOUS
<1> HIDE DEF G, prev
<1>3. PICK h : Recurs(h, Nat, 1, prev, G, e)
  <2>1. Descends(prev, e)
    BY <1>2 DEF Descends
  <2>2. StaysIn(Nat, G, e)
    BY <1>1 DEF StaysIn
  <2> QED BY <2>1, <2>2, Recursion
<1>4. \A n \in 1..e : h[n] = (h[n - 1] * v) % P
  <2> TAKE n \in 1..e
  <2>1. prev[n] = n - 1 /\ h[n - 1] \in Nat
    BY <1>2, <1>3 DEF Recurs
  <2>2. PICK x \in Nat : x = h[n - 1]
    BY <2>1
  <2>3. h[n] = G[<<n, x>>]
    BY <1>3, <2>1, <2>2 DEF Recurs
  <2>4. G[<<n, x>>] = (x * v) % P
    BY <1>1
  <2> QED BY <2>2, <2>3, <2>4
<1>5. Is(h)
  <2>1. h = [n \in 0..e |-> h[n]]
    BY <1>3 DEF Recurs
  <2>2. \A n \in 0..e : h[n] = IF n = 0 THEN 1 ELSE (h[n - 1] * v) % P
    BY <1>3, <1>4 DEF Recurs
  <2> QED BY <2>1, <2>2
<1> DEFINE f == CHOOSE g : Is(g)
<1>6. Is(f)
  <2> HIDE DEF Is
  <2> QED BY <1>5
<1>7. PowMod(v, e) = f[e]
  BY DEF PowMod
<1> HIDE DEF f
<1>8. /\ DOMAIN f = 0..e /\ f[0] = 1
      /\ \A n \in 1..e : f[n] = (f[n - 1] * v) % P
  BY <1>6
<1>9. \A n \in 0..e : f[n] = h[n]
  <2> DEFINE S == {n \in 0..e : f[n] = h[n]}
  <2>1. 0 \in S
    BY <1>3, <1>8 DEF Recurs
  <2>2. \A n \in 1..e : n - 1 \in S => n \in S
    BY <1>4, <1>8
  <2> HIDE DEF S
  <2>3. 0..e \subseteq S
    BY <2>1, <2>2, UpTo
  <2> QED BY <2>3 DEF S
<1>10. f \in [0..e -> Nat]
  <2>1. f = [n \in 0..e |-> f[n]]
    BY <1>6
  <2> QED BY <1>3, <1>9, <2>1 DEF Recurs
<1> QED BY <1>7, <1>8, <1>10

LEMMA PowNext ==
    ASSUME NEW v \in Nat, NEW e \in Nat
    PROVE  /\ PowMod(v, 0) = 1
           /\ PowMod(v, e) \in Nat
           /\ PowMod(v, e + 1) = (PowMod(v, e) * v) % P
<1>1. PICK f \in [0..e -> Nat] :
        f[0] = 1 /\ PowMod(v, e) = f[e] /\ \A n \in 1..e : f[n] = (f[n - 1] * v) % P
  BY PowSteps
<1>2. PICK g \in [0..(e + 1) -> Nat] :
        /\ g[0] = 1 /\ PowMod(v, e + 1) = g[e + 1]
        /\ \A n \in 1..(e + 1) : g[n] = (g[n - 1] * v) % P
  <2>1. e + 1 \in Nat
    OBVIOUS
  <2> QED BY <2>1, PowSteps
<1>3. f[e] = g[e]
  <2> DEFINE S == {n \in 0..e : f[n] = g[n]}
  <2>1. 0 \in S
    BY <1>1, <1>2
  <2>2. \A n \in 1..e : n - 1 \in S => n \in S
    BY <1>1, <1>2
  <2> HIDE DEF S
  <2>3. 0..e \subseteq S
    BY <2>1, <2>2, UpTo
  <2> QED BY <2>3 DEF S
<1>4. g[e + 1] = (g[e] * v) % P
  BY <1>2
<1>5. PowMod(v, 0) = 1
  <2>1. 0 \in Nat
    OBVIOUS
  <2>2. PICK h \in [0..0 -> Nat] : h[0] = 1 /\ PowMod(v, 0) = h[0]
    BY <2>1, PowSteps
  <2> QED BY <2>2
<1> QED BY <1>1, <1>2, <1>3, <1>4, <1>5

(* Congruent numbers.                                                      *)
LEMMA Remainder ==
    ASSUME NEW a \in Nat
    PROVE  a % P \in Nat /\ a % P < P /\ (a < P => a % P = a)
OBVIOUS

LEMMA ReducedTimes ==
    ASSUME NEW a \in Nat, NEW b \in Nat
    PROVE  ((a % P) * b) % P = (a * b) % P /\ (a * (b % P)) % P = (a * b) % P
<1>1. P \in Nat \ {0}
  OBVIOUS
<1>2. ((a % P) * b) % P = (a * b) % P /\ ((b % P) * a) % P = (b * a) % P
  BY <1>1, Reduced
<1>3. PICK c \in Nat : c = b % P
  BY Remainder
<1>4. c * a = a * c /\ b * a = a * b
  OBVIOUS
<1> QED BY <1>2, <1>3, <1>4

(* Powers of a product of exponents and of a sum.                          *)
LEMMA PowSum ==
    ASSUME NEW v \in Nat, NEW d \in Nat, NEW e \in Nat
    PROVE  PowMod(v, d + e) % P = (PowMod(v, d) * PowMod(v, e)) % P
<1> DEFINE S == {n \in 0..e : PowMod(v, d + n) % P = (PowMod(v, d) * PowMod(v, n)) % P}
<1>1. PICK u \in Nat : u = PowMod(v, d)
  BY PowNext
<1>2. 0 \in S
  BY <1>1, PowNext
<1>3. ASSUME NEW n \in 1..e, n - 1 \in S
      PROVE  n \in S
  <2>1. n - 1 \in Nat /\ d + (n - 1) \in Nat /\ (n - 1) + 1 = n /\ (d + (n - 1)) + 1 = d + n
    OBVIOUS
  <2>2. PICK x \in Nat, y \in Nat : x = PowMod(v, n - 1) /\ y = PowMod(v, d + (n - 1))
    BY <2>1, PowNext
  <2>3. PowMod(v, n) = (x * v) % P
    <3>1. PowMod(v, (n - 1) + 1) = (PowMod(v, n - 1) * v) % P
      BY <2>1, PowNext
    <3> QED BY <2>1, <2>2, <3>1
  <2>4. PowMod(v, d + n) = (y * v) % P
    <3>1. PowMod(v, (d + (n - 1)) + 1) = (PowMod(v, d + (n - 1)) * v) % P
      BY <2>1, PowNext
    <3> QED BY <2>1, <2>2, <3>1
  <2>5. y % P = (u * x) % P
    BY <1>1, <1>3, <2>2
  <2>6. (y * v) % P = ((u * x) * v) % P
    <3>1. PICK z \in Nat : z = u * x
      OBVIOUS
    <3>2. ((y % P) * v) % P = (y * v) % P /\ ((z % P) * v) % P = (z * v) % P
      BY ReducedTimes
    <3> QED BY <2>5, <3>1, <3>2
  <2>7. (u * ((x * v) % P)) % P = (u * (x * v)) % P
    <3>1. PICK z \in Nat : z = x * v
      OBVIOUS
    <3> QED BY <3>1, ReducedTimes
  <2>8. (u * x) * v = u * (x * v)
    OBVIOUS
  <2>9. ((y * v) % P) % P = (y * v) % P
    <3>1. PICK z \in Nat : z = y * v
      OBVIOUS
    <3> QED BY <3>1, Remainder
  <2>10. (PowMod(v, d) * PowMod(v, n)) % P = (u * ((x * v) % P)) % P
    BY <1>1, <2>3
  <2>11. PowMod(v, d + n) % P = (PowMod(v, d) * PowMod(v, n)) % P
    BY <2>4, <2>6, <2>7, <2>8, <2>9, <2>10
  <2> QED BY <2>11
<1> HIDE DEF S
<1>4. 0..e \subseteq S
  BY <1>2, <1>3, UpTo
<1> QED BY <1>4 DEF S

LEMMA PowOfSquare ==
    ASSUME NEW v \in Nat, NEW e \in Nat
    PROVE  PowMod((v * v) % P, e) = PowMod(v, 2 * e)
<1> DEFINE S == {n \in 0..e : PowMod((v * v) % P, n) = PowMod(v, 2 * n)}
<1>1. PICK w \in Nat : w = v * v
  OBVIOUS
<1>2. PICK s \in Nat : s = (v * v) % P
  BY <1>1, Remainder
<1>3. 0 \in S
  <2>1. PowMod(s, 0) = 1 /\ PowMod(v, 0) = 1
    BY PowNext
  <2> QED BY <1>2, <2>1
<1>4. ASSUME NEW n \in 1..e, n - 1 \in S
      PROVE  n \in S
  <2>1. n - 1 \in Nat /\ (n - 1) + 1 = n /\ 2 * (n - 1) \in Nat /\ 2 * (n - 1) + 1 \in Nat
        /\ (2 * (n - 1) + 1) + 1 = 2 * n
    OBVIOUS
  <2>2. PICK x \in Nat : x = PowMod(v, 2 * (n - 1))
    BY <2>1, PowNext
  <2>3. PowMod(v, 2 * (n - 1) + 1) = (x * v) % P
    BY <2>1, <2>2, PowNext
  <2>4. PowMod(v, 2 * n) = (((x * v) % P) * v) % P
    <3>1. PowMod(v, (2 * (n - 1) + 1) + 1) = (PowMod(v, 2 * (n - 1) + 1) * v) % P
      BY <2>1, PowNext
    <3> QED BY <2>1, <2>3, <3>1
  <2>5. PowMod(v, 2 * n) = ((x * v) * v) % P
    <3>1. PICK y \in Nat : y = x * v
      OBVIOUS
    <3> QED BY <2>4, <3>1, ReducedTimes
  <2>6. PowMod(s, n) = (x * s) % P
    <3>1. PowMod(s, (n - 1) + 1) = (PowMod(s, n - 1) * s) % P
      BY <2>1, PowNext
    <3> QED BY <1>2, <1>4, <2>1, <2>2, <3>1
  <2>7. (x * s) % P = (x * w) % P
    BY <1>1, <1>2, ReducedTimes
  <2>8. x * w = (x * v) * v
    BY <1>1
  <2>9. PowMod(s, n) = PowMod(v, 2 * n) /\ n \in 0..e
    BY <2>5, <2>6, <2>7, <2>8
  <2> QED BY <1>2, <2>9
<1> HIDE DEF S
<1>5. 0..e \subseteq S
  BY <1>3, <1>4, UpTo
<1> QED BY <1>5 DEF S

LEMMA NoSmallMultiple ==
    ASSUME NEW a \in Nat \ {0}, Divides(P, a)
    PROVE  P <= a
<1>1. PICK k \in Nat : a = P * k
  BY DEF Divides
<1>2. k >= 1
  BY <1>1
<1>3. P * k >= P
  BY <1>2
<1> QED BY <1>1, <1>3

(* Euclid, for factors below P.                                            *)
LEMMA FactorBelow ==
    ASSUME NEW a \in 1..(P - 1), NEW b \in Nat \ {0}, Divides(P, a * b)
    PROVE  Divides(P, b)
<1>1. ~Divides(P, a)
  BY NoSmallMultiple
<1>2. P \in Nat /\ IsPrime(P) /\ a \in Nat \ {0}
  OBVIOUS
<1> QED BY <1>1, <1>2, PrimeOfFactor

(* The multiples of a number below P go through all the numbers below P.   *)
LEMMA MultiplesDiffer ==
    ASSUME NEW x \in 1..(P - 1), NEW k \in 1..(P - 1)
    PROVE  /\ (x * k) % P \in 1..(P - 1)
           /\ \A j \in 1..(k - 1) : (x * j) % P # (x * k) % P
<1>1. PICK y \in Nat \ {0} : y = x * k
  <2>1. x * k > 0
    OBVIOUS
  <2> QED BY <2>1
<1>2. (x * k) % P \in 0..(P - 1)
  BY <1>1, Remainder
<1>3. ~Divides(P, x * k)
  BY FactorBelow, NoSmallMultiple
<1>4. (x * k) % P # 0
  <2>1. P \in Nat \ {0} /\ y \in Nat
    OBVIOUS
  <2>2. y % P = 0 => Divides(P, y)
    BY <2>1, NoRemainder
  <2> QED BY <1>1, <1>3, <2>2
<1>5. ASSUME NEW j \in 1..(k - 1), (x * j) % P = (x * k) % P
      PROVE  FALSE
  <2>1. PICK z \in Nat : z = x * j
    OBVIOUS
  <2>2. PICK i \in 1..(P - 1) : k = j + i
    <3>1. k - j \in 1..(P - 1) /\ k = j + (k - j)
      BY <1>5
    <3> QED BY <3>1
  <2>3. x * k = x * j + x * i /\ x * i >= 0
    BY <2>2
  <2>4. PICK w \in Nat : w = x * i
    OBVIOUS
  <2>5. Divides(P, y - z)
    <3>1. y % P = z % P /\ z <= y /\ P \in Nat \ {0}
      BY <1>1, <1>5, <2>1, <2>3, <2>4
    <3> QED BY <3>1, SameRemainder
  <2>6. y - z = x * i
    BY <1>1, <2>1, <2>3
  <2>7. Divides(P, i)
    BY <2>5, <2>6, FactorBelow
  <2> QED BY <2>7, NoSmallMultiple
<1> QED BY <1>2, <1>4, <1>5

(* Fermat: the product of the multiples is the product of the numbers.     *)
LEMMA Fermat ==
    ASSUME NEW x \in 1..(P - 1)
    PROVE  PowMod(x, P - 1) = 1
<1> DEFINE N == P - 1
           ids == [k \in 1..N |-> k]
           A(n) == {(x * k) % P : k \in 1..n}
           S == {n \in 0..N : Product(ids, A(n)) % P = (PowMod(x, n) * Product(ids, 1..n)) % P}
<1>1. N \in Nat \ {0} /\ P = N + 1
  OBVIOUS
<1>2. Positive(ids) /\ Len(ids) = N /\ \A k \in 1..N : ids[k] = k
  BY <1>1 DEF Positive
<1> HIDE DEF N, ids
<1>3. \A n \in 1..N : (x * n) % P \in 1..N /\ \A j \in 1..(n - 1) : (x * j) % P # (x * n) % P
  BY MultiplesDiffer DEF N
<1>4. 0 \in S
  <2>1. A(0) = {} /\ 1..0 = {}
    OBVIOUS
  <2>2. Product(ids, A(0)) = 1 /\ Product(ids, 1..0) = 1
    BY <1>2, <2>1, EmptyProduct
  <2>3. PowMod(x, 0) = 1
    BY PowNext
  <2> HIDE DEF A
  <2> QED BY <1>1, <2>2, <2>3
<1>5. ASSUME NEW n \in 1..N, n - 1 \in S
      PROVE  n \in S
  <2> DEFINE r == (x * n) % P
  <2>1. r \in 1..N /\ r \notin A(n - 1) /\ A(n) = A(n - 1) \cup {r}
    <3>1. \A k \in 1..n : k = n \/ k \in 1..(n - 1)
      OBVIOUS
    <3>2. \A k \in 1..(n - 1) : k \in 1..n /\ n \in 1..n
      OBVIOUS
    <3>3. r \in 1..N /\ \A j \in 1..(n - 1) : (x * j) % P # r
      BY <1>3
    <3> HIDE DEF r
    <3>4. r \notin A(n - 1)
      BY <3>3
    <3>5. A(n) = A(n - 1) \cup {(x * n) % P}
      <4>1. PICK I, J : I = 1..n /\ J = 1..(n - 1)
        OBVIOUS
      <4>2. I = J \cup {n}
        BY <3>1, <3>2, <4>1
      <4>3. {(x * k) % P : k \in I} = {(x * k) % P : k \in J} \cup {(x * n) % P}
        BY <4>2, Zenon
      <4> QED BY <4>1, <4>3, Zenon
    <3> QED BY <3>3, <3>4, <3>5 DEF r
  <2> HIDE DEF r, A
  <2>2. 1..n = (1..(n - 1)) \cup {n} /\ n \notin 1..(n - 1)
    OBVIOUS
  <2>3. PICK a \in Nat, w \in Nat, t \in Nat :
          /\ a = Product(ids, A(n - 1)) /\ w = Product(ids, 1..(n - 1)) /\ t = PowMod(x, n - 1)
    <3>1. n - 1 \in Nat /\ x \in Nat
      OBVIOUS
    <3> QED BY <1>2, <3>1, ProductPositive, PowNext
  <2>4. Product(ids, A(n)) = a * r
    <3>1. Product(ids, A(n - 1) \cup {r}) = Product(ids, A(n - 1)) * ids[r]
      BY <1>2, <2>1, OneMoreFactor
    <3> QED BY <1>2, <2>1, <2>3, <3>1
  <2>5. Product(ids, 1..n) = w * n
    <3>1. Product(ids, (1..(n - 1)) \cup {n}) = Product(ids, 1..(n - 1)) * ids[n]
      BY <1>2, <2>2, OneMoreFactor
    <3> QED BY <1>2, <2>2, <2>3, <3>1
  <2>6. PowMod(x, n) = (t * x) % P
    <3>1. n - 1 \in Nat /\ x \in Nat /\ (n - 1) + 1 = n
      OBVIOUS
    <3>2. PowMod(x, (n - 1) + 1) = (PowMod(x, n - 1) * x) % P
      BY <3>1, PowNext
    <3> QED BY <2>3, <3>1, <3>2
  <2>7. a % P = (t * w) % P
    BY <1>5, <2>3
  <2>8. PICK y \in Nat, u \in Nat, v \in Nat, z \in Nat :
          y = x * n /\ u = t * w /\ v = t * x /\ z = w * n
    OBVIOUS
  <2>9. (a * r) % P = (u * y) % P
    <3>1. (a * r) % P = (a * y) % P
      BY <2>8, ReducedTimes DEF r
    <3>2. (a * y) % P = ((a % P) * y) % P /\ (u * y) % P = ((u % P) * y) % P
      BY ReducedTimes
    <3> QED BY <2>7, <2>8, <3>1, <3>2
  <2>10. (((t * x) % P) * z) % P = (v * z) % P
    BY <2>8, ReducedTimes
  <2>11. u * y = v * z
    <3>1. (t * w) * (x * n) = (t * x) * (w * n)
      OBVIOUS
    <3> QED BY <2>8, <3>1
  <2>12. Product(ids, A(n)) % P = (PowMod(x, n) * Product(ids, 1..n)) % P
    BY <2>4, <2>5, <2>6, <2>8, <2>9, <2>10, <2>11
  <2> QED BY <2>12
<1>6. N \in S
  <2>1. N \in Nat /\ N \in 0..N
    BY <1>1
  <2> HIDE DEF S
  <2>2. 0..N \subseteq S
    BY <1>4, <1>5, <2>1, UpTo
  <2> QED BY <2>1, <2>2
<1>7. A(N) = 1..N
  <2> DEFINE f == [k \in 1..N |-> (x * k) % P]
  <2>1. f \in [1..N -> A(N)] /\ \A k \in 1..N : f[k] = (x * k) % P
    OBVIOUS
  <2>2. \A j, k \in 1..N : f[j] = f[k] => j = k
    <3>1. \A j, k \in 1..N : j < k => f[j] # f[k]
      <4> TAKE j, k \in 1..N
      <4>1. j < k => j \in 1..(k - 1)
        BY <1>1
      <4> HIDE DEF f
      <4> QED BY <1>3, <2>1, <4>1
    <3>2. \A j, k \in 1..N : j < k \/ k < j \/ j = k
      BY <1>1
    <3> HIDE DEF f
    <3> QED BY <3>1, <3>2
  <2>3. \A v \in A(N) : \E k \in 1..N : f[k] = v
    OBVIOUS
  <2>4. A(N) \subseteq 1..N
    BY <1>3
  <2> HIDE DEF f, A
  <2>5. f \in Bijection(1..N, A(N))
    <3>1. f \in Injection(1..N, A(N))
      BY <2>1, <2>2 DEF Injection, IsInjective
    <3>2. f \in Surjection(1..N, A(N))
      BY <2>1, <2>3 DEF Surjection
    <3> QED BY <3>1, <3>2 DEF Bijection
  <2>6. \A b \in Nat : IsFiniteSet(1..b) /\ Cardinality(1..b) = b
    BY FS_Interval
  <2>7. PICK I : I = 1..N
    OBVIOUS
  <2>8. IsFiniteSet(I) /\ f \in Bijection(I, A(N))
    BY <1>1, <2>5, <2>6, <2>7
  <2>9. Cardinality(A(N)) = Cardinality(I)
    BY <2>8, FS_Bijection DEF ExistsBijection
  <2>10. A(N) \in SUBSET I
    BY <2>4, <2>7
  <2>11. A(N) = I
    BY <2>8, <2>9, <2>10, FS_Subset
  <2> QED BY <2>7, <2>11
<1> HIDE DEF A
<1>8. PICK w \in Nat \ {0}, t \in Nat : w = Product(ids, 1..N) /\ t = PowMod(x, N)
  <2>1. x \in Nat
    OBVIOUS
  <2> QED BY <1>1, <1>2, <2>1, ProductPositive, PowNext
<1>9. ~Divides(P, w)
  <2> SUFFICES ASSUME Divides(P, w) PROVE FALSE
    OBVIOUS
  <2>1. P \in Nat /\ IsPrime(P)
    OBVIOUS
  <2>2. PICK j \in (1..N) \cap (1..Len(ids)) : Divides(P, ids[j])
    BY <1>2, <1>8, <2>1, PrimeOfProduct
  <2>3. j \in 1..N /\ Divides(P, j)
    BY <1>2, <2>2
  <2>4. j \in Nat \ {0} /\ j < P
    BY <1>1, <2>3
  <2> QED BY <2>3, <2>4, NoSmallMultiple
<1>10. w % P = (t * w) % P
  BY <1>6, <1>7, <1>8
<1>11. t < P
  <2>1. N - 1 \in Nat /\ (N - 1) + 1 = N /\ x \in Nat
    BY <1>1
  <2>2. PowMod(x, (N - 1) + 1) = (PowMod(x, N - 1) * x) % P
    BY <2>1, PowNext
  <2>3. PICK y \in Nat : y = PowMod(x, N - 1) * x
    BY <2>1, PowNext
  <2>4. t = y % P
    BY <1>8, <2>1, <2>2, <2>3
  <2> QED BY <2>4, Remainder
<1>12. t # 0
  <2> SUFFICES ASSUME t = 0 PROVE FALSE
    OBVIOUS
  <2>1. t * w = 0 /\ 0 % P = 0
    OBVIOUS
  <2> QED BY <1>9, <1>10, <2>1, NoRemainder
<1>13. ASSUME t > 1
       PROVE  FALSE
  <2>1. PICK s \in 1..(P - 1) : t = s + 1
    <3>1. t - 1 \in 1..(P - 1) /\ t = (t - 1) + 1
      BY <1>11, <1>13
    <3> QED BY <3>1
  <2>2. PICK y \in Nat, z \in Nat : y = t * w /\ z = s * w
    OBVIOUS
  <2>3. y = z + w
    BY <2>1, <2>2
  <2>4. Divides(P, y - w)
    <3>1. y % P = w % P /\ w <= y /\ P \in Nat \ {0}
      BY <1>10, <2>2, <2>3
    <3> QED BY <3>1, SameRemainder
  <2>5. Divides(P, s * w)
    BY <2>2, <2>3, <2>4
  <2> QED BY <1>9, <2>5, FactorBelow
<1> QED BY <1>8, <1>12, <1>13 DEF N

LEMMA PowBelow ==
    ASSUME NEW v \in Nat, NEW e \in Nat \ {0}
    PROVE  PowMod(v, e) \in 0..(P - 1)
<1>1. e - 1 \in Nat /\ (e - 1) + 1 = e
  OBVIOUS
<1>2. PICK y \in Nat : y = PowMod(v, e - 1) * v
  <2>1. PowMod(v, e - 1) \in Nat
    BY <1>1, PowNext
  <2> QED BY <2>1
<1>3. PowMod(v, (e - 1) + 1) = y % P
  BY <1>1, <1>2, PowNext
<1>4. PowMod(v, e) = y % P
  BY <1>1, <1>3
<1>5. y % P \in Nat /\ y % P < P
  BY Remainder
<1> QED BY <1>4, <1>5

(* Two numbers with the same square are the same or opposite.              *)
LEMMA RootsOfSquare ==
    ASSUME NEW u \in 0..(P - 1), NEW v \in 0..(P - 1), v < u, (u * u) % P = (v * v) % P
    PROVE  u + v = P
<1>1. PICK y \in Nat, z \in Nat : y = u * u /\ z = v * v
  OBVIOUS
<1>2. PICK d \in 1..(P - 1), s \in Nat \ {0} : d = u - v /\ s = u + v
  OBVIOUS
<1>3. u * u - v * v = (u - v) * (u + v) /\ (u - v) * (u + v) >= 0
  BY <1>1
<1>4. PICK w \in Nat : w = d * s
  OBVIOUS
<1>5. Divides(P, d * s)
  <2>1. P \in Nat \ {0} /\ y % P = z % P
    BY <1>1
  <2>2. y - z = d * s /\ z <= y
    BY <1>1, <1>2, <1>3, <1>4
  <2> QED BY <2>1, <2>2, SameRemainder
<1>6. Divides(P, s)
  BY <1>5, FactorBelow
<1>7. PICK k \in Nat : s = P * k
  BY <1>6 DEF Divides
<1>8. s < 2 * P /\ s > 0
  BY <1>2
<1>9. k = 1
  <2>1. k # 0
    BY <1>7
  <2>2. ASSUME k >= 2
        PROVE  FALSE
    <3>1. P * k >= P * 2
      BY <2>2
    <3> QED BY <1>7, <1>8, <3>1
  <2> QED BY <2>1, <2>2
<1> QED BY <1>2, <1>7, <1>9

(* The canonical root of the square of a number up to Q is that number.    *)
LEMMA RootOfSquare ==
    ASSUME NEW x \in 1..Q
    PROVE  CanonicalRoot(PowMod(x, 2)) = x
<1>1. x \in Nat /\ x \in 1..(P - 1) /\ P \in Nat \ {0}
  OBVIOUS
<1>2. PICK k \in Nat \ {0} : k = (P + 1) \div 4 /\ 2 * k + 2 * k = (P - 1) + 2
  <2>1. (P + 1) \div 4 \in Nat \ {0} /\ 2 * ((P + 1) \div 4) + 2 * ((P + 1) \div 4) = (P - 1) + 2
    OBVIOUS
  <2> QED BY <2>1
<1>3. PICK y \in Nat : y = x * x
  BY <1>1
<1>4. PowMod(x, 2) = y % P /\ y % P \in Nat
  <2>1. PowMod(x, 0 + 1) = (PowMod(x, 0) * x) % P /\ PowMod(x, 0) = 1
    BY <1>1, PowNext
  <2>2. x % P = x
    BY <1>1, Remainder
  <2>3. PowMod(x, 1) = x
    BY <1>1, <2>1, <2>2
  <2>4. PowMod(x, 1 + 1) = (PowMod(x, 1) * x) % P
    BY <1>1, PowNext
  <2>5. PowMod(x, 2) = y % P
    <3>1. 1 + 1 = 2
      OBVIOUS
    <3>2. PowMod(x, 2) = (PowMod(x, 1) * x) % P
      BY <2>4, <3>1
    <3> QED BY <1>3, <2>3, <3>2
  <2> QED BY <2>5, Remainder
<1>5. PICK root \in 0..(P - 1) : root = PowMod(PowMod(x, 2), k)
  BY <1>4, PowBelow
<1>6. root = PowMod(x, 2 * k)
  BY <1>1, <1>2, <1>3, <1>4, <1>5, PowOfSquare
<1>7. (root * root) % P = (x * x) % P
  <2>1. 2 * k \in Nat /\ P - 1 \in Nat /\ 2 \in Nat
    BY <1>1, <1>2
  <2>2. PowMod(x, 2 * k + 2 * k) % P = (root * root) % P
    BY <1>1, <1>6, <2>1, PowSum
  <2>3. PowMod(x, (P - 1) + 2) % P = (PowMod(x, P - 1) * PowMod(x, 2)) % P
    BY <1>1, <2>1, PowSum
  <2>4. PowMod(x, P - 1) = 1
    BY <1>1, Fermat
  <2>5. PICK z \in Nat : z = y % P
    BY <1>4
  <2>6. (PowMod(x, P - 1) * PowMod(x, 2)) % P = z % P
    BY <1>4, <2>4, <2>5
  <2>7. z % P = z
    BY <1>3, <2>5, Remainder
  <2>8. (root * root) % P = z
    BY <1>2, <2>2, <2>3, <2>6, <2>7
  <2> QED BY <1>3, <2>5, <2>8
<1>8. root = x \/ root = P - x
  <2>1. x \in 0..(P - 1)
    BY <1>1
  <2>2. CASE x < root
    BY <1>7, <2>1, <2>2, RootsOfSquare
  <2>3. CASE root < x
    BY <1>7, <2>1, <2>3, RootsOfSquare
  <2> QED BY <2>2, <2>3
<1>9. CanonicalRoot(PowMod(x, 2)) = IF root > Q THEN P - root ELSE root
  BY <1>2, <1>5 DEF CanonicalRoot
<1> QED BY <1>8, <1>9


(* What a word stands for, digit by digit; the power it is compared with,  *)
(* factor by factor; and how a number is written, from the last digit on.  *)
Digits(word) == word \in Seq(0..(Base - 1))

LEMMA NumberSteps ==
    ASSUME NEW word, Digits(word)
    PROVE  \E f \in [0..Len(word) -> Nat] :
             /\ f[0] = 0 /\ WriteInToInteger(word) = f[Len(word)]
             /\ \A n \in 1..Len(word) : f[n] = f[n - 1] * Base + word[n]
<1> DEFINE l == Len(word)
           Is(h) == h = [n \in 0..l |-> IF n = 0 THEN 0 ELSE h[n - 1] * Base + word[n]]
           G == [a \in (1..l) \X Nat |-> a[2] * Base + word[a[1]]]
           prev == [n \in 1..l |-> n - 1]
<1>1. l \in Nat /\ \A n \in 1..l : word[n] \in Nat
  BY DEF Digits
<1> HIDE DEF l
<1>2. \A n \in 1..l, x \in Nat : G[<<n, x>>] = x * Base + word[n] /\ G[<<n, x>>] \in Nat
  BY <1>1
<1>3. \A n \in 1..l : prev[n] = n - 1 /\ prev[n] \in 0..(n - 1)
  BY <1>1
<1> HIDE DEF G, prev
<1>4. PICK h : Recurs(h, Nat, 0, prev, G, l)
  <2>1. Descends(prev, l)
    BY <1>3 DEF Descends
  <2>2. StaysIn(Nat, G, l)
    BY <1>2 DEF StaysIn
  <2> QED BY <1>1, <2>1, <2>2, Recursion
<1>5. h \in [0..l -> Nat] /\ h[0] = 0
  BY <1>4 DEF Recurs
<1>6. \A n \in 1..l : h[n] = h[n - 1] * Base + word[n]
  <2> TAKE n \in 1..l
  <2>1. PICK x \in Nat : x = h[n - 1] /\ prev[n] = n - 1
    BY <1>1, <1>3, <1>5
  <2>2. h[n] = G[<<n, x>>]
    BY <1>4, <2>1 DEF Recurs
  <2>3. G[<<n, x>>] = x * Base + word[n]
    BY <1>2
  <2> QED BY <2>1, <2>2, <2>3
<1>7. Is(h)
  <2>1. h = [n \in 0..l |-> h[n]]
    BY <1>5
  <2>2. \A n \in 0..l : h[n] = IF n = 0 THEN 0 ELSE h[n - 1] * Base + word[n]
    BY <1>1, <1>5, <1>6
  <2> QED BY <2>1, <2>2
<1> DEFINE f == CHOOSE g : Is(g)
<1>8. Is(f)
  <2> HIDE DEF Is
  <2> QED BY <1>7
<1>9. WriteInToInteger(word) = f[l]
  BY DEF WriteInToInteger, l
<1> HIDE DEF f
<1>10. f = [n \in 0..l |-> f[n]] /\ f[0] = 0 /\ \A n \in 1..l : f[n] = f[n - 1] * Base + word[n]
  <2>1. f = [n \in 0..l |-> IF n = 0 THEN 0 ELSE f[n - 1] * Base + word[n]]
    BY <1>8
  <2>2. \A n \in 0..l : f[n] = IF n = 0 THEN 0 ELSE f[n - 1] * Base + word[n]
    BY <2>1
  <2>3. f = [n \in 0..l |-> f[n]]
    BY <2>1, <2>2
  <2>4. 0 \in 0..l /\ \A n \in 1..l : n \in 0..l /\ n # 0
    BY <1>1
  <2> QED BY <2>2, <2>3, <2>4
<1>11. \A n \in 0..l : f[n] \in Nat
  <2> DEFINE S == {n \in 0..l : f[n] \in Nat}
  <2>1. 0 \in S
    BY <1>1, <1>10
  <2>2. ASSUME NEW n \in 1..l, n - 1 \in S
        PROVE  n \in S
    <3>1. PICK x \in Nat, d \in Nat : x = f[n - 1] /\ d = word[n]
      BY <1>1, <2>2
    <3>2. f[n] = x * Base + d
      BY <1>10, <3>1
    <3>3. n \in 0..l
      BY <1>1
    <3> QED BY <3>2, <3>3
  <2> HIDE DEF S
  <2>3. 0..l \subseteq S
    BY <1>1, <2>1, <2>2, UpTo
  <2> QED BY <2>3 DEF S
<1>12. f \in [0..l -> Nat]
  BY <1>10, <1>11
<1> QED BY <1>9, <1>10, <1>12 DEF l

LEMMA PowerSteps ==
    ASSUME NEW word, Len(word) \in Nat
    PROVE  \E f \in [0..(Len(word) + 1) -> Nat] :
             /\ f[0] = 1 /\ (Fits(word) <=> f[Len(word) + 1] < Q)
             /\ \A n \in 1..(Len(word) + 1) : f[n] = f[n - 1] * Base
<1> DEFINE l == Len(word) + 1
           Is(h) == h = [n \in 0..l |-> IF n = 0 THEN 1 ELSE h[n - 1] * Base]
           G == [a \in (1..l) \X Nat |-> a[2] * Base]
           prev == [n \in 1..l |-> n - 1]
<1>1. l \in Nat
  OBVIOUS
<1> HIDE DEF l
<1>2. \A n \in 1..l, x \in Nat : G[<<n, x>>] = x * Base /\ G[<<n, x>>] \in Nat
  BY <1>1
<1>3. \A n \in 1..l : prev[n] = n - 1 /\ prev[n] \in 0..(n - 1)
  BY <1>1
<1> HIDE DEF G, prev
<1>4. PICK h : Recurs(h, Nat, 1, prev, G, l)
  <2>1. Descends(prev, l)
    BY <1>3 DEF Descends
  <2>2. StaysIn(Nat, G, l)
    BY <1>2 DEF StaysIn
  <2> QED BY <1>1, <2>1, <2>2, Recursion
<1>5. h \in [0..l -> Nat] /\ h[0] = 1
  BY <1>4 DEF Recurs
<1>6. \A n \in 1..l : h[n] = h[n - 1] * Base
  <2> TAKE n \in 1..l
  <2>1. PICK x \in Nat : x = h[n - 1] /\ prev[n] = n - 1
    BY <1>1, <1>3, <1>5
  <2>2. h[n] = G[<<n, x>>]
    BY <1>4, <2>1 DEF Recurs
  <2>3. G[<<n, x>>] = x * Base
    BY <1>2
  <2> QED BY <2>1, <2>2, <2>3
<1>7. Is(h)
  <2>1. h = [n \in 0..l |-> h[n]]
    BY <1>5
  <2>2. \A n \in 0..l : h[n] = IF n = 0 THEN 1 ELSE h[n - 1] * Base
    BY <1>1, <1>5, <1>6
  <2> QED BY <2>1, <2>2
<1> DEFINE f == CHOOSE g : Is(g)
<1>8. Is(f)
  <2> HIDE DEF Is
  <2> QED BY <1>7
<1>9. Fits(word) <=> f[l] < Q
  BY DEF Fits, l
<1> HIDE DEF f
<1>10. f = [n \in 0..l |-> f[n]] /\ f[0] = 1 /\ \A n \in 1..l : f[n] = f[n - 1] * Base
  <2>1. f = [n \in 0..l |-> IF n = 0 THEN 1 ELSE f[n - 1] * Base]
    BY <1>8
  <2>2. \A n \in 0..l : f[n] = IF n = 0 THEN 1 ELSE f[n - 1] * Base
    BY <2>1
  <2>3. f = [n \in 0..l |-> f[n]]
    BY <2>1, <2>2
  <2>4. 0 \in 0..l /\ \A n \in 1..l : n \in 0..l /\ n # 0
    BY <1>1
  <2> QED BY <2>2, <2>3, <2>4
<1>11. \A n \in 0..l : f[n] \in Nat
  <2> DEFINE S == {n \in 0..l : f[n] \in Nat}
  <2>1. 0 \in S
    BY <1>1, <1>10
  <2>2. ASSUME NEW n \in 1..l, n - 1 \in S
        PROVE  n \in S
    <3>1. PICK x \in Nat : x = f[n - 1]
      BY <2>2
    <3>2. f[n] = x * Base
      BY <1>10, <3>1
    <3>3. n \in 0..l
      BY <1>1
    <3> QED BY <3>2, <3>3
  <2> HIDE DEF S
  <2>3. 0..l \subseteq S
    BY <1>1, <2>1, <2>2, UpTo
  <2> QED BY <2>3 DEF S
<1>12. f \in [0..l -> Nat]
  BY <1>10, <1>11
<1> QED BY <1>9, <1>10, <1>12 DEF l

LEMMA WordSteps ==
    ASSUME NEW l \in Nat
    PROVE  \E f \in [0..l -> Seq(Nat)] :
             /\ f[0] = <<>> /\ IntegerToWriteIn(l) = f[l]
             /\ \A n \in 1..l : f[n] = Append(f[n \div Base], n % Base)
<1> DEFINE Is(h) == h = [n \in 0..l |-> IF n = 0 THEN <<>> ELSE Append(h[n \div Base], n % Base)]
           G == [a \in (1..l) \X Seq(Nat) |-> Append(a[2], a[1] % Base)]
           prev == [n \in 1..l |-> n \div Base]
<1>1. \A n \in 1..l : n \div Base \in 0..(n - 1) /\ n \div Base \in 0..l /\ n % Base \in Nat
  <2> TAKE n \in 1..l
  <2>1. PICK c \in Nat, r \in Nat : c = n \div Base /\ r = n % Base /\ n = Base * c + r
    <3>1. Base \in Nat \ {0} /\ n \in Nat
      OBVIOUS
    <3> QED BY <3>1, Division
  <2>2. Base * c >= c + c
    OBVIOUS
  <2> QED BY <2>1, <2>2
<1>2. \A n \in 1..l, x \in Seq(Nat) : G[<<n, x>>] = Append(x, n % Base) /\ G[<<n, x>>] \in Seq(Nat)
  <2> TAKE n \in 1..l, x \in Seq(Nat)
  <2>1. G[<<n, x>>] = Append(x, n % Base)
    OBVIOUS
  <2>2. Append(x, n % Base) \in Seq(Nat)
    BY <1>1
  <2> HIDE DEF G
  <2> QED BY <2>1, <2>2
<1>3. \A n \in 1..l : prev[n] = n \div Base /\ prev[n] \in 0..(n - 1)
  BY <1>1
<1> HIDE DEF G, prev
<1>4. PICK h : Recurs(h, Seq(Nat), <<>>, prev, G, l)
  <2>1. Descends(prev, l)
    BY <1>3 DEF Descends
  <2>2. StaysIn(Seq(Nat), G, l)
    BY <1>2 DEF StaysIn
  <2>3. <<>> \in Seq(Nat)
    OBVIOUS
  <2> QED BY <2>1, <2>2, <2>3, Recursion
<1>5. h \in [0..l -> Seq(Nat)] /\ h[0] = <<>>
  BY <1>4 DEF Recurs
<1>6. \A n \in 1..l : h[n] = Append(h[n \div Base], n % Base)
  <2> TAKE n \in 1..l
  <2>1. PICK x \in Seq(Nat) : x = h[n \div Base]
    BY <1>1, <1>5
  <2>2. h[n] = G[<<n, x>>]
    BY <1>3, <1>4, <2>1 DEF Recurs
  <2> QED BY <1>2, <2>1, <2>2
<1>7. Is(h)
  <2>1. h = [n \in 0..l |-> h[n]]
    BY <1>5
  <2>2. \A n \in 0..l : n = 0 \/ n \in 1..l
    OBVIOUS
  <2>3. \A n \in 0..l : h[n] = IF n = 0 THEN <<>> ELSE Append(h[n \div Base], n % Base)
    BY <1>5, <1>6, <2>2
  <2> QED BY <2>1, <2>3
<1> DEFINE f == CHOOSE g : Is(g)
<1>8. Is(f)
  <2> HIDE DEF Is
  <2> QED BY <1>7
<1>9. IntegerToWriteIn(l) = f[l]
  BY DEF IntegerToWriteIn
<1> HIDE DEF f
<1>10. f = [n \in 0..l |-> f[n]] /\ f[0] = <<>> /\ \A n \in 1..l : f[n] = Append(f[n \div Base], n % Base)
  <2>1. f = [n \in 0..l |-> IF n = 0 THEN <<>> ELSE Append(f[n \div Base], n % Base)]
    BY <1>8
  <2>2. \A n \in 0..l : f[n] = IF n = 0 THEN <<>> ELSE Append(f[n \div Base], n % Base)
    BY <2>1
  <2>3. f = [n \in 0..l |-> f[n]]
    BY <2>1, <2>2
  <2>4. 0 \in 0..l /\ \A n \in 1..l : n \in 0..l /\ n # 0
    OBVIOUS
  <2> QED BY <2>2, <2>3, <2>4
<1>11. ASSUME NEW n \in 0..l
       PROVE  f[n] = h[n]
  <2> DEFINE S == {m \in 0..l : \A k \in 0..m : f[k] = h[k]}
  <2>1. 0 \in S
    BY <1>5, <1>10
  <2>2. ASSUME NEW m \in 1..l, m - 1 \in S
        PROVE  m \in S
    <3>1. m \div Base \in 0..(m - 1) /\ m \in 0..l
      BY <1>1
    <3>2. f[m] = h[m]
      BY <1>6, <1>10, <2>2, <3>1
    <3>3. \A k \in 0..m : k = m \/ k \in 0..(m - 1)
      OBVIOUS
    <3> QED BY <2>2, <3>1, <3>2, <3>3
  <2>3. n \in n..n /\ n \in 0..n
    OBVIOUS
  <2> HIDE DEF S
  <2>4. 0..l \subseteq S
    BY <2>1, <2>2, UpTo
  <2> QED BY <2>3, <2>4 DEF S
<1>12. f \in [0..l -> Seq(Nat)]
  BY <1>5, <1>10, <1>11
<1> QED BY <1>9, <1>10, <1>12

(* The number of a word that fits is below Q, and written back it is the   *)
(* word.                                                                   *)
LEMMA WordOfInteger ==
    ASSUME NEW word, Digits(word), IsWord(word), Fits(word)
    PROVE  /\ WriteInToInteger(word) \in 1..(Q - 1)
           /\ IntegerToWriteIn(WriteInToInteger(word)) = word
<1>1. PICK l \in Nat \ {0} : l = Len(word)
  BY DEF Digits, IsWord
<1>2. \A k \in 1..l : word[k] \in 0..(Base - 1)
  BY <1>1 DEF Digits
<1>3. PICK x \in [0..l -> Nat] :
        /\ x[0] = 0 /\ WriteInToInteger(word) = x[l]
        /\ \A n \in 1..l : x[n] = x[n - 1] * Base + word[n]
  BY <1>1, NumberSteps
<1>4. PICK pw \in [0..(l + 1) -> Nat] :
        /\ pw[0] = 1 /\ pw[l + 1] < Q
        /\ \A n \in 1..(l + 1) : pw[n] = pw[n - 1] * Base
  BY <1>1, PowerSteps
<1>5. \A k \in 0..l : x[k] < pw[k]
  <2> DEFINE S == {k \in 0..l : x[k] < pw[k]}
  <2>1. 0 \in S
    BY <1>3, <1>4
  <2>2. ASSUME NEW k \in 1..l, k - 1 \in S
        PROVE  k \in S
    <3>1. k \in 0..l /\ k \in 1..(l + 1) /\ k - 1 \in 0..l /\ k - 1 \in 0..(l + 1)
      OBVIOUS
    <3>2. PICK a \in Nat, b \in Nat, d \in 0..(Base - 1) : a = x[k - 1] /\ b = pw[k - 1] /\ d = word[k]
      BY <1>2, <3>1
    <3>3. x[k] = a * Base + d /\ pw[k] = b * Base
      BY <1>3, <1>4, <3>1, <3>2
    <3>4. PICK c \in Nat : b = a + 1 + c
      <4>1. a < b
        BY <2>2, <3>2
      <4>2. b - a - 1 \in Nat /\ b = a + 1 + (b - a - 1)
        BY <4>1
      <4> QED BY <4>2
    <3>5. b * Base = a * Base + Base + c * Base /\ c * Base >= 0
      BY <3>4
    <3>6. x[k] < pw[k]
      <4>1. PICK u \in Nat, v \in Nat : u = a * Base /\ v = c * Base
        OBVIOUS
      <4>2. d < Base /\ d \in Nat
        OBVIOUS
      <4>3. x[k] = u + d /\ pw[k] = u + Base + v
        BY <3>3, <3>5, <4>1
      <4>4. u + d < u + Base + v
        BY <4>2
      <4> QED BY <4>3, <4>4
    <3> QED BY <3>1, <3>6
  <2> HIDE DEF S
  <2>3. 0..l \subseteq S
    BY <2>1, <2>2, UpTo
  <2> QED BY <2>3 DEF S
<1>6. \A k \in 1..l : x[k - 1] <= x[k]
  <2> TAKE k \in 1..l
  <2>1. PICK a \in Nat, d \in Nat : a = x[k - 1] /\ d = word[k]
    <3>1. k - 1 \in 0..l /\ word[k] \in 0..(Base - 1)
      BY <1>2
    <3>2. x[k - 1] \in Nat /\ word[k] \in Nat
      BY <3>1
    <3> QED BY <3>2
  <2>2. x[k] = a * Base + d
    BY <1>3, <2>1
  <2>3. PICK u \in Nat : u = a * Base
    OBVIOUS
  <2>4. u >= a
    BY <2>3
  <2>5. x[k] = u + d
    BY <2>2, <2>3
  <2>6. a <= u + d
    BY <2>4
  <2> QED BY <2>1, <2>5, <2>6
<1>7. \A k \in 0..l : k # 0 => x[k] > 0
  <2> DEFINE S == {k \in 0..l : k # 0 => x[k] > 0}
  <2>1. 0 \in S
    OBVIOUS
  <2>2. ASSUME NEW k \in 1..l, k - 1 \in S
        PROVE  k \in S
    <3>1. CASE k = 1
      <4>1. 1 \in 1..l /\ 1 \in 0..l
        OBVIOUS
      <4>2. PICK d \in Nat : d = word[1]
        BY <1>2, <4>1
      <4>3. x[1] = word[1]
        <5>1. x[1] = x[1 - 1] * Base + word[1]
          BY <1>3, <4>1
        <5>2. 1 - 1 = 0 /\ 0 * Base = 0
          OBVIOUS
        <5>3. x[1] = 0 + d
          BY <1>3, <4>2, <5>1, <5>2
        <5> QED BY <4>2, <5>3
      <4>4. word[1] # 0 /\ word[1] \in Nat
        BY <1>2, <4>1 DEF IsWord
      <4> QED BY <3>1, <4>1, <4>3, <4>4
    <3>2. CASE k # 1
      <4>1. x[k - 1] > 0 /\ x[k - 1] <= x[k] /\ k - 1 \in 0..l /\ k \in 0..l
        BY <1>6, <2>2, <3>2
      <4> QED BY <4>1
    <3> QED BY <3>1, <3>2
  <2> HIDE DEF S
  <2>3. 0..l \subseteq S
    BY <2>1, <2>2, UpTo
  <2> QED BY <2>3 DEF S
<1>8. \A k \in 0..l : x[l - k] <= x[l]
  <2> DEFINE S == {k \in 0..l : x[l - k] <= x[l]}
  <2>1. 0 \in S
    <3>1. l \in 0..l /\ l - 0 = l /\ 0 \in 0..l
      OBVIOUS
    <3> QED BY <3>1
  <2>2. ASSUME NEW k \in 1..l, k - 1 \in S
        PROVE  k \in S
    <3>1. PICK m \in 1..l : m = l - (k - 1) /\ m - 1 = l - k
      <4>1. l - (k - 1) \in 1..l /\ (l - (k - 1)) - 1 = l - k
        OBVIOUS
      <4> QED BY <4>1
    <3>2. x[m - 1] <= x[m] /\ x[m] <= x[l]
      BY <1>6, <2>2, <3>1
    <3>3. m \in 0..l /\ m - 1 \in 0..l /\ l \in 0..l /\ k \in 0..l
      OBVIOUS
    <3> QED BY <3>1, <3>2, <3>3
  <2> HIDE DEF S
  <2>3. 0..l \subseteq S
    BY <2>1, <2>2, UpTo
  <2> QED BY <2>3 DEF S
<1>9. \A k \in 0..l : x[k] <= x[l]
  <2> TAKE k \in 0..l
  <2>1. l - k \in 0..l /\ l - (l - k) = k
    OBVIOUS
  <2> QED BY <1>8, <2>1
<1>10. x[l] \in 1..(Q - 1)
  <2>1. l \in 0..l /\ l \in 0..(l + 1) /\ l + 1 \in 1..(l + 1) /\ (l + 1) - 1 = l
    OBVIOUS
  <2>2. PICK a \in Nat, b \in Nat : a = x[l] /\ b = pw[l]
    BY <2>1
  <2>3. pw[l + 1] = b * Base
    BY <1>4, <2>1, <2>2
  <2>4. b * Base >= b
    OBVIOUS
  <2>5. a < b /\ a > 0
    BY <1>5, <1>7, <2>1, <2>2
  <2>6. PICK u \in Nat : u = b * Base
    OBVIOUS
  <2>7. u < Q
    BY <1>4, <2>3, <2>6
  <2>8. b <= u
    BY <2>4, <2>6
  <2>9. a > 0 /\ a < Q
    BY <2>5, <2>7, <2>8
  <2> QED BY <2>2, <2>9
<1>11. PICK f \in [0..x[l] -> Seq(Nat)] :
         /\ f[0] = <<>> /\ IntegerToWriteIn(x[l]) = f[x[l]]
         /\ \A n \in 1..x[l] : f[n] = Append(f[n \div Base], n % Base)
  <2>1. x[l] \in Nat
    BY <1>10
  <2> QED BY <2>1, WordSteps
<1> DEFINE Begin(k) == [i \in 1..k |-> word[i]]
           S == {k \in 0..l : f[x[k]] = Begin(k)}
<1>12. 0 \in S
  BY <1>3, <1>11
<1>13. ASSUME NEW k \in 1..l, k - 1 \in S
       PROVE  k \in S
  <2>1. k \in 0..l /\ k - 1 \in 0..l /\ k - 1 \in Nat
    OBVIOUS
  <2>2. PICK a \in Nat, d \in 0..(Base - 1) : a = x[k - 1] /\ d = word[k]
    BY <1>2, <2>1
  <2>3. x[k] = a * Base + d
    BY <1>3, <2>2
  <2>4. x[k] \div Base = a /\ x[k] % Base = d
    <3>1. Base \in Nat \ {0}
      OBVIOUS
    <3>2. (a * Base + d) \div Base = a /\ (a * Base + d) % Base = d
      BY <3>1, DivMod
    <3> QED BY <2>3, <3>2
  <2>5. x[k] \in 1..x[l]
    BY <1>7, <1>9, <2>1
  <2>6. f[x[k]] = Append(Begin(k - 1), word[k])
    <3>1. f[x[k]] = Append(f[x[k] \div Base], x[k] % Base)
      BY <1>11, <2>5
    <3> HIDE DEF Begin
    <3> QED BY <1>13, <2>2, <2>4, <3>1
  <2>7. Append(Begin(k - 1), word[k]) = Begin(k)
    <3>1. \A i \in 1..(k - 1) : word[i] \in Nat
      BY <1>2
    <3>2. PICK b \in Seq(Nat) : b = Begin(k - 1) /\ Len(b) = k - 1 /\ \A i \in 1..(k - 1) : b[i] = word[i]
      <4>1. Begin(k - 1) \in Seq(Nat) /\ Len(Begin(k - 1)) = k - 1
        BY <2>1, <3>1
      <4>2. \A i \in 1..(k - 1) : Begin(k - 1)[i] = word[i]
        OBVIOUS
      <4> HIDE DEF Begin
      <4> QED BY <4>1, <4>2
    <3>3. PICK c \in Nat : c = word[k]
      <4>1. d \in Nat
        OBVIOUS
      <4> QED BY <2>2, <4>1
    <3>4. Append(b, c) = [i \in 1..k |-> IF i = k THEN c ELSE b[i]]
      BY <3>2
    <3>5. \A i \in 1..k : (IF i = k THEN c ELSE b[i]) = word[i]
      BY <3>2, <3>3
    <3>6. Append(b, c) = [i \in 1..k |-> word[i]]
      BY <3>4, <3>5
    <3> QED BY <3>2, <3>3, <3>6
  <2> HIDE DEF Begin
  <2> QED BY <2>1, <2>6, <2>7
<1>14. l \in S
  <2>1. l \in 0..l
    OBVIOUS
  <2> HIDE DEF S
  <2>2. 0..l \subseteq S
    BY <1>12, <1>13, UpTo
  <2> QED BY <2>1, <2>2
<1>15. word = Begin(l)
  BY <1>1 DEF Digits
<1> HIDE DEF Begin
<1> QED BY <1>3, <1>10, <1>11, <1>14, <1>15

(* The codec: a word that fits is found again from its residue.            *)
LEMMA WordReturns ==
    ASSUME NEW word, Digits(word), IsWord(word), Fits(word)
    PROVE  QuadraticResidueToWriteIn(WriteInToQuadraticResidue(word)) = word
<1>1. PICK x \in 1..Q : x = WriteInToInteger(word)
  BY WordOfInteger
<1>2. CanonicalRoot(PowMod(x, 2)) = x
  BY RootOfSquare
<1>3. IntegerToWriteIn(x) = word
  BY <1>1, WordOfInteger
<1> QED BY <1>1, <1>2, <1>3 DEF QuadraticResidueToWriteIn, WriteInToQuadraticResidue

HIDE GroupAssumption
HIDE CodecAssumption

-----------------------------------------------------------------------------
(* The round trip of a vote.                                               *)

(* A set closed under having the same class: as much of S as of B is in it *)
(* if that holds for every class.                                          *)
Closed(U, class) == \A i \in U : \A k \in DOMAIN class : class[k] = class[i] => k \in U
InClass(S, i, class) == {k \in S : class[k] = class[i]}
Balanced(S, B, class) ==
    \A i \in DOMAIN class :
      Cardinality(InClass(S, i, class)) = Cardinality(InClass(B, i, class))

LEMMA BalancedOnClosed ==
    ASSUME NEW n \in Nat, NEW class, DOMAIN class = 1..n,
           NEW S \in SUBSET (1..n), NEW B \in SUBSET (1..n), Balanced(S, B, class),
           NEW V \in SUBSET (1..n), Closed(V, class)
    PROVE  Cardinality(S \cap V) = Cardinality(B \cap V)
<1> DEFINE M == {m \in 0..n : \A U \in SUBSET (1..n) :
                   Closed(U, class) /\ Cardinality(U) <= m
                     => Cardinality(S \cap U) = Cardinality(B \cap U)}
<1>1. IsFiniteSet(1..n) /\ Cardinality(1..n) = n
  BY FS_Interval
<1>2. \A U \in SUBSET (1..n) : IsFiniteSet(U) /\ Cardinality(U) \in Nat /\ Cardinality(U) <= n
  BY <1>1, FS_Subset, FS_CardinalityType
<1>3. 0 \in M
  <2> SUFFICES ASSUME NEW U \in SUBSET (1..n), Cardinality(U) <= 0
               PROVE  Cardinality(S \cap U) = Cardinality(B \cap U)
    OBVIOUS
  <2>1. Cardinality(U) = 0
    BY <1>2
  <2>2. U = {}
    BY <1>2, <2>1, FS_EmptySet
  <2>3. S \cap U = B \cap U
    BY <2>2
  <2> QED BY <2>3
<1>4. ASSUME NEW m \in 1..n, m - 1 \in M
      PROVE  m \in M
  <2> SUFFICES ASSUME NEW U \in SUBSET (1..n), Closed(U, class), Cardinality(U) <= m, U # {}
               PROVE  Cardinality(S \cap U) = Cardinality(B \cap U)
    <3>1. S \cap {} = B \cap {}
      OBVIOUS
    <3> QED BY <3>1
  <2>1. PICK i \in U : TRUE
    OBVIOUS
  <2> DEFINE K == InClass(1..n, i, class)
             R == U \ K
  <2>2. K \in SUBSET U /\ i \in K /\ i \in 1..n
    BY <2>1 DEF InClass, Closed
  <2>3. Closed(R, class)
    BY DEF Closed, InClass
  <2>4. \A T \in SUBSET (1..n) :
          Cardinality(T \cap U) = Cardinality(T \cap R) + Cardinality(InClass(T, i, class))
    <3> TAKE T \in SUBSET (1..n)
    <3>1. /\ T \cap U = (T \cap R) \cup InClass(T, i, class)
          /\ (T \cap R) \cap InClass(T, i, class) = {}
      BY <2>2 DEF InClass
    <3>2. T \cap R \in SUBSET (1..n) /\ InClass(T, i, class) \in SUBSET (1..n)
      BY DEF InClass
    <3>3. IsFiniteSet(T \cap R) /\ IsFiniteSet(InClass(T, i, class))
      BY <1>2, <3>2
    <3> HIDE DEF R
    <3>4. Cardinality((T \cap R) \cup InClass(T, i, class))
            = Cardinality(T \cap R) + Cardinality(InClass(T, i, class))
              - Cardinality((T \cap R) \cap InClass(T, i, class))
      BY <3>3, FS_Union
    <3>5. Cardinality((T \cap R) \cap InClass(T, i, class)) = 0
      BY <3>1, FS_EmptySet
    <3>6. Cardinality(T \cap R) \in Nat /\ Cardinality(InClass(T, i, class)) \in Nat
      BY <1>2, <3>2
    <3>7. PICK a \in Nat, b \in Nat : a = Cardinality(T \cap R) /\ b = Cardinality(InClass(T, i, class))
      BY <3>6
    <3>8. Cardinality(T \cap U) = a + b - 0
      BY <3>1, <3>4, <3>5, <3>7
    <3> QED BY <3>7, <3>8
  <2>5. Cardinality(R) <= m - 1
    <3>1. R \in SUBSET (U \ {i}) /\ U \ {i} \in SUBSET (1..n)
      BY <2>2
    <3>2. Cardinality(R) <= Cardinality(U \ {i}) /\ Cardinality(R) \in Nat
      BY <1>2, <3>1, FS_Subset
    <3>3. Cardinality(U \ {i}) = Cardinality(U) - 1
      BY <1>2, <2>1, FS_RemoveElement
    <3>4. Cardinality(U) \in Nat
      BY <1>2
    <3> QED BY <3>2, <3>3, <3>4
  <2>6. Cardinality(S \cap R) = Cardinality(B \cap R)
    <3>1. R \in SUBSET (1..n)
      OBVIOUS
    <3> HIDE DEF R
    <3> QED BY <1>4, <2>3, <2>5, <3>1
  <2>7. Cardinality(InClass(S, i, class)) = Cardinality(InClass(B, i, class))
    BY <2>2 DEF Balanced
  <2> HIDE DEF R
  <2> QED BY <2>4, <2>6, <2>7
<1>5. n \in M
  <2>1. n \in 0..n
    OBVIOUS
  <2> HIDE DEF M
  <2>2. 0..n \subseteq M
    BY <1>3, <1>4, UpTo
  <2> QED BY <2>1, <2>2
<1> QED BY <1>2, <1>5

(* Classes that stand together: the k-th of S is not in an earlier class   *)
(* than the k-th of B.                                                     *)
Together(class) ==
    \A i, k, l \in DOMAIN class : i < k /\ k < l /\ class[i] = class[l] => class[k] = class[i]

LEMMA NoEarlierClass ==
    ASSUME NEW n \in Nat, NEW class, DOMAIN class = 1..n, Together(class),
           NEW S \in SUBSET (1..n), NEW B \in SUBSET (1..n), Balanced(S, B, class),
           NEW i \in S, NEW j \in B, i < j,
           Cardinality({k \in S : k < i}) = Cardinality({k \in B : k < j})
    PROVE  class[i] = class[j]
<1> SUFFICES ASSUME class[i] # class[j] PROVE FALSE
  OBVIOUS
<1> DEFINE U == {x \in 1..n : x <= i \/ class[x] = class[i]}
           Low == {k \in S : k < i}
           Lower == {k \in B : k < j}
<1>1. i \in 1..n /\ j \in 1..n
  OBVIOUS
<1>2. Closed(U, class)
  <2> SUFFICES ASSUME NEW x \in U, NEW y \in 1..n, class[y] = class[x]
               PROVE  y <= i \/ class[y] = class[i]
    BY DEF Closed
  <2>1. CASE class[x] = class[i]
    BY <2>1
  <2>2. CASE x < i /\ i < y
    BY <1>1, <2>2 DEF Together
  <2> QED BY <1>1, <2>1, <2>2
<1>3. U \in SUBSET (1..n)
  OBVIOUS
<1> HIDE DEF U
<1>4. Cardinality(S \cap U) = Cardinality(B \cap U)
  BY <1>2, <1>3, BalancedOnClosed
<1>5. \A T \in SUBSET (1..n) : IsFiniteSet(T) /\ Cardinality(T) \in Nat
  <2>1. IsFiniteSet(1..n)
    BY FS_Interval
  <2> QED BY <2>1, FS_Subset, FS_CardinalityType
<1>6. Low \cup {i} \in SUBSET (S \cap U) /\ i \notin Low /\ Low \in SUBSET (1..n)
  <2>1. \A x \in Low : x \in S /\ x \in 1..n /\ x < i /\ x <= i
    BY <1>1
  <2>2. i <= i /\ ~(i < i)
    BY <1>1
  <2>3. i \in U /\ \A x \in Low : x \in U
    BY <1>1, <2>1, <2>2 DEF U
  <2> QED BY <2>1, <2>2, <2>3
<1>7. B \cap U \in SUBSET Lower /\ Lower \in SUBSET (1..n)
  <2>1. ASSUME NEW x \in B, x \in U
        PROVE  x < j
    <3>1. CASE x <= i
      BY <1>1, <3>1
    <3>2. CASE class[x] = class[i] /\ j < x
      BY <1>1, <3>2 DEF Together
    <3>3. CASE x = j
      BY <1>1, <2>1, <3>3 DEF U
    <3>4. x <= i \/ class[x] = class[i]
      BY <2>1 DEF U
    <3> QED BY <1>1, <3>1, <3>2, <3>3, <3>4
  <2> QED BY <2>1
<1>8. Cardinality(Low) = Cardinality(Lower)
  OBVIOUS
<1> HIDE DEF Low, Lower
<1>9. Cardinality(Low \cup {i}) = Cardinality(Low) + 1
  BY <1>5, <1>6, FS_AddElement
<1>10. S \cap U \in SUBSET (1..n) /\ B \cap U \in SUBSET (1..n)
  OBVIOUS
<1>11. Cardinality(Low \cup {i}) <= Cardinality(S \cap U)
  BY <1>5, <1>6, <1>10, FS_Subset
<1>12. Cardinality(B \cap U) <= Cardinality(Lower)
  BY <1>5, <1>7, FS_Subset
<1>13. PICK a \in Nat, b \in Nat : a = Cardinality(Low) /\ b = Cardinality(S \cap U)
  BY <1>5, <1>6, <1>10
<1>14. a + 1 <= b /\ b <= a
  BY <1>4, <1>8, <1>9, <1>11, <1>12, <1>13
<1> QED BY <1>14

(* The k-th of S and the k-th of B are of the same class, and there are    *)
(* equally many.                                                           *)
LEMMA SameClasses ==
    ASSUME NEW n \in Nat, NEW class, DOMAIN class = 1..n, Together(class),
           NEW S \in SUBSET (1..n), NEW B \in SUBSET (1..n), Balanced(S, B, class)
    PROVE  /\ Cardinality(S) = Cardinality(B)
           /\ \A k \in 1..Cardinality(S) : class[Ascending(S)[k]] = class[Ascending(B)[k]]
<1>1. IsFiniteSet(1..n)
  BY FS_Interval
<1>2. S \subseteq Nat /\ B \subseteq Nat /\ IsFiniteSet(S) /\ IsFiniteSet(B)
  <2>1. S \subseteq Nat /\ B \subseteq Nat
    OBVIOUS
  <2>2. PICK I : I = 1..n
    OBVIOUS
  <2>3. IsFiniteSet(S) /\ IsFiniteSet(B)
    BY <1>1, <2>2, FS_Subset
  <2> QED BY <2>1, <2>3
<1>3. Cardinality(S) = Cardinality(B)
  <2>1. 1..n \in SUBSET (1..n) /\ Closed(1..n, class)
    BY DEF Closed
  <2>2. Cardinality(S \cap (1..n)) = Cardinality(B \cap (1..n))
    BY <2>1, BalancedOnClosed
  <2>3. S \cap (1..n) = S /\ B \cap (1..n) = B
    OBVIOUS
  <2> QED BY <2>2, <2>3
<1>4. Balanced(B, S, class)
  BY DEF Balanced
<1>5. ASSUME NEW k \in 1..Cardinality(S)
      PROVE  class[Ascending(S)[k]] = class[Ascending(B)[k]]
  <2>1. PICK i \in S : i = Ascending(S)[k] /\ Cardinality({l \in S : l < i}) = k - 1
    <3>1. PICK places : places = 1..Cardinality(S)
      OBVIOUS
    <3>2. Ascending(S) \in Bijection(places, S)
      BY <1>2, <3>1, AscendingLists
    <3>3. Ascending(S) \in [places -> S]
      BY <3>2, Fun_BijectionProperties
    <3>4. Ascending(S)[k] \in S
      BY <3>1, <3>3
    <3>5. Cardinality({l \in S : l < Ascending(S)[k]}) = k - 1
      BY <1>2, AscendingLists
    <3> QED BY <3>4, <3>5
  <2>2. PICK j \in B : j = Ascending(B)[k] /\ Cardinality({l \in B : l < j}) = k - 1
    <3>1. PICK places : places = 1..Cardinality(B)
      OBVIOUS
    <3>2. Ascending(B) \in Bijection(places, B)
      BY <1>2, <3>1, AscendingLists
    <3>3. Ascending(B) \in [places -> B]
      BY <3>2, Fun_BijectionProperties
    <3>4. Ascending(B)[k] \in B
      BY <1>3, <3>1, <3>3
    <3>5. Cardinality({l \in B : l < Ascending(B)[k]}) = k - 1
      BY <1>2, <1>3, AscendingLists
    <3> QED BY <3>4, <3>5
  <2>3. i \in 1..n /\ j \in 1..n
    OBVIOUS
  <2>4. CASE i < j
    BY <2>1, <2>2, <2>4, NoEarlierClass
  <2>5. CASE j < i
    <3>1. class[j] = class[i]
      BY <1>4, <2>1, <2>2, <2>5, NoEarlierClass
    <3> QED BY <2>1, <2>2, <3>1
  <2>6. CASE i = j
    BY <2>1, <2>2, <2>6
  <2> QED BY <2>3, <2>4, <2>5, <2>6
<1> QED BY <1>3, <1>5

(* The options of a vote, in the order of the table.                       *)
Coded(S) == [k \in 1..Cardinality(S) |-> table[Ascending(S)[k]].enc]

LEMMA CodedPositive ==
    ASSUME IsTable(table), PrimeCodes, NEW S \in SUBSET DOMAIN table
    PROVE  /\ Len(Coded(S)) = Cardinality(S) /\ DOMAIN Coded(S) = 1..Cardinality(S)
           /\ Positive(Coded(S))
           /\ \A k \in 1..Cardinality(S) :
                Ascending(S)[k] \in S /\ Coded(S)[k] = table[Ascending(S)[k]].enc
           /\ \A i \in S : \E k \in 1..Cardinality(S) : Ascending(S)[k] = i
<1>1. /\ Cardinality(S) \in Nat
      /\ \A k \in 1..Cardinality(S) : Ascending(S)[k] \in S
      /\ \A i \in S : \E k \in 1..Cardinality(S) : Ascending(S)[k] = i
  BY PlacesListed
<1>2. PICK s \in Nat : s = Cardinality(S)
  BY <1>1
<1>3. \A k \in 1..s : table[Ascending(S)[k]].enc \in Nat \ {0}
  BY <1>1, <1>2 DEF IsTable
<1>4. Coded(S) = [k \in 1..s |-> table[Ascending(S)[k]].enc]
  BY <1>2 DEF Coded
<1>5. /\ Coded(S) \in Seq(Nat \ {0}) /\ Len(Coded(S)) = s /\ DOMAIN Coded(S) = 1..s
      /\ \A k \in 1..s : Coded(S)[k] = table[Ascending(S)[k]].enc
  BY <1>3, <1>4
<1>6. Positive(Coded(S))
  BY <1>3, <1>5 DEF Positive
<1> QED BY <1>1, <1>2, <1>5, <1>6

(* The product of different primes of the table has them as its factors.   *)
LEMMA CastFactors ==
    ASSUME IsTable(table), Distinct, PrimeCodes, NEW S \in SUBSET DOMAIN table
    PROVE  Dividing(ProductOf(Coded(S))) = S /\ Factors(ProductOf(Coded(S))) = Coded(S)
<1> DEFINE list == Coded(S)
           s == Cardinality(S)
<1>1. /\ Len(list) = s /\ DOMAIN list = 1..s /\ Positive(list)
      /\ \A k \in 1..s : Ascending(S)[k] \in S /\ list[k] = table[Ascending(S)[k]].enc
      /\ \A i \in S : \E k \in 1..s : Ascending(S)[k] = i
  BY CodedPositive
<1> HIDE DEF list, s
<1>2. PICK v \in Nat \ {0} : v = ProductOf(list) /\ v = Product(list, 1..s)
  <2>1. ProductOf(list) = Product(list, 1..s)
    BY <1>1 DEF ProductOf
  <2>2. Product(list, 1..s) \in Nat \ {0}
    BY <1>1, ProductPositive
  <2> QED BY <2>1, <2>2
<1>3. ASSUME NEW i \in S
      PROVE  v % table[i].enc = 0
  <2>1. PICK k \in 1..s : Ascending(S)[k] = i /\ list[k] = table[i].enc
    BY <1>1
  <2>2. PICK e \in Nat \ {0}, u \in Nat : e = table[i].enc /\ u = Product(list, (1..s) \ {k})
    <3>1. table[i].enc \in Nat \ {0}
      BY DEF IsTable
    <3>2. Product(list, (1..s) \ {k}) \in Nat
      BY <1>1, ProductPositive
    <3> QED BY <3>1, <3>2
  <2>3. v = u * e
    <3>1. ((1..s) \ {k}) \cup {k} = 1..s /\ k \notin (1..s) \ {k} /\ k \in 1..Len(list)
      BY <1>1
    <3>2. PICK R : R = (1..s) \ {k}
      OBVIOUS
    <3>3. Product(list, R \cup {k}) = Product(list, R) * list[k]
      <4>1. Positive(list) /\ k \in 1..Len(list) /\ k \notin R
        BY <1>1, <3>1, <3>2
      <4> QED BY <4>1, OneMoreFactor
    <3> QED BY <1>2, <2>1, <2>2, <3>1, <3>2, <3>3
  <2>4. (u * e + 0) % e = 0
    <3>1. 0 \in 0..(e - 1)
      OBVIOUS
    <3> QED BY <3>1, DivMod
  <2>5. u * e + 0 = u * e
    OBVIOUS
  <2> QED BY <2>2, <2>3, <2>4, <2>5
<1>4. ASSUME NEW i \in DOMAIN table, v % table[i].enc = 0
      PROVE  i \in S
  <2>1. PICK e \in Nat \ {0} : e = table[i].enc /\ IsPrime(e) /\ e # 1
    BY DEF IsTable, PrimeCodes
  <2>2. Divides(e, v)
    BY <1>4, <2>1, NoRemainder
  <2>3. PICK k \in (1..s) \cap (1..Len(list)) : Divides(e, list[k])
    <3>1. Divides(e, Product(list, 1..s))
      BY <1>2, <2>2
    <3> QED BY <1>1, <2>1, <3>1, PrimeOfProduct
  <2>4. PICK j \in S : j = Ascending(S)[k] /\ list[k] = table[j].enc
    BY <1>1, <2>3
  <2>5. PICK d \in Nat \ {0} : d = table[j].enc /\ IsPrime(d)
    BY <2>4 DEF IsTable, PrimeCodes
  <2>6. e = 1 \/ e = d
    BY <2>1, <2>3, <2>4, <2>5, DivisorsOfPrime
  <2>7. table[i].enc = table[j].enc /\ j \in DOMAIN table
    BY <2>1, <2>5, <2>6
  <2>8. i = j
    BY <2>7 DEF Distinct
  <2> QED BY <2>8
<1>5. Dividing(v) = S
  BY <1>3, <1>4 DEF Dividing
<1>6. Factors(v) = list
  <2>1. /\ DOMAIN Factors(v) = 1..s
        /\ \A k \in 1..s : Factors(v)[k] = table[Ascending(S)[k]].enc
        /\ Factors(v) \in Seq({table[i].enc : i \in DOMAIN table})
    BY <1>5, FactorsListed DEF s
  <2>2. Factors(v) = [k \in 1..s |-> Factors(v)[k]]
    BY <2>1
  <2>3. list = [k \in 1..s |-> table[Ascending(S)[k]].enc]
    BY DEF list, Coded, s
  <2> QED BY <2>1, <2>2, <2>3
<1> QED BY <1>2, <1>5, <1>6 DEF list

(* The words of a vote are encoded as numbers.                             *)
LEMMA WordsCoded ==
    ASSUME IsTable(table), NEW S \in SUBSET DOMAIN table, NEW words \in Writings(table, S)
    PROVE  /\ Len(words) = Cardinality(S \cap WriteInPlaces(table))
           /\ DOMAIN words = 1..Cardinality(S \cap WriteInPlaces(table))
           /\ Cardinality(WriteInPlaces(table)) \in Nat
           /\ Cardinality(S \cap WriteInPlaces(table)) \in Nat
           /\ Cardinality(S \cap WriteInPlaces(table)) <= Cardinality(WriteInPlaces(table))
           /\ EncodeWriteIns(words, Cardinality(WriteInPlaces(table))) \in Seq(Nat)
           /\ Len(EncodeWriteIns(words, Cardinality(WriteInPlaces(table))))
                = Cardinality(WriteInPlaces(table))
           /\ \A k \in 1..Len(words) :
                QuadraticResidueToWriteIn(
                  EncodeWriteIns(words, Cardinality(WriteInPlaces(table)))[k]) = words[k]
<1> DEFINE W == WriteInPlaces(table)
<1>1. W \in SUBSET DOMAIN table /\ S \cap W \in SUBSET W /\ S \cap W \in SUBSET DOMAIN table
  BY DEF WriteInPlaces
<1> HIDE DEF W
<1>2. IsFiniteSet(W) /\ Cardinality(W) \in Nat /\ Cardinality(S \cap W) \in Nat
  BY <1>1, PlacesListed
<1>3. Cardinality(S \cap W) <= Cardinality(W)
  BY <1>1, <1>2, FS_Subset
<1>4. PICK w \in Nat, l \in Nat : w = Cardinality(W) /\ l = Cardinality(S \cap W) /\ l <= w
  BY <1>2, <1>3
<1>5. words \in [1..l -> Words]
  BY <1>4 DEF Writings, W
<1>6. words \in Seq(Words) /\ Len(words) = l /\ DOMAIN words = 1..l /\ \A k \in 1..l : words[k] \in Words
  BY <1>5
<1>7. \A word \in Words : /\ WriteInToQuadraticResidue(word) \in Nat
                          /\ QuadraticResidueToWriteIn(WriteInToQuadraticResidue(word)) = word
  <2> TAKE word \in Words
  <2>1. Digits(word) /\ IsWord(word) /\ Fits(word)
    BY WordsAssumption DEF Digits
  <2>2. WriteInToInteger(word) \in Nat
    BY <2>1, WordOfInteger
  <2>3. 2 \in Nat
    OBVIOUS
  <2>4. PowMod(WriteInToInteger(word), 2) \in Nat
    BY <2>2, <2>3, PowNext
  <2> QED BY <2>1, <2>4, WordReturns DEF WriteInToQuadraticResidue
<1> DEFINE E == EncodeWriteIns(words, w)
<1>8. E = [k \in 1..w |-> IF k <= l THEN WriteInToQuadraticResidue(words[k]) ELSE 1]
  BY <1>6 DEF EncodeWriteIns
<1> HIDE DEF E
<1>9. \A k \in 1..w : k <= l => k \in 1..l
  BY <1>4
<1>10. E \in Seq(Nat) /\ Len(E) = w
  <2>1. \A k \in 1..w : (IF k <= l THEN WriteInToQuadraticResidue(words[k]) ELSE 1) \in Nat
    BY <1>6, <1>7, <1>9
  <2> QED BY <1>8, <2>1
<1>11. \A k \in 1..l : QuadraticResidueToWriteIn(E[k]) = words[k]
  <2> TAKE k \in 1..l
  <2>1. k \in 1..w /\ k <= l
    BY <1>4
  <2>2. E[k] = WriteInToQuadraticResidue(words[k])
    BY <1>8, <2>1
  <2> QED BY <1>6, <1>7, <2>2
<1> QED BY <1>4, <1>6, <1>10, <1>11 DEF W, E

(* The parts of an encoded vote.                                           *)
LEMMA VoteCoded ==
    ASSUME IsTable(table), PrimeCodes, NEW S \in SUBSET DOMAIN table,
           NEW words \in Writings(table, S), NEW row, row = EncodeVote(table, S, words)
    PROVE  /\ row[1] = ProductOf(Coded(S))
           /\ row \in Seq(Nat) /\ Len(row) = Delta
           /\ Tail(row) = EncodeWriteIns(words, Cardinality(WriteInPlaces(table)))
<1> DEFINE w == Cardinality(WriteInPlaces(table))
           E == EncodeWriteIns(words, w)
<1>1. w \in Nat /\ E \in Seq(Nat) /\ Len(E) = w
  BY WordsCoded
<1>2. DOMAIN Ascending(S) = 1..Cardinality(S)
  BY DEF Ascending
<1>3. row = <<ProductOf(Coded(S))>> \o E
  BY <1>2, Zenon DEF EncodeVote, Coded
<1>4. ProductOf(Coded(S)) \in Nat
  <2>1. Positive(Coded(S))
    BY CodedPositive
  <2> QED BY <2>1, ProductPositive DEF ProductOf
<1>5. Delta = w + 1
  BY DEF Delta, OfKind, WriteInPlaces
<1> HIDE DEF E, w
<1>6. PICK v \in Nat : v = ProductOf(Coded(S))
  BY <1>4
<1>7. row = <<v>> \o E
  BY <1>3, <1>6
<1>8. row \in Seq(Nat) /\ Len(row) = w + 1 /\ row[1] = v
  BY <1>1, <1>7
<1>9. Tail(row) = E
  BY <1>1, <1>7
<1> QED BY <1>5, <1>6, <1>8, <1>9 DEF E, w

(* As many factors are write-in options as were selected.                  *)
LEMMA SelectedCounted ==
    ASSUME IsTable(table), Distinct, PrimeCodes, NEW S \in SUBSET DOMAIN table
    PROVE  Cardinality(SelectedWriteIns(Coded(S))) = Cardinality(S \cap WriteInPlaces(table))
<1> DEFINE A == SelectedWriteIns(Coded(S))
           B == S \cap WriteInPlaces(table)
<1>1. PICK places : places = 1..Cardinality(S)
  OBVIOUS
<1>2. /\ DOMAIN Coded(S) = places
      /\ \A k \in places : Ascending(S)[k] \in S /\ Coded(S)[k] = table[Ascending(S)[k]].enc
  BY <1>1, CodedPositive
<1>3. Ascending(S) \in Bijection(places, S) /\ IsFiniteSet(places)
  <2>1. Ascending(S) \in Bijection(1..Cardinality(S), S) /\ Cardinality(S) \in Nat
    BY PlacesListed
  <2>2. \A m \in Nat : IsFiniteSet(1..m)
    BY FS_Interval
  <2> QED BY <1>1, <2>1, <2>2
<1>4. A \subseteq places /\ B \subseteq S
  BY <1>2 DEF SelectedWriteIns
<1>5. ASSUME NEW k \in places
      PROVE  k \in A <=> Ascending(S)[k] \in B
  <2>1. PICK i \in DOMAIN table : i = Ascending(S)[k] /\ i \in S /\ Coded(S)[k] = table[i].enc
    BY <1>2
  <2>2. k \in A <=> \E j \in DOMAIN table : table[j].kind = "WRITE_IN" /\ table[i].enc = table[j].enc
    BY <1>2, <2>1 DEF SelectedWriteIns, WriteInOptions, OfKind
  <2>3. \A j \in DOMAIN table : table[i].enc = table[j].enc => i = j
    BY DEF Distinct
  <2>4. k \in A <=> table[i].kind = "WRITE_IN"
    BY <2>2, <2>3
  <2>5. i \in B <=> table[i].kind = "WRITE_IN"
    BY <2>1 DEF WriteInPlaces
  <2> QED BY <2>1, <2>4, <2>5
<1> HIDE DEF A, B
<1>6. Cardinality(A) = Cardinality(B)
  BY <1>3, <1>4, <1>5, SameCount
<1> QED BY <1>6 DEF A, B

(* What is published of an encoded vote is what was selected and written.  *)
LEMMA CastDecodes ==
    ASSUME IsTable(table), Distinct, PrimeCodes, NEW S \in SUBSET DOMAIN table,
           NEW words \in Writings(table, S), NEW row, row = EncodeVote(table, S, words)
    PROVE  /\ ActualOptions(Factors(row[1]))
                = [k \in 1..Cardinality(S) |-> table[Ascending(S)[k]].actual]
           /\ DecodeWriteIns(Factors(row[1]), Tail(row)) = [k \in DOMAIN words |-> Cut(words[k])]
<1>1. Factors(row[1]) = Coded(S)
  BY VoteCoded, CastFactors
<1>2. ActualOptions(Coded(S)) = [k \in 1..Cardinality(S) |-> table[Ascending(S)[k]].actual]
  <2>1. PICK places : places = 1..Cardinality(S)
    OBVIOUS
  <2>2. /\ DOMAIN Coded(S) = places
        /\ \A k \in places : Ascending(S)[k] \in S /\ Coded(S)[k] = table[Ascending(S)[k]].enc
    BY <2>1, CodedPositive
  <2>3. ActualOptions(Coded(S)) = [k \in places |-> ActualOf(Coded(S)[k])]
    BY <2>2 DEF ActualOptions
  <2>4. \A k \in places : ActualOf(Coded(S)[k]) = table[Ascending(S)[k]].actual
    BY <2>2, OwnEntry
  <2> QED BY <2>1, <2>3, <2>4
<1>3. DecodeWriteIns(Coded(S), Tail(row)) = [k \in DOMAIN words |-> Cut(words[k])]
  <2> DEFINE w == Cardinality(WriteInPlaces(table))
             E == EncodeWriteIns(words, w)
             l == Len(words)
  <2>1. /\ w \in Nat /\ l \in Nat /\ l <= w /\ DOMAIN words = 1..l
        /\ E \in Seq(Nat) /\ Len(E) = w
        /\ \A k \in 1..l : QuadraticResidueToWriteIn(E[k]) = words[k]
    BY WordsCoded
  <2>2. Cardinality(SelectedWriteIns(Coded(S))) = l
    BY SelectedCounted, WordsCoded
  <2>3. Tail(row) = E
    BY VoteCoded
  <2> HIDE DEF w, E, l
  <2>4. DecodeWriteIns(Coded(S), E)
          = IF E = <<>> THEN <<>> ELSE [k \in 1..l |-> Cut(QuadraticResidueToWriteIn(E[k]))]
    BY <2>2, Zenon DEF DecodeWriteIns
  <2>5. [k \in 1..l |-> Cut(QuadraticResidueToWriteIn(E[k]))] = [k \in DOMAIN words |-> Cut(words[k])]
    BY <2>1
  <2>6. CASE E = <<>>
    <3>1. 1..l = {}
      BY <2>1, <2>6
    <3>2. [k \in DOMAIN words |-> Cut(words[k])] = <<>>
      BY <2>1, <3>1
    <3> QED BY <2>3, <2>4, <2>6, <3>2
  <2>7. CASE E # <<>>
    BY <2>3, <2>4, <2>5, <2>7
  <2> QED BY <2>6, <2>7
<1> QED BY <1>1, <1>2, <1>3

(* No check of the loop fails for an encoded vote.                         *)
LEMMA CastPasses ==
    ASSUME IsTable(table), Distinct, PrimeCodes, Contiguous, NEW S \in Selections(table),
           NEW words \in Writings(table, S), NEW row, row = EncodeVote(table, S, words)
    PROVE  Problem(row) = "none"
<1> DEFINE B == OfKind("BLANK")
           class == [i \in DOMAIN table |-> table[i].corr]
<1>1. S \in SUBSET DOMAIN table /\ B \in SUBSET DOMAIN table
  BY KindListed DEF Selections
<1>2. /\ row[1] = ProductOf(Coded(S)) /\ row \in Seq(Nat) /\ Len(row) = Delta
      /\ Factors(row[1]) = Coded(S)
  BY <1>1, VoteCoded, CastFactors
<1>3. Balanced(S, B, class)
  <2>1. ASSUME NEW i \in DOMAIN table
        PROVE  Cardinality(InClass(S, i, class)) = Cardinality(InClass(B, i, class))
    <3>1. InClass(S, i, class) = {k \in S : table[k].corr = table[i].corr}
      BY <1>1 DEF InClass
    <3>2. InClass(B, i, class) = {k \in DOMAIN table : table[k].kind = "BLANK" /\ table[k].corr = table[i].corr}
      BY DEF InClass, OfKind
    <3>3. Cardinality({k \in S : table[k].corr = table[i].corr})
            = Cardinality({k \in DOMAIN table : table[k].kind = "BLANK" /\ table[k].corr = table[i].corr})
      BY DEF Selections
    <3> QED BY <3>1, <3>2, <3>3
  <2> HIDE DEF B
  <2> QED BY <2>1 DEF Balanced
<1>4. Together(class)
  BY DEF Together, Contiguous
<1>5. PICK n \in Nat : DOMAIN table = 1..n
  BY DEF IsTable
<1>6. /\ Cardinality(S) = Cardinality(B)
      /\ \A k \in 1..Cardinality(S) : class[Ascending(S)[k]] = class[Ascending(B)[k]]
  <2>1. DOMAIN class = 1..n /\ S \in SUBSET (1..n) /\ B \in SUBSET (1..n)
    BY <1>1, <1>5
  <2> HIDE DEF class, B
  <2> QED BY <1>3, <1>4, <2>1, SameClasses
<1>7. PICK places : places = 1..Cardinality(S) /\ places = 1..Cardinality(B)
  BY <1>6
<1>8. /\ DOMAIN Coded(S) = places /\ Len(Coded(S)) = Cardinality(S)
      /\ \A k \in places : Ascending(S)[k] \in S /\ Coded(S)[k] = table[Ascending(S)[k]].enc
  BY <1>1, <1>7, CodedPositive
<1>9. \A k \in places : Ascending(B)[k] \in B
  <2> HIDE DEF B
  <2> QED BY <1>1, <1>7, PlacesListed
<1>10. Factorizes(row[1])
  BY <1>2, <1>6, <1>8 DEF Factorizes, Psi
<1>11. CorrectnessInformation(ActualOptions(Coded(S))) = [k \in places |-> table[Ascending(S)[k]].corr]
  <2>1. ActualOptions(Coded(S)) = [k \in places |-> ActualOf(Coded(S)[k])]
    BY <1>8 DEF ActualOptions
  <2>2. \A k \in places : ActualOf(Coded(S)[k]) = table[Ascending(S)[k]].actual
    BY <1>1, <1>8, OwnEntry
  <2>3. PICK actuals : actuals = ActualOptions(Coded(S))
    OBVIOUS
  <2>4. DOMAIN actuals = places /\ \A k \in places : actuals[k] = table[Ascending(S)[k]].actual
    BY <2>1, <2>2, <2>3
  <2>5. CorrectnessInformation(actuals) = [k \in places |-> CorrectnessOf(actuals[k])]
    BY <2>4 DEF CorrectnessInformation
  <2>6. \A k \in places : CorrectnessOf(actuals[k]) = table[Ascending(S)[k]].corr
    BY <1>1, <1>8, <2>4, OwnEntry
  <2> QED BY <2>3, <2>5, <2>6
<1>12. BlankCorrectness = [k \in places |-> table[Ascending(B)[k]].corr]
  <2> DEFINE blanks == Kept(table, B)
  <2>1. BlankCorrectness = [k \in DOMAIN blanks |-> blanks[k].corr]
    BY DEF BlankCorrectness
  <2>2. blanks = [k \in places |-> table[Ascending(B)[k]]]
    BY <1>7 DEF Kept
  <2>3. DOMAIN blanks = places /\ \A k \in places : blanks[k] = table[Ascending(B)[k]]
    BY <2>2
  <2> HIDE DEF blanks
  <2> QED BY <2>1, <2>3
<1>13. \A k \in places : table[Ascending(S)[k]].corr = table[Ascending(B)[k]].corr
  <2>1. \A k \in places : Ascending(S)[k] \in DOMAIN table /\ Ascending(B)[k] \in DOMAIN table
    BY <1>1, <1>8, <1>9
  <2> QED BY <1>6, <1>7, <2>1
<1>14. CorrectnessInformation(ActualOptions(Factors(row[1]))) = BlankCorrectness
  BY <1>2, <1>11, <1>12, <1>13
<1>15. ~NotEnoughWriteIns(Factors(row[1]), Tail(row))
  BY <1>2, PlacesSuffice
<1> QED BY <1>2, <1>10, <1>14, <1>15 DEF Problem

-----------------------------------------------------------------------------
(* The run.                                                                *)

(* The write-ins of a vote are those of the plaintext it comes from.       *)
WrittenEach ==
    /\ \E T : writeIns \in Seq(T)
    /\ Len(writeIns) = Cardinality(CastPlaces)
    /\ \A n \in 1..Cardinality(CastPlaces) : \A row :
         row = rows[Ascending(CastPlaces)[n]]
           => writeIns[n] = DecodeWriteIns(Factors(row[1]), Tail(row))

HonestBox ==
    /\ Distinct /\ PrimeCodes /\ Contiguous
    /\ Len(rows) >= 2 /\ Psi > 0 /\ \A k \in DOMAIN rows : IsCast(rows[k])

(* The inductive invariant of the round trip, on top of PlaintextInv.      *)
CastInv == WrittenEach /\ (HonestBox => status \notin Errors)

LEMMA SameBox ==
    ASSUME UNCHANGED <<table, rows>>
    PROVE  /\ HonestBox' = HonestBox
           /\ \A row : DecodeWriteIns(Factors(row[1]), Tail(row))'
                         = DecodeWriteIns(Factors(row[1]), Tail(row))
<1>1. \A row : Factors(row[1])' = Factors(row[1])
  BY Zenon DEF Factors, Dividing
<1>2. \A encs : SelectedWriteIns(encs)' = SelectedWriteIns(encs)
  BY DEF SelectedWriteIns, WriteInOptions, OfKind
<1>3. \A row : DecodeWriteIns(Factors(row[1]), Tail(row))'
                 = DecodeWriteIns(Factors(row[1]), Tail(row))
  BY <1>1, <1>2 DEF DecodeWriteIns
<1>4. /\ Distinct' = Distinct /\ PrimeCodes' = PrimeCodes /\ Contiguous' = Contiguous
      /\ Psi' = Psi /\ Ones' = Ones
  BY DEF Distinct, PrimeCodes, Contiguous, Psi, Ones, Delta, OfKind
<1>5. \A row : IsCast(row)' = IsCast(row)
  BY <1>4 DEF IsCast
<1>6. HonestBox' = HonestBox
  BY <1>4, <1>5 DEF HonestBox
<1> QED BY <1>3, <1>6

LEMMA InitOfCast == Init => CastInv
<1> SUFFICES ASSUME Init PROVE CastInv
  OBVIOUS
<1>1. CastPlaces = {}
  BY DEF CastPlaces, Init
<1>2. Cardinality(CastPlaces) = 0
  BY <1>1, FS_EmptySet
<1> QED BY <1>2 DEF CastInv, WrittenEach, Init, Errors

LEMMA SameWritten ==
    ASSUME CastInv, UNCHANGED <<table, rows, writeIns>>, CastPlaces' = CastPlaces
    PROVE  WrittenEach'
<1>1. /\ Cardinality(CastPlaces)' = Cardinality(CastPlaces)
      /\ Ascending(CastPlaces)' = Ascending(CastPlaces)
  OBVIOUS
<1> QED BY <1>1, SameBox DEF CastInv, WrittenEach

LEMMA CastStep ==
    ASSUME PlaintextInv, CastInv, [Next]_vars
    PROVE  CastInv'
<1>1. ASSUME UNCHANGED <<table, rows, next, writeIns>>
      PROVE  WrittenEach'
  <2>1. CastPlaces' = CastPlaces
    BY <1>1, Zenon DEF CastPlaces, Ones, Delta, OfKind
  <2> QED BY <1>1, <2>1, SameWritten
<1>2. CASE Refuse
  <2>1. UNCHANGED <<table, rows, next, writeIns>> /\ Unfit
    BY <1>2 DEF Refuse, Raise
  <2>2. ~HonestBox
    <3>1. Len(rows) \in Nat
      BY DEF PlaintextInv, PlaintextTypes
    <3>2. Psi = 0 => ~(Psi > 0)
      OBVIOUS
    <3> QED BY <2>1, <3>1, <3>2 DEF HonestBox, Unfit
  <2> QED BY <1>1, <2>1, <2>2, SameBox DEF CastInv
<1>3. CASE RejectVote
  <2>1. /\ UNCHANGED <<table, rows, next, writeIns>>
        /\ next <= Len(rows) /\ Problem(Row) # "none"
        /\ ~(Len(Row) = Delta /\ IsPadding(Row))
    BY <1>3 DEF RejectVote, Raise, Looping
  <2>2. IsTable(table) /\ next \in DOMAIN rows
    BY <2>1 DEF PlaintextInv, PlaintextTypes
  <2>3. ~HonestBox
    <3> SUFFICES ASSUME HonestBox PROVE FALSE
      OBVIOUS
    <3>1. IsCast(Row) /\ Distinct /\ PrimeCodes /\ Contiguous
      BY <2>2 DEF HonestBox, Row
    <3>2. CASE Row = Ones
      <4>1. Len(Ones) = Delta
        <5>1. OfKind("WRITE_IN") \in SUBSET DOMAIN table
          BY KindListed
        <5>2. Cardinality(OfKind("WRITE_IN")) \in Nat
          BY <2>2, <5>1, PlacesListed
        <5>3. Delta \in Nat
          BY <5>2 DEF Delta
        <5> QED BY <5>3 DEF Ones
      <4> QED BY <2>1, <3>2, <4>1 DEF IsPadding
    <3>3. CASE \E S \in Selections(table) : \E words \in Writings(table, S) :
                 Row = EncodeVote(table, S, words)
      BY <2>1, <2>2, <3>1, <3>3, CastPasses
    <3> QED BY <3>1, <3>2, <3>3 DEF IsCast
  <2> QED BY <1>1, <2>1, <2>3, SameBox DEF CastInv
<1>4. CASE SkipPadding
  <2>1. /\ UNCHANGED <<table, rows, writeIns, status>>
        /\ next' = next + 1 /\ next <= Len(rows) /\ rows[next] = Ones
    BY <1>4 DEF SkipPadding, Looping, Row, IsPadding
  <2>2. CastPlaces' = CastPlaces
    BY <2>1, PassedAfter DEF PlaintextInv
  <2> QED BY <2>1, <2>2, SameWritten, SameBox DEF CastInv
<1>5. CASE DecodeVote
  <2> DEFINE c == Cardinality(CastPlaces)
             list == DecodeWriteIns(Factors(Row[1]), Tail(Row))
  <2>1. /\ UNCHANGED <<table, rows, status>>
        /\ next' = next + 1 /\ next <= Len(rows)
        /\ Problem(Row) = "none" /\ ~(Len(Row) = Delta /\ IsPadding(Row))
        /\ writeIns' = Append(writeIns, list)
    BY <1>5 DEF DecodeVote, Looping
  <2>2. Row # Ones
    BY <2>1 DEF Problem, IsPadding
  <2> HIDE DEF list
  <2>3. PICK T : writeIns \in Seq(T)
    BY DEF CastInv, WrittenEach
  <2>4. CastPlaces' = CastPlaces \cup {next}
    BY <2>1, <2>2, PassedAfter DEF PlaintextInv, Row
  <2>5. /\ CastPlaces \subseteq Nat /\ IsFiniteSet(CastPlaces) /\ c \in Nat
        /\ \A k \in CastPlaces : k < next
    BY PassedBefore DEF PlaintextInv
  <2>6. /\ Cardinality(CastPlaces') = c + 1
        /\ \A i \in 1..c : Ascending(CastPlaces')[i] = Ascending(CastPlaces)[i]
        /\ Ascending(CastPlaces')[c + 1] = next
    <3>1. next \in Nat
      BY DEF PlaintextInv, PlaintextTypes
    <3> QED BY <2>4, <2>5, <3>1, AscendingAppends
  <2>7. /\ Len(writeIns) = c
        /\ \A n \in 1..c : \A row : row = rows[Ascending(CastPlaces)[n]]
             => writeIns[n] = DecodeWriteIns(Factors(row[1]), Tail(row))
    BY DEF CastInv, WrittenEach
  <2> HIDE DEF c
  <2>8. /\ writeIns' \in Seq(T \cup {list}) /\ Len(writeIns') = c + 1 /\ writeIns'[c + 1] = list
        /\ \A n \in 1..c : writeIns'[n] = writeIns[n]
    <3>1. writeIns \in Seq(T \cup {list}) /\ list \in T \cup {list}
      BY <2>3
    <3> QED BY <2>1, <2>5, <2>7, <3>1
  <2>9. ASSUME NEW n \in 1..(c + 1), NEW row, row = rows[Ascending(CastPlaces')[n]]
        PROVE  writeIns'[n] = DecodeWriteIns(Factors(row[1]), Tail(row))
    <3>1. CASE n = c + 1
      BY <2>6, <2>8, <2>9, <3>1 DEF list, Row
    <3>2. CASE n \in 1..c
      BY <2>6, <2>7, <2>8, <2>9, <3>2
    <3> QED BY <2>5, <3>1, <3>2
  <2>10. WrittenEach'
    <3>1. Cardinality(CastPlaces)' = c + 1 /\ Ascending(CastPlaces)' = Ascending(CastPlaces')
      BY <2>6
    <3>2. \E X : writeIns' \in Seq(X)
      BY <2>8
    <3>3. \A n \in 1..(c + 1) : \A row : row = rows'[Ascending(CastPlaces)'[n]]
            => writeIns'[n] = DecodeWriteIns(Factors(row[1]), Tail(row))'
      <4>1. \A row : DecodeWriteIns(Factors(row[1]), Tail(row))'
                       = DecodeWriteIns(Factors(row[1]), Tail(row))
        BY <2>1, SameBox
      <4> QED BY <2>1, <2>9, <3>1, <4>1
    <3> QED BY <2>8, <3>1, <3>2, <3>3 DEF WrittenEach
  <2> QED BY <2>1, <2>10, SameBox DEF CastInv
<1>6. CASE Return \/ UNCHANGED vars
  <2>1. UNCHANGED <<table, rows, next, writeIns>> /\ (status' = status \/ status' = "returned")
    BY <1>6 DEF Return, vars
  <2>2. status \notin Errors => status' \notin Errors
    BY <2>1 DEF Errors
  <2>3. WrittenEach' /\ HonestBox' = HonestBox
    BY <1>1, <2>1, SameBox
  <2> QED BY <2>2, <2>3 DEF CastInv, Errors
<1> QED BY <1>2, <1>3, <1>4, <1>5, <1>6 DEF Next

LEMMA TripFromInv == PlaintextInv /\ CastInv => RoundTrip
<1> SUFFICES ASSUME PlaintextInv, CastInv, Distinct, PrimeCodes, Contiguous
             PROVE  /\ \A n \in DOMAIN votes : \A S \in Selections(table) :
                         \A words \in Writings(table, S) :
                           CastRows[n] = EncodeVote(table, S, words) => Published(n, S, words)
                    /\ (Len(rows) >= 2 /\ Psi > 0 /\ \A k \in DOMAIN rows : IsCast(rows[k]))
                         => status \notin Errors
  BY DEF RoundTrip
<1>1. (Len(rows) >= 2 /\ Psi > 0 /\ \A k \in DOMAIN rows : IsCast(rows[k])) => status \notin Errors
  BY DEF CastInv, HonestBox
<1>2. ASSUME NEW n \in DOMAIN votes, NEW S \in Selections(table), NEW words \in Writings(table, S),
             CastRows[n] = EncodeVote(table, S, words)
      PROVE  Published(n, S, words)
  <2> DEFINE c == Cardinality(CastPlaces)
  <2>1. IsTable(table) /\ votes \in Seq(Seq(Encs)) /\ Len(votes) = c
    BY DEF PlaintextInv, PlaintextTypes, OneVoteEach
  <2>2. n \in 1..c
    BY <2>1
  <2>3. CastRows[n] = rows[Ascending(CastPlaces)[n]]
    BY <2>2 DEF CastRows, CastPlaces, Kept
  <2>4. PICK row, vote, actuals :
          row = rows[Ascending(CastPlaces)[n]] /\ vote = votes[n] /\ actuals = decoded[n]
    OBVIOUS
  <2>5. StandsFor(row, vote, actuals)
    BY <2>2, <2>4 DEF PlaintextInv, OneVoteEach
  <2>6. decoded[n] = ActualOptions(Factors(row[1]))
    BY <2>4, <2>5 DEF StandsFor
  <2>7. writeIns[n] = DecodeWriteIns(Factors(row[1]), Tail(row))
    BY <2>2, <2>4 DEF CastInv, WrittenEach
  <2>8. S \in SUBSET DOMAIN table /\ row = EncodeVote(table, S, words)
    BY <1>2, <2>3, <2>4 DEF Selections
  <2>9. /\ decoded[n] = [k \in 1..Cardinality(S) |-> table[Ascending(S)[k]].actual]
        /\ writeIns[n] = [k \in DOMAIN words |-> Cut(words[k])]
    BY <2>1, <2>6, <2>7, <2>8, CastDecodes
  <2> QED BY <2>9 DEF Published
<1> QED BY <1>1, <1>2

(* Round trip (RoundTrip): with a table of distinct primes whose questions *)
(* stand together, what a voter selected and wrote, coded as the voting    *)
(* client codes it, is what is published for the vote; and a ballot box of *)
(* encoded votes and padding raises no error.                              *)
THEOREM VotesReturn == Spec => []RoundTrip
<1>1. Init => CastInv
  BY InitOfCast
<1>2. PlaintextInv /\ CastInv /\ [Next]_vars => CastInv'
  BY CastStep
<1>3. PlaintextInv /\ CastInv => RoundTrip
  BY TripFromInv
<1> QED BY <1>1, <1>2, <1>3, PlaintextInvariant, PTL DEF Spec
=============================================================================
