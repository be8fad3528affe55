------------------------ MODULE CommitmentKey_proof -------------------------
(***************************************************************************)
(* Theorems about CommitmentKey.  The inductive invariant says of a run    *)
(* under way that the generators drawn so far are a key as it will be      *)
(* returned; that the loop is never stuck follows by counting.             *)
(***************************************************************************)
EXTENDS CommitmentKey, FiniteSetTheorems, TLAPS

Free == Squares \ {1, G}

DrawnInv ==
    /\ count = Len(values)
    /\ Drawn \subseteq Free
    /\ \A i, k \in DOMAIN values : values[i] = values[k] => i = k
    /\ status \in {"running", "returned"} => (0 < nu /\ nu <= Q - 3 /\ count <= nu + 1)
    /\ status = "refused" => (nu <= 0 \/ nu > Q - 3)
    /\ status = "returned" => count = nu + 1

IInv == TypeOK /\ DrawnInv

(* There are Q squares.                                                    *)
LEMMA SquaresCount == IsFiniteSet(Squares) /\ Cardinality(Squares) = Q
<1>1. IsFiniteSet(1..Q) /\ Cardinality(1..Q) = Q
  BY FS_Interval, GroupAssumption
<1>2. [u \in 1..Q |-> Square(u)] \in Bijection(1..Q, Squares)
  BY GroupAssumption DEF Bijection, Injection, Surjection, IsInjective, Squares
<1> QED
  BY <1>1, <1>2, FS_Bijection DEF ExistsBijection

(* Two of them are not for use as generators.                              *)
LEMMA FreeCount == IsFiniteSet(Free) /\ Cardinality(Free) = Q - 2
<1>1. 1 \in Squares
  BY GroupAssumption DEF Squares, Square
<1>2. IsFiniteSet(Squares \ {1}) /\ Cardinality(Squares \ {1}) = Q - 1
  BY <1>1, SquaresCount, FS_RemoveElement
<1>3. IsFiniteSet((Squares \ {1}) \ {G}) /\ Cardinality((Squares \ {1}) \ {G}) = Q - 2
  BY <1>2, GroupAssumption, FS_RemoveElement
<1>4. Free = (Squares \ {1}) \ {G}
  BY DEF Free
<1> QED  BY <1>3, <1>4

LEMMA Sorts ==
    ASSUME TypeOK
    PROVE  /\ values \in Seq(Squares) /\ Len(values) \in Nat
           /\ nu \in Nus /\ nu \in Int
           /\ Q \in Nat \ {0}
           /\ count \in Nat
           /\ index \in 0..MaxIndex
<1>1. values \in Seq(Squares) /\ nu \in Nus /\ count \in Nat /\ index \in 0..MaxIndex
  BY DEF TypeOK
<1>2. Len(values) \in Nat
  BY <1>1
<1>3. nu \in Int
  BY <1>1, SizesAssumption
<1>4. Q \in Nat \ {0}
  BY GroupAssumption
<1> QED  BY <1>1, <1>2, <1>3, <1>4

(* A sequence holds no more different elements than it is long.            *)
LEMMA DrawnCount ==
    ASSUME TypeOK
    PROVE  IsFiniteSet(Drawn) /\ Cardinality(Drawn) <= Len(values)
<1>2. values \in Seq(Squares) /\ Len(values) \in Nat
  BY Sorts
<1>1. values \in Surjection(1..Len(values), Drawn)
  BY <1>2 DEF Drawn, Surjection
<1>3. Cardinality(Drawn) <= Len(values)
  BY <1>1, <1>2, FS_SurjCardinalityBound DEF ExistsSurjection
<1>4. IsFiniteSet(Drawn)
  BY <1>1, <1>2, FS_NatSurjection DEF ExistsSurjection
<1> QED  BY <1>3, <1>4

LEMMA InitInv == Init => IInv
<1> SUFFICES ASSUME Init PROVE IInv
  OBVIOUS
<1>0. values = <<>> /\ index = 0 /\ count = 0 /\ nu \in Nus
  BY DEF Init
<1>1. nu \in Int
  BY <1>0, SizesAssumption
<1>2. TypeOK
  <2>1. values \in Seq(Squares) /\ index \in 0..MaxIndex /\ count \in Nat
    BY <1>0, SizesAssumption
  <2>2. status \in {"running", "returned", "refused"}
    BY DEF Init
  <2> QED  BY <1>0, <2>1, <2>2 DEF TypeOK
<1>3. DrawnInv
  <2>1. Drawn = {} /\ Len(values) = 0 /\ count = 0 /\ DOMAIN values = {}
    BY <1>0 DEF Drawn
  <2>2. Q \in Nat
    BY GroupAssumption
  <2>3. CASE InvalidSize(nu)
    <3>1. status = "refused"
      BY <2>3 DEF Init
    <3> QED  BY <1>1, <2>1, <2>2, <2>3, <3>1 DEF DrawnInv, InvalidSize
  <2>4. CASE ~InvalidSize(nu)
    <3>1. status = "running"
      BY <2>4 DEF Init
    <3> QED  BY <1>1, <2>1, <2>2, <2>4, <3>1 DEF DrawnInv, InvalidSize
  <2> QED  BY <2>3, <2>4
<1> QED  BY <1>2, <1>3 DEF IInv

LEMMA StepInv == IInv /\ [Next]_vars => IInv'
<1> SUFFICES ASSUME IInv, [Next]_vars PROVE IInv'
  OBVIOUS
<1> USE DEF IInv
<1>0. /\ nu \in Int /\ Q \in Nat /\ count \in Nat
      /\ values \in Seq(Squares) /\ Len(values) \in Nat
  BY Sorts
<1>1. CASE Turn
  <2> PICK u \in 1..Q : Accept(u) \/ Reject(u)
    BY <1>1 DEF Turn
  <2>1. CASE Accept(u)
    <3>1. Square(u) \in Free /\ Square(u) \notin Drawn
      BY <2>1 DEF Accept, Fresh, Free, Squares
    <3>2. values' = Append(values, Square(u)) /\ count' = count + 1
      BY <2>1 DEF Accept
    <3>3. /\ Len(values') = Len(values) + 1
          /\ DOMAIN values' = 1..(Len(values) + 1)
          /\ \A i \in DOMAIN values : values'[i] = values[i]
          /\ values'[Len(values) + 1] = Square(u)
      BY <1>0, <3>1, <3>2 DEF Free
    <3>4. TypeOK'
      <4>1. values' \in Seq(Squares)
        BY <1>0, <3>1, <3>2 DEF Free
      <4>2. index' \in 0..MaxIndex
        BY <1>1, SizesAssumption, Sorts DEF Turn
      <4>3. nu' \in Nus /\ status' \in {"running", "returned", "refused"}
        BY <1>1 DEF TypeOK, Turn
      <4>4. count' \in Nat
        BY <1>0, <3>2
      <4> QED  BY <4>1, <4>2, <4>3, <4>4 DEF TypeOK
    <3>a. /\ \A i \in DOMAIN values : values[i] \in Free
          /\ \A i, k \in DOMAIN values : values[i] = values[k] => i = k
          /\ \A i \in DOMAIN values : values[i] # Square(u)
          /\ DOMAIN values = 1..Len(values)
      <4>1. \A i \in DOMAIN values : values[i] \in Drawn
        BY Zenon DEF Drawn
      <4>2. Drawn \subseteq Free
        BY DEF DrawnInv
      <4>3. \A i, k \in DOMAIN values : values[i] = values[k] => i = k
        BY Zenon DEF DrawnInv
      <4>4. DOMAIN values = 1..Len(values)
        BY <1>0
      <4> QED  BY <3>1, <4>1, <4>2, <4>3, <4>4, Zenon
    <3>5. Drawn' \subseteq Free
      BY <1>0, <3>1, <3>3, <3>a DEF Drawn
    <3>6. \A i, k \in DOMAIN values' : values'[i] = values'[k] => i = k
      BY <1>0, <3>3, <3>a
    <3>7. nu' = nu /\ status' = status /\ status = "running" /\ count <= nu
      BY <1>1 DEF Turn
    <3>8. 0 < nu /\ nu <= Q - 3 /\ count = Len(values)
      BY <3>7 DEF DrawnInv
    <3>9. DrawnInv'
      BY <1>0, <3>2, <3>3, <3>5, <3>6, <3>7, <3>8 DEF DrawnInv
    <3> QED  BY <3>4, <3>9
  <2>2. CASE Reject(u)
    <3>1. TypeOK'
      BY <1>1, <2>2, SizesAssumption DEF TypeOK, Turn, Reject
    <3>2. DrawnInv'
      BY <1>1, <2>2 DEF DrawnInv, Drawn, Turn, Reject
    <3> QED  BY <3>1, <3>2
  <2> QED  BY <2>1, <2>2
<1>2. CASE Return
  <2>1. TypeOK'
    BY <1>2 DEF TypeOK, Return
  <2>2. DrawnInv'
    BY <1>0, <1>2 DEF DrawnInv, Drawn, TypeOK, Return
  <2> QED  BY <2>1, <2>2
<1>3. CASE UNCHANGED vars
  BY <1>3 DEF vars, TypeOK, DrawnInv, Drawn
<1> QED  BY <1>1, <1>2, <1>3 DEF Next

(* While a generator is asked for, fewer are drawn than there are free.    *)
LEMMA InvNeverStuck == IInv => NeverStuck
<1> SUFFICES ASSUME IInv, status = "running", count <= nu
             PROVE  \E u \in 1..Q : Fresh(Square(u))
  BY DEF NeverStuck
<1>1. IsFiniteSet(Drawn) /\ Cardinality(Drawn) <= count
  BY DrawnCount DEF IInv, DrawnInv
<1>2. Cardinality(Drawn) \in Nat
  BY <1>1, FS_CardinalityType
<1>3. nu \in Int /\ nu <= Q - 3 /\ Q \in Nat /\ count \in Nat
  BY Sorts DEF IInv, DrawnInv
<1>4. Cardinality(Drawn) < Cardinality(Free)
  BY <1>1, <1>2, <1>3, FreeCount
<1>5. Drawn \subseteq Free /\ Drawn # Free
  BY <1>2, <1>4 DEF IInv, DrawnInv
<1>6. PICK square \in Free : square \notin Drawn
  BY <1>5
<1>7. PICK u \in 1..Q : square = Square(u)
  BY <1>6 DEF Free, Squares
<1> QED  BY <1>6, <1>7 DEF Fresh, Free

LEMMA InvKeySound == IInv => KeySound
BY DEF IInv, DrawnInv, KeySound, Free

LEMMA InvRefuses == IInv => RefusesOnlyImpossible
<1> SUFFICES ASSUME IInv, status = "refused"
             PROVE  nu > 0 => Cardinality(Free) < nu + 1
  BY DEF RefusesOnlyImpossible, Free
<1>1. nu \in Int /\ Q \in Nat
  BY Sorts DEF IInv
<1>2. nu <= 0 \/ nu > Q - 3
  BY Zenon DEF IInv, DrawnInv
<1>3. nu > 0 => nu > Q - 3
  BY <1>1, <1>2
<1> QED  BY <1>1, <1>3, FreeCount

-----------------------------------------------------------------------------
(* The invariant holds in every reachable state.                           *)
THEOREM Inductive == Spec => []IInv
BY InitInv, StepInv, PTL DEF Spec

(* For every safe prime and every size: a key that is returned consists of *)
(* nu + 1 different generators of the group, none of them 1 or g.          *)
THEOREM KeysSound == Spec => []KeySound
BY Inductive, InvKeySound, PTL

(* The size limit q - 3 is the right one: within it the loop never runs    *)
(* out of generators, and no size is refused of which there is a key.      *)
THEOREM LimitIsRight == Spec => []LimitRight
BY Inductive, InvNeverStuck, InvRefuses, PTL DEF LimitRight
=============================================================================
