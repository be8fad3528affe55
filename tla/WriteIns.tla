------------------------------ MODULE WriteIns ------------------------------
(***************************************************************************)
(* The write-in codec (write_ins.py).  A word is a sequence of ranks in an *)
(* alphabet of Base characters (141 of them in A_latin), read as a number  *)
(* whose first digit is not 0; the number is squared modulo the safe prime *)
(* P = 2Q + 1 to get an element of the group.                              *)
(***************************************************************************)
EXTENDS Numbers

CONSTANTS P, Q, Base, MaxLength

ASSUME GroupAssumption == Q \in Nat \ {0} /\ P = 2 * Q + 1 /\ IsPrime(P) /\ P % 4 = 3
ASSUME CodecAssumption == Base \in Nat \ {0, 1} /\ MaxLength \in Nat \ {0}

(* pow(value, exponent, P).                                                *)
PowMod(value, exponent) ==
    LET pow[e \in 0..exponent] == IF e = 0 THEN 1 ELSE (pow[e - 1] * value) % P
    IN  pow[exponent]

(* write_in_to_integer raises unless the word is a number in the alphabet  *)
(* that is small enough for its square root to be found again.             *)
IsWord(word) == word # <<>> /\ word[1] # 0 /\ \A i \in DOMAIN word : word[i] \in 0..(Base - 1)
Fits(word) ==
    LET power[k \in 0..(Len(word) + 1)] == IF k = 0 THEN 1 ELSE power[k - 1] * Base
    IN  power[Len(word) + 1] < Q

WriteInToInteger(word) ==
    LET number[n \in 0..Len(word)] == IF n = 0 THEN 0 ELSE number[n - 1] * Base + word[n]
    IN  number[Len(word)]

WriteInToQuadraticResidue(word) == PowMod(WriteInToInteger(word), 2)

(* integer_to_write_in of a positive number.                               *)
IntegerToWriteIn(number) ==
    LET word[n \in 0..number] == IF n = 0 THEN <<>> ELSE Append(word[n \div Base], n % Base)
    IN  word[number]

(* A mistake: the root that comes first is taken as it is.                 *)
AnyRoot(value) == PowMod(value, (P + 1) \div 4)

(* The root of a quadratic residue that is at most Q.                      *)
CanonicalRoot(value) ==
    LET root == PowMod(value, (P + 1) \div 4)
    IN  IF root > Q THEN P - root ELSE root

QuadraticResidueToWriteIn(value) == IntegerToWriteIn(CanonicalRoot(value))

(* encode_write_ins of words that are no more than the places there are:   *)
(* the free places hold ones.                                              *)
EncodeWriteIns(words, places) ==
    [k \in 1..places |->
       IF k <= Len(words) THEN WriteInToQuadraticResidue(words[k]) ELSE 1]
=============================================================================
