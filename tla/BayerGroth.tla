----------------------------- MODULE BayerGroth -----------------------------
(***************************************************************************)
(* verify_shuffle_argument (mixnet.py): the statements it makes of a       *)
(* shuffle, and the order in which verify_product_argument and             *)
(* verify_multi_exponentiation_argument are carried out.  The challenges   *)
(* are hashes: any numbers, drawn after what is hashed.                    *)
(***************************************************************************)
EXTENDS SubArguments

CONSTANTS Challenges,         \* bound of the model: the challenges drawn
          Shuffles,           \* records with fields ciphertexts and shuffled
          Argument(_, _, _)   \* a part of the argument for a shuffle, given the challenges so far

ASSUME ChallengesAssumption == Challenges \subseteq 0..(Q - 1)

VARIABLES shuffle, ch, productOk, multiOk, pc

vars == <<shuffle, ch, productOk, multiOk, pc>>

-----------------------------------------------------------------------------
(* verify_shuffle_argument.                                                *)

Count == Len(shuffle.ciphertexts)
M == Rows(Count)
Columns == Count \div M
Arg(part) == Argument(shuffle, ch, part)

ProductStatement ==
    [cA |-> [i \in 1..M |-> FactorCommitment(Arg("cA")[i], Arg("cB")[i], Columns, ch.y, ch.z)],
     b |-> ProductValue(Count, ch.x, ch.y, ch.z)]
MultiStatement ==
    [matrix |-> ToMatrix(shuffle.shuffled, M),
     product |-> Combine(shuffle.ciphertexts, Powers(ch.x, Count)),
     cA |-> Arg("cB")]

FormOk ==
    /\ shuffle.ciphertexts # <<>> /\ Len(shuffle.shuffled) = Count
    /\ Columns <= Nu
    /\ Len(Arg("cA")) = M /\ Len(Arg("cB")) = M
    /\ LET width == Width(shuffle.ciphertexts[1])
       IN  /\ Len(Pk) >= width
           /\ \A i \in 1..Count :
                DOMAIN shuffle.ciphertexts[i] = 0..width /\ DOMAIN shuffle.shuffled[i] = 0..width

Init ==
    /\ shuffle \in Shuffles
    /\ ch = [name \in {"x", "y", "z", "hx", "hy", "zero", "svp", "multi"} |-> 0]
    /\ productOk = FALSE /\ multiOk = FALSE
    /\ pc = "shuffle"

(* matrix_dimensions raises for a single ciphertext; the caller catches it. *)
Single == Count = 1 /\ Len(shuffle.shuffled) = Count
DimensionsRaise ==
    /\ pc = "shuffle" /\ Single
    /\ pc' = "crashed"
    /\ UNCHANGED <<shuffle, ch, productOk, multiOk>>

(* derive_shuffle_challenges, in the order in which they can be known.     *)
Refuse ==
    /\ pc = "shuffle" /\ ~Single /\ ~FormOk
    /\ pc' = "done"
    /\ UNCHANGED <<shuffle, ch, productOk, multiOk>>
DeriveX ==
    /\ pc = "shuffle" /\ ~Single /\ FormOk
    /\ \E x \in Challenges : ch' = [ch EXCEPT !.x = x]
    /\ pc' = "permutation"
    /\ UNCHANGED <<shuffle, productOk, multiOk>>

(* verify_product_argument: with one row there is nothing to multiply      *)
(* place by place.                                                         *)
ProductStep == IF M = 1 THEN "svp" ELSE "hadamard"
DeriveYZ ==
    /\ pc = "permutation"
    /\ \E y, z \in Challenges : ch' = [ch EXCEPT !.y = y, !.z = z]
    /\ pc' = ProductStep
    /\ UNCHANGED <<shuffle, productOk, multiOk>>

Hadamard == VerifyHadamard([cA |-> ProductStatement.cA, cB |-> Arg("product cB")], Arg("hadamard"))
VerifyHadamardFails ==
    /\ pc = "hadamard" /\ ~Hadamard
    /\ pc' = "multi"
    /\ UNCHANGED <<shuffle, ch, productOk, multiOk>>
DeriveHadamard ==
    /\ pc = "hadamard" /\ Hadamard
    /\ \E x, y \in Challenges : ch' = [ch EXCEPT !.hx = x, !.hy = y]
    /\ pc' = "zero"
    /\ UNCHANGED <<shuffle, productOk, multiOk>>

Zero(x) ==
    LET argument == Argument(shuffle, [ch EXCEPT !.zero = x], "hadamard")
        statement == [cA |-> ProductStatement.cA, cB |-> Arg("product cB")]
    IN  VerifyZero(HadamardStatement(statement, argument, ch.hx, ch.hy), argument.zero, x)
VerifyZeroArgument ==
    /\ pc = "zero"
    /\ \E x \in Challenges :
         /\ ch' = [ch EXCEPT !.zero = x]
         /\ pc' = IF Zero(x) THEN "svp" ELSE "multi"
    /\ UNCHANGED <<shuffle, productOk, multiOk>>

Svp(x) ==
    VerifySvp([cA |-> IF M = 1 THEN ProductStatement.cA[1] ELSE Arg("product cB"), b |-> ProductStatement.b],
              Argument(shuffle, [ch EXCEPT !.svp = x], "svp"), x)
VerifySvpArgument ==
    /\ pc = "svp" /\ pc' = "multi"
    /\ \E x \in Challenges : ch' = [ch EXCEPT !.svp = x] /\ productOk' = Svp(x)
    /\ UNCHANGED <<shuffle, multiOk>>

VerifyMultiArgument ==
    /\ pc = "multi" /\ pc' = "done"
    /\ \E x \in Challenges :
         /\ ch' = [ch EXCEPT !.multi = x]
         /\ multiOk' = VerifyMulti(MultiStatement, Argument(shuffle, [ch EXCEPT !.multi = x], "multi"), x)
    /\ UNCHANGED <<shuffle, productOk>>

Next ==
    \/ DimensionsRaise \/ Refuse \/ DeriveX \/ DeriveYZ \/ VerifyHadamardFails \/ DeriveHadamard
    \/ VerifyZeroArgument \/ VerifySvpArgument \/ VerifyMultiArgument

Spec == Init /\ [][Next]_vars

Accepted == pc = "done" /\ productOk /\ multiOk
=============================================================================
