---------------------------- MODULE SubArguments ----------------------------
(***************************************************************************)
(* The verifiers of the arguments that a shuffle argument is made of       *)
(* (mixnet.py): zero, single-value product, Hadamard and multi-            *)
(* exponentiation.                                                         *)
(*                                                                         *)
(* Group elements are written with their logarithms, numbers modulo Q, so  *)
(* that a product is a sum and a power a multiple.  A ciphertext is the    *)
(* function <<gamma, phis>> on 0..w.  A commitment is the vector of its    *)
(* exponents of h, g_1, .., g_Nu: these are taken to be independent, which *)
(* is what makes commitments binding.  Every value is in range.            *)
(***************************************************************************)
EXTENDS Group, SequencesExt

CONSTANTS Q, Nu, Pk   \* order of the group, generators, logarithms of the public key

ASSUME GroupAssumption == Q \in Nat \ {0, 1} /\ Nu \in Nat \ {0} /\ Pk \in Seq(0..(Q - 1))

-----------------------------------------------------------------------------
(* Commitments and ciphertexts.                                            *)

Power(x, n) == PowMod(x, n, Q)
Powers(x, n) == [k \in 1..n |-> Power(x, k - 1)]

(* The product of powers of commitments, or of ciphertexts.                *)
Combine(elements, exponents) ==
    [k \in DOMAIN elements[1] |->
       FoldLeftDomain(LAMBDA sum, i : (sum + exponents[i] * elements[i][k]) % Q, 0, elements)]
Width(ciphertext) == Cardinality(DOMAIN ciphertext) - 1
Neutral(width) == [k \in 0..width |-> 0]

(* get_commitment.                                                         *)
Commit(values, randomness) ==
    [k \in 0..Nu |-> (IF k = 0 THEN randomness ELSE IF k <= Len(values) THEN values[k] ELSE 0) % Q]

(* _encrypt_constant_message of g to the power b.                          *)
EncryptConstant(b, randomness, width) ==
    [k \in 0..width |-> IF k = 0 THEN randomness ELSE (b + Pk[k] * randomness) % Q]

(* star_map.                                                               *)
StarMap(y, a, b) ==
    FoldLeftDomain(LAMBDA sum, i : (sum + a[i] * b[i] * Power(y, i)) % Q, 0, a)

(* matrix_dimensions, and to_matrix.                                       *)
Rows(count) ==
    CHOOSE m \in 1..count :
      /\ count % m = 0 /\ m * m <= count
      /\ \A k \in (m + 1)..count : count % k = 0 => k * k > count
ToMatrix(s, m) == [i \in 1..m |-> SubSeq(s, (i - 1) * (Len(s) \div m) + 1, i * (Len(s) \div m))]

-----------------------------------------------------------------------------
(* The arguments.  s is the statement, a the argument, x a challenge.      *)

(* verify_zero_argument: a_1 * b_0 + .. + a_m * b_(m-1) = 0.               *)
(* A mistake: the middle of the commitments is not looked at.              *)
ZeroFormOk(s, a) ==
    /\ s.cA # <<>> /\ Len(s.cB) = Len(s.cA)
    /\ Len(a.cD) = 2 * Len(s.cA) + 1
    /\ Len(a.b) = Len(a.a) /\ Len(a.a) \in 1..Nu
ZeroEquationsOk(s, a, x) ==
    LET m == Len(s.cA)
    IN  /\ Combine(<<a.cA0>> \o s.cA, Powers(x, m + 1)) = Commit(a.a, a.r)
        /\ Combine(Reverse(Append(s.cB, a.cBm)), Powers(x, m + 1)) = Commit(a.b, a.s)
        /\ Combine(a.cD, Powers(x, 2 * m + 1)) = Commit(<<StarMap(s.y, a.a, a.b)>>, a.t)
VerifyZero(s, a, x) ==
    /\ ZeroFormOk(s, a)
    /\ a.cD[Len(s.cA) + 2] = Neutral(Nu)
    /\ ZeroEquationsOk(s, a, x)

(* verify_single_value_product_argument: a_1 * .. * a_n = b.  A mistake:   *)
(* the last of the partial products is not looked at.                      *)
SvpFormOk(a) == Len(a.a) \in 2..Nu /\ Len(a.b) = Len(a.a)
SvpEquationsOk(s, a, x) ==
    LET e == [k \in 1..(Len(a.a) - 1) |-> (x * a.b[k + 1] - a.b[k] * a.a[k + 1]) % Q]
    IN  /\ Combine(<<a.cD, s.cA>>, <<1, x>>) = Commit(a.a, a.r)
        /\ Combine(<<a.cLower, a.cUpper>>, <<1, x>>) = Commit(e, a.s)
        /\ a.b[1] = a.a[1]
VerifySvpAnyProduct(s, a, x) == SvpFormOk(a) /\ SvpEquationsOk(s, a, x)
VerifySvp(s, a, x) ==
    /\ SvpFormOk(a) /\ SvpEquationsOk(s, a, x)
    /\ a.b[Len(a.b)] = (x * s.b) % Q

(* verify_hadamard_argument: b is the product, place by place, of the      *)
(* columns.  What it has to show is in one statement for a zero argument.  *)
HadamardStatement(s, a, x, y) ==
    LET m == Len(s.cA)
    IN  [cA |-> Append(Tail(s.cA), Commit([k \in DOMAIN a.zero.a |-> Q - 1], 0)),
         cB |-> Append([k \in 1..(m - 1) |-> Combine(<<a.cUpperB[k]>>, <<Power(x, k)>>)],
                       Combine(Tail(a.cUpperB), Tail(Powers(x, m)))),
         y |-> y]
VerifyHadamard(s, a) ==
    /\ Len(s.cA) >= 2 /\ Len(a.cUpperB) = Len(s.cA)
    /\ Len(a.zero.a) \in 1..Nu
    /\ a.cUpperB[1] = s.cA[1]
    /\ a.cUpperB[Len(a.cUpperB)] = s.cB

(* verify_multi_exponentiation_argument: the product is that of the        *)
(* ciphertexts to the powers committed to, re-encrypted.  A mistake: the   *)
(* product is not looked at.                                               *)
MultiFormOk(s, a) ==
    LET m == Len(s.matrix)
        width == Width(s.product)
    IN  /\ Len(s.cA) = m /\ Len(a.cB) = 2 * m /\ Len(a.e) = 2 * m
        /\ Len(a.a) = Len(s.matrix[1]) /\ Len(a.a) <= Nu
        /\ Len(Pk) >= width
        /\ \A k \in 1..(2 * m) : DOMAIN a.e[k] = 0..width
MultiEquationsOk(s, a, x) ==
    LET m == Len(s.matrix)
        width == Width(s.product)
        row(i) == Combine(s.matrix[i], a.a)
    IN  /\ a.cB[m + 1] = Neutral(Nu)
        /\ Combine(<<a.cA0>> \o s.cA, Powers(x, m + 1)) = Commit(a.a, a.r)
        /\ Combine(a.cB, Powers(x, 2 * m)) = Commit(<<a.b>>, a.s)
        /\ Combine(a.e, Powers(x, 2 * m)) =
             Combine(<<EncryptConstant(a.b, a.tau, width)>> \o [i \in 1..m |-> row(i)],
                     <<1>> \o Reverse(Powers(x, m)))
VerifyMultiAnyProduct(s, a, x) == MultiFormOk(s, a) /\ MultiEquationsOk(s, a, x)
VerifyMulti(s, a, x) ==
    /\ MultiFormOk(s, a)
    /\ a.e[Len(s.matrix) + 1] = s.product
    /\ MultiEquationsOk(s, a, x)

(* What verify_shuffle_argument makes the product argument about:          *)
(* commitments to y * a_i + b_i - z, and the product that permuted places  *)
(* would give, _shuffle_product_value.  A mistake: places begin with 1.    *)
FactorCommitment(cA, cB, n, y, z) == Combine(<<cA, cB, Commit([k \in 1..n |-> -z], 0)>>, <<y, 1, 1>>)
ProductOver(places, x, y, z) ==
    FoldLeft(LAMBDA product, i : (product * ((y * i + Power(x, i) - z) % Q)) % Q, 1, places)
ProductValueFromOne(count, x, y, z) == ProductOver([i \in 1..count |-> i], x, y, z)
ProductValue(count, x, y, z) == ProductOver([i \in 1..count |-> i - 1], x, y, z)
=============================================================================
