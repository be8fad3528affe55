--------------------------- MODULE MCSubArguments ---------------------------
(* Any prover of SubArguments for TLC.  The prover has committed (to the    *)
(* openings in conv, with randomness 0); it is challenged with one number   *)
(* after the other, from the same state, and hits counts the challenges it  *)
(* can answer.  The arguments with two challenges take every second one     *)
(* with each first one.  Sound means: a prover who answers more challenges  *)
(* than a polynomial of the argument's degree has roots has told the truth. *)
EXTENDS SubArguments

VARIABLES conv, tried, hits
vars == <<conv, tried, hits>>

Zq == 0..(Q - 1)
Vectors(n) == [1..n -> Zq]
CommitAll(openings) == [i \in DOMAIN openings |-> Commit(openings[i], 0)]
Open(commitment, n) == [k \in 1..n |-> commitment[k]]
MCPk == <<2>>

(* Zero: two products, of vectors of one.                                  *)
ZeroClaims ==
    {[kind |-> "zero", as |-> <<<<a0>>, <<1>>, <<a2>>>>, bs |-> <<<<1>>, <<b1>>, <<b2>>>>, ds |-> ds] :
       a0 \in {0, 2}, a2 \in {1, 2}, b1 \in {2, 3}, b2 \in {1, 3}, ds \in Vectors(5)}
ZeroTrue == StarMap(1, conv.as[2] \o conv.as[3], conv.bs[1] \o conv.bs[2]) = 0
ZeroAnswered(x) ==
    LET powers == Powers(x, 3)
    IN  VerifyZero([cA |-> CommitAll(Tail(conv.as)), cB |-> CommitAll(Front(conv.bs)), y |-> 1],
                   [cA0 |-> Commit(conv.as[1], 0), cBm |-> Commit(conv.bs[3], 0),
                    cD |-> [k \in 1..5 |-> Commit(<<conv.ds[k]>>, 0)],
                    a |-> Combine(conv.as, powers), b |-> Combine(conv.bs, Reverse(powers)),
                    r |-> 0, s |-> 0, t |-> 0], x)

(* Single-value product, of two values.                                    *)
SvpClaims ==
    {[kind |-> "svp", as |-> <<2, a2>>, product |-> product, ds |-> ds, lower |-> lower, upper |-> upper] :
       a2 \in {0, 3}, product \in {0, 1, 4}, ds \in Vectors(2), lower \in Zq, upper \in Zq}
SvpTrue == (conv.as[1] * conv.as[2]) % Q = conv.product
SvpAnswered(x) ==
    \E b \in Vectors(2) :
      VerifySvp([cA |-> Commit(conv.as, 0), b |-> conv.product],
                [cD |-> Commit(conv.ds, 0), cLower |-> Commit(<<conv.lower>>, 0),
                 cUpper |-> Commit(<<conv.upper>>, 0), a |-> Combine(<<conv.ds, conv.as>>, <<1, x>>),
                 b |-> b, r |-> 0, s |-> 0], x)

(* Multi-exponentiation, of two rows of one ciphertext.                    *)
Ciphertext(gamma, phi) == [k \in 0..1 |-> IF k = 0 THEN gamma ELSE phi]
MultiClaims ==
    {[kind |-> "multi", as |-> <<<<a0>>, <<1>>, <<3>>>>, bs |-> <<b, 1, 0, 2>>,
      es |-> [k \in 1..4 |-> Ciphertext(0, phis[k])], product |-> Ciphertext(0, phi)] :
       a0 \in {0, 2}, b \in {0, 3}, phis \in Vectors(4), phi \in {0, 4}}
Matrix == <<<<Ciphertext(1, 3)>>, <<Ciphertext(2, 2)>>>>
MultiTrue ==
    \E rho \in Zq :
      conv.product = Combine(<<EncryptConstant(0, rho, 1), Matrix[1][1], Matrix[2][1]>>,
                             <<1, conv.as[2][1], conv.as[3][1]>>)
MultiAnswered(x) ==
    \E tau \in Zq :
      VerifyMulti([matrix |-> Matrix, cA |-> CommitAll(Tail(conv.as)), product |-> conv.product],
                  [cA0 |-> Commit(conv.as[1], 0), cB |-> [k \in 1..4 |-> Commit(<<conv.bs[k]>>, 0)],
                   e |-> conv.es, a |-> Combine(conv.as, Powers(x, 3)), r |-> 0,
                   b |-> Combine([k \in 1..4 |-> <<conv.bs[k]>>], Powers(x, 4))[1], s |-> 0,
                   tau |-> tau], x)

(* Hadamard, of three rows of two values; what is left to show is the zero *)
(* argument's statement.                                                   *)
HadamardClaims ==
    {[kind |-> "hadamard", as |-> <<<<1, 2>>, <<3, a>>, <<2, 4>>>>, bs |-> <<<<1, 2>>, b2, b3>>] :
       a \in {0, 1}, b2 \in Vectors(2), b3 \in Vectors(2)}
HadamardTrue ==
    \A i \in {2, 3}, k \in {1, 2} : conv.bs[i][k] = (conv.bs[i - 1][k] * conv.as[i][k]) % Q
HadamardAnswered(x, y) ==
    LET s == [cA |-> CommitAll(conv.as), cB |-> Commit(conv.bs[3], 0)]
        a == [cUpperB |-> CommitAll(conv.bs), zero |-> [a |-> <<0, 0>>]]
        left == HadamardStatement(s, a, x, y)
    IN  /\ VerifyHadamard(s, a)
        /\ FoldLeft(LAMBDA sum, i : (sum + StarMap(y, Open(left.cA[i], 2), Open(left.cB[i], 2))) % Q,
                    0, <<1, 2, 3>>) = 0

(* Shuffle, of two ciphertexts: the numbers committed to are places and    *)
(* their powers of x.                                                      *)
PlacesClaims ==
    {[kind |-> "places", x |-> x, as |-> as, bs |-> bs] : x \in {0, 2, 3}, as \in Vectors(2), bs \in Vectors(2)}
PlacesTrue == {<<conv.as[i], conv.bs[i]>> : i \in {1, 2}} = {<<0, 1>>, <<1, conv.x>>}
PlacesAnswered(y, z) ==
    LET factors == Open(FactorCommitment(Commit(conv.as, 0), Commit(conv.bs, 0), 2, y, z), 2)
    IN  (factors[1] * factors[2]) % Q = ProductValue(2, conv.x, y, z)

-----------------------------------------------------------------------------
Init ==
    /\ \/ conv \in ZeroClaims \/ conv \in SvpClaims \/ conv \in MultiClaims
       \/ conv \in HadamardClaims \/ conv \in PlacesClaims
    /\ tried = 0 /\ hits = 0

Answered(x) ==
    CASE conv.kind = "zero" -> IF ZeroAnswered(x) THEN 1 ELSE 0
      [] conv.kind = "svp" -> IF SvpAnswered(x) THEN 1 ELSE 0
      [] conv.kind = "multi" -> IF MultiAnswered(x) THEN 1 ELSE 0
      [] conv.kind = "hadamard" -> Cardinality({y \in Zq : HadamardAnswered(x, y)})
      [] conv.kind = "places" -> Cardinality({z \in Zq : PlacesAnswered(x, z)})

Challenge ==
    /\ tried < Q
    /\ tried' = tried + 1
    /\ hits' = hits + Answered(tried)
    /\ UNCHANGED conv

Spec == Init /\ [][Challenge]_vars

-----------------------------------------------------------------------------
(* verify_zero_argument: more than 2m answers are given only if the sum of *)
(* the products is 0.                                                      *)
ZeroSound == conv.kind = "zero" => hits <= 4 \/ ZeroTrue
(* verify_single_value_product_argument: more than two answers are given   *)
(* only for the product of the values committed to.                        *)
SvpSound == conv.kind = "svp" => hits <= 2 \/ SvpTrue
(* verify_multi_exponentiation_argument: more than 2m - 1 answers are      *)
(* given only for the re-encrypted product of the ciphertexts, to the      *)
(* powers committed to.                                                    *)
MultiSound == conv.kind = "multi" => hits <= 3 \/ MultiTrue
(* verify_hadamard_argument: what is left to show is true by chance, of a  *)
(* degree of 2 in x and n = 2 in y, unless each of the b is the product of *)
(* the columns up to it.                                                   *)
HadamardSound == conv.kind = "hadamard" => hits <= 4 * Q \/ HadamardTrue
(* verify_shuffle_argument: the product that the places give is met by     *)
(* chance, of a degree of 2 in y and z, unless they are permuted and the   *)
(* powers with them.                                                       *)
PlacesSound == conv.kind = "places" => hits <= 2 * Q \/ PlacesTrue
=============================================================================
