---------------------------- MODULE MCBayerGroth ----------------------------
(* Instances of BayerGroth for TLC: shuffles of one to nine ciphertexts,    *)
(* in matrices of one to three rows, by provers that permute and by provers *)
(* that do not; and arguments that do not fit.                              *)
EXTENDS BayerGrothProver

MCPk == <<4, 2>>
MCChallenges == {0, 3, 5}

Ciphertexts(count, width) ==
    [i \in 1..count |-> [k \in 0..width |-> (i * i + k) % Q]]
Shuffled(ciphertexts, perm, rho) ==
    [i \in DOMAIN perm |->
       Combine(<<ciphertexts[perm[i] + 1], EncryptConstant(0, rho[i], Width(ciphertexts[1]))>>, <<1, 1>>)]
ShuffleOf(width, perm, coin) ==
    LET ciphertexts == Ciphertexts(Len(perm), width)
        rho == [i \in DOMAIN perm |-> (coin + i) % Q]
    IN  [ciphertexts |-> ciphertexts, shuffled |-> Shuffled(ciphertexts, perm, rho),
         perm |-> perm, rho |-> rho, coin |-> coin, fit |-> "fits"]

Permutes(s) ==
    /\ ToSet(s.perm) = 0..(Size(s) - 1)
    /\ s.shuffled = Shuffled(s.ciphertexts, s.perm, s.rho)

Shuffles2 == {ShuffleOf(1, perm, coin) : perm \in [1..2 -> 0..1], coin \in {0, 1}}
Shuffles3 == {ShuffleOf(2, perm, 1) : perm \in {<<0, 1, 2>>, <<2, 0, 1>>, <<1, 1, 2>>}}
LargeShuffles == {ShuffleOf(1, <<2, 5, 0, 3, 1, 4>>, 3), ShuffleOf(1, <<8, 1, 0, 7, 2, 6, 3, 5, 4>>, 1)}
Shuffles4 == {ShuffleOf(1, perm, 2) : perm \in {<<2, 0, 3, 1>>, <<0, 1, 1, 3>>}}
Substituted(s) == [s EXCEPT !.shuffled[1] = [@ EXCEPT ![1] = (@ + 1) % Q]]
Replaced(s) == [s EXCEPT !.ciphertexts[2] = [@ EXCEPT ![0] = (@ + 1) % Q]]

Misfits == {"cA", "cB", "hadamard", "svp", "multi", "width", "shorter"}
Misfit(s, fit) ==
    CASE fit = "width" -> [s EXCEPT !.fit = fit, !.shuffled[1] = Neutral(Width(@) + 1)]
      [] fit = "shorter" -> [s EXCEPT !.fit = fit, !.shuffled = Tail(@)]
      [] OTHER -> [s EXCEPT !.fit = fit]

Wide ==
    [ShuffleOf(1, <<0, 1>>, 0) EXCEPT !.ciphertexts = Ciphertexts(2, 3), !.shuffled = Ciphertexts(2, 3)]

SomeShuffles ==
    UNION {Shuffles2, Shuffles3, Shuffles4, LargeShuffles}
      \cup {Substituted(ShuffleOf(1, <<1, 0>>, 1)), Replaced(ShuffleOf(2, <<0, 2, 1>>, 0))}
MCShuffles ==
    SomeShuffles \cup {ShuffleOf(1, <<0>>, 1), ShuffleOf(1, <<0, 1, 2, 3, 4>>, 0), Wide}
      \cup {Misfit(ShuffleOf(1, <<1, 0, 3, 2>>, 1), fit) : fit \in Misfits}

(* The argument, or one of which a part has another length.                *)
MCArgument(s, c, part) ==
    LET honest == Prove(s, c, part)
    IN  CASE part # s.fit -> honest
          [] part = "cA" -> Append(honest, Neutral(Nu))
          [] part = "cB" -> Tail(honest)
          [] part = "hadamard" -> [honest EXCEPT !.cUpperB = Append(@, Neutral(Nu))]
          [] part = "svp" -> [honest EXCEPT !.b = Append(@, 0)]
          [] part = "multi" -> [honest EXCEPT !.cB = Append(@, Neutral(Nu))]

-----------------------------------------------------------------------------
(* An honest prover convinces verify_shuffle_argument whatever the hashes  *)
(* are, 0 among them, for every shape of the matrices.                     *)
HonestProverAccepted ==
    (pc \in {"done", "crashed"} /\ shuffle \in SomeShuffles /\ Permutes(shuffle)) => Accepted

(* What is accepted of these provers, and all that is: the factors of the  *)
(* permutation and of the places have the same product for y and z, or the *)
(* challenge of the single-value product argument hides the difference;    *)
(* and the ciphertexts have the product at x that the shuffled ones have   *)
(* at the powers committed to, re-encrypted.                               *)
ProductsAgree ==
    \/ ch.svp = 0
    \/ ProductOver(shuffle.perm, ch.x, ch.y, ch.z)
         = ProductOver([i \in 1..Size(shuffle) |-> i - 1], ch.x, ch.y, ch.z)
ProductAt(element, exponents) ==
    FoldLeftDomain(LAMBDA sum, i : (sum + exponents[i] * element[i]) % Q, 0, element)
PowersAgree ==
    LET powers == [i \in 1..Size(shuffle) |-> Power(ch.x, shuffle.perm[i])]
        rho == ProductAt(shuffle.rho, powers)
    IN  \A k \in DOMAIN shuffle.ciphertexts[1] :
          ProductAt([i \in 1..Size(shuffle) |-> shuffle.ciphertexts[i][k]], Powers(ch.x, Size(shuffle)))
            = (ProductAt([i \in 1..Size(shuffle) |-> shuffle.shuffled[i][k]], powers)
                 - rho * (IF k = 0 THEN 1 ELSE Pk[k])) % Q
VerdictByAlgebra ==
    pc = "done" =>
      (Accepted <=> shuffle.fit = "fits" /\ FormOk /\ ProductsAgree /\ PowersAgree)
=============================================================================
