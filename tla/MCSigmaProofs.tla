--------------------------- MODULE MCSigmaProofs ----------------------------
(* Any prover of SigmaProofs for TLC.  Its claim is a statement, true or    *)
(* not, and a first proof: what the verifier hashes for it is what the      *)
(* prover has committed to.  It is then challenged with every number in     *)
(* turn for the same commitment, and hits counts those it has an answer to. *)
EXTENDS SigmaProofs, FiniteSets

VARIABLES claim, tried, hits
vars == <<claim, tried, hits>>

G == [p |-> 11, q |-> 5, g |-> 4]   \* the group; its squares are 1, 3, 4, 5 and 9
Zq == 0..(G.q - 1)
Squares == {PowMod(G.g, n, G.p) : n \in Zq}
Power(base, n) == PowMod(base, n, G.p)
Times(a, b) == (a * b) % G.p
Cipher(gamma, phis) == [gamma |-> gamma, phis |-> phis]
Contexts == {<<"box1">>, <<"box2">>, <<>>}
Statement(kind, keys, cs, ms, iaux) == [kind |-> kind, keys |-> keys, cs |-> cs, ms |-> ms, iaux |-> iaux]

SchnorrStatements == {Statement("schnorr", <<y>>, <<>>, <<>>, iaux) : y \in 0..11, iaux \in Contexts}
ExponentiationStatements ==
    {Statement("exponentiation", bases, <<>>, ms, iaux) :
       bases \in {<<>>, <<4>>, <<4, 5>>, <<5, 4>>, <<4, 1>>, <<4, 6>>},
       ms \in {<<>>, <<3>>} \cup ({3, 5, 6} \X {1, 3, 5, 8}), iaux \in Contexts}
DecryptionStatements ==
    {Statement("decryption", keys, <<Cipher(gamma, phis)>>, ms, <<"box1">>) :
       keys \in {<<4>>, <<4, 5, 9>>, <<4, 6>>}, gamma \in {1, 5, 6},
       phis \in {<<>>} \cup ({3, 5, 9} \X {3, 4, 8}), ms \in {<<4>>} \cup ({1, 4, 5, 7} \X {1, 5, 9})}
EqualityStatements ==
    {Statement("equality", keys, <<Cipher(4, <<c1>>), Cipher(c0, <<c2>>)>>, <<>>, <<"box1">>) :
       keys \in {<<5, 9>>, <<5, 2>>, <<5, 1>>}, c1 \in {3, 4, 9}, c0 \in {5, 6, 9}, c2 \in {3, 4, 5, 8}}
DecryptionsStatements ==
    {Statement("decryptions", <<4, 5>>, <<Cipher(5, <<9>>), Cipher(3, <<5>>)>>, ms, <<"box1">>) :
       ms \in {<<>>, <<Cipher(5, <<4>>)>>} \cup
              {<<Cipher(gamma, <<m1>>), Cipher(3, <<m2>>)>> : gamma \in {4, 5}, m1 \in {3, 4}, m2 \in {9, 5, 1}}}

EachProof(proof) == [i \in 1..2 |-> [proof EXCEPT !.z = <<@[i]>>]]
Essence(s) == IF s.kind = "decryption" THEN [s EXCEPT !.keys = SubSeq(@, 1, 2)] ELSE s

(* The verdict on a proof, and whether the statement is one.               *)
Verdict(s, proof, oracle) ==
    CASE s.kind = "schnorr" -> VerifySchnorr(G, s.keys[1], [proof EXCEPT !.z = @[1]], s.iaux, oracle)
      [] s.kind = "exponentiation" ->
           VerifyExponentiation(G, s.keys, s.ms, [proof EXCEPT !.z = @[1]], s.iaux, oracle)
      [] s.kind = "decryption" -> VerifyDecryption(G, s.cs[1], s.keys, s.ms, proof, s.iaux, oracle)
      [] s.kind = "equality" ->
           VerifyPlaintextEquality(G, s.cs[1], s.cs[2], s.keys[1], s.keys[2], proof, s.iaux, oracle)
      [] s.kind = "decryptions" ->
           VerifyDecryptions(G, s.cs, s.keys, s.ms, EachProof(proof), s.iaux, oracle)
Decrypts(gamma, phi, key, m, n) ==
    key = Power(G.g, n) /\ phi = Times(m, Power(gamma, n)) /\ m \in Squares /\ gamma \in Squares
(* The secrets w are those that the statement is about.                    *)
Knows(s, w) ==
    CASE s.kind = "schnorr" -> s.keys[1] = Power(G.g, w[1])
      [] s.kind = "exponentiation" ->
           /\ Len(s.keys) = Len(s.ms) /\ s.keys # <<>>
           /\ \A i \in DOMAIN s.ms : s.keys[i] \in Squares /\ s.ms[i] = Power(s.keys[i], w[1])
      [] s.kind = "decryption" ->
           /\ Len(s.cs[1].phis) = 2 /\ Len(s.ms) = 2 /\ Len(s.keys) >= 2
           /\ \A i \in {1, 2} : Decrypts(s.cs[1].gamma, s.cs[1].phis[i], s.keys[i], s.ms[i], w[i])
      [] s.kind = "equality" ->
           /\ s.keys[1] \in Squares /\ s.keys[2] \in Squares
           /\ \A i \in {1, 2} : s.cs[i].gamma = Power(G.g, w[i])
           /\ \E m \in Squares : \A i \in {1, 2} : s.cs[i].phis[1] = Times(m, Power(s.keys[i], w[i]))
      [] s.kind = "decryptions" ->
           /\ Len(s.ms) = 2
           /\ \A i \in {1, 2} : /\ s.ms[i].gamma = s.cs[i].gamma
                                /\ Decrypts(s.cs[i].gamma, s.cs[i].phis[1], s.keys[1], s.ms[i].phis[1], w[i])
True(s) == \E w \in Zq \X Zq : Knows(s, w)
(* No value is 1, which only messages may be.                              *)
WithoutOnes(s) ==
    /\ 1 \notin {s.keys[i] : i \in DOMAIN s.keys}
    /\ \A i \in DOMAIN s.cs : s.cs[i].gamma # 1 /\ \A k \in DOMAIN s.cs[i].phis : s.cs[i].phis[k] # 1
    /\ s.kind = "exponentiation" => 1 \notin {s.ms[i] : i \in DOMAIN s.ms}

-----------------------------------------------------------------------------
Statements ==
    UNION {SchnorrStatements, ExponentiationStatements, DecryptionStatements, EqualityStatements, DecryptionsStatements}

(* What is hashed for a proof of the statement; nothing, if it is refused  *)
(* before.                                                                 *)
Queries(s, proof) ==
    LET first == [proof EXCEPT !.z = @[1]]
    IN  CASE s.kind = "schnorr" -> {SchnorrQuery(G, s.keys[1], first, s.iaux)}
          [] s.kind = "exponentiation" -> {ExponentiationQuery(G, s.keys, s.ms, first, s.iaux)}
          [] s.kind = "decryption" -> {DecryptionQuery(G, s.cs[1], s.keys, s.ms, proof, s.iaux)}
          [] s.kind = "equality" ->
               {PlaintextEqualityQuery(G, s.cs[1], s.cs[2], s.keys[1], s.keys[2], proof, s.iaux)}
          [] s.kind = "decryptions" ->
               {DecryptionQuery(G, s.cs[i], s.keys, s.ms[i].phis, EachProof(proof)[i], s.iaux) : i \in DOMAIN s.cs}
Asked(s, proof) ==
    IF Verdict(s, proof, [query \in Queries(s, proof) |-> proof.e]) THEN Queries(s, proof) ELSE {}

Answered(s, proof, asked) == Verdict(s, proof, [query \in asked |-> proof.e])

Init ==
    /\ \E s \in Statements, e \in {0, 2}, z \in {<<0, 2>>, <<3, 3>>} :
         claim = [s |-> s, first |-> [e |-> e, z |-> z], asked |-> Asked(s, [e |-> e, z |-> z])]
    /\ tried = 0 /\ hits = 0

Challenge ==
    /\ tried <= G.q
    /\ tried' = tried + 1
    /\ hits' = hits + (IF \E z \in (0..G.q) \X (0..G.q) : Answered(claim.s, [e |-> tried, z |-> z], claim.asked)
                       THEN 1 ELSE 0)
    /\ UNCHANGED claim

Spec == Init /\ [][Challenge]_vars

-----------------------------------------------------------------------------
(* No prover has an answer to a second challenge for one commitment,       *)
(* unless the statement is true; numbers from q on are no challenges.      *)
SpecialSound == hits <= 1 \/ True(claim.s)
(* Who knows the secrets answers every challenge, with the first answer    *)
(* and as often the secret as the challenge is further; none of the values *)
(* of the statement may be 1.                                              *)
Complete ==
    tried \in Zq /\ WithoutOnes(claim.s) =>
      \A w \in Zq \X Zq :
        Knows(claim.s, w) =>
          LET answer == [i \in {1, 2} |-> (claim.first.z[i] + (tried - claim.first.e) * w[i]) % G.q]
          IN  Answered(claim.s, [e |-> tried, z |-> answer], claim.asked)
(* A proof is of one statement in one context: none that is accepted is    *)
(* accepted for another one too.  Of a key only the part in use matters.   *)
OfOneStatement ==
    tried = 0 /\ claim.asked # {} =>
      \A other \in {s \in Statements : s.kind = claim.s.kind} :
        Answered(other, claim.first, claim.asked) => Essence(other) = Essence(claim.s)
=============================================================================
