---------------------------- MODULE SigmaProofs -----------------------------
(***************************************************************************)
(* The verifiers of the proofs of knowledge (crypto.py): Schnorr,          *)
(* exponentiation, decryption and plaintext equality, in the group of      *)
(* squares modulo a safe prime.  A proof is a challenge e with an answer   *)
(* z.  The verifier works out the commitment that z answers, and asks the  *)
(* hash whether e is the challenge for it; an oracle is the hash, as far   *)
(* as it has been asked.  A ciphertext is a record of gamma and phis.      *)
(***************************************************************************)
EXTENDS Group, Sequences

InverseMod(value, p) == CHOOSE i \in 1..(p - 1) : (i * value) % p = 1 % p
Exponent(group, n) == n \in 0..(group.q - 1)

(* x * y to the power -e, place by place.                                 *)
Commitment(group, x, y, e) ==
    [i \in DOMAIN x |-> (x[i] * PowMod(InverseMod(y[i], group.p), e, group.p)) % group.p]

(* What is hashed: the bases, the statement, the commitment, and the name  *)
(* of the proof with what else it is about.  A mistake: only the name      *)
(* and the commitment are hashed.                                          *)
Aux(name, about, iaux) == <<name>> \o about \o (IF iaux = <<>> THEN <<>> ELSE <<iaux>>)
QueryOfCommitment(bases, y, commitment, aux) == [bases |-> bases, commitment |-> commitment, aux |-> aux[1]]
Query(bases, y, commitment, aux) == [bases |-> bases, y |-> y, commitment |-> commitment, aux |-> aux]

Answers(oracle, query, e) == query \in DOMAIN oracle /\ oracle[query] = e

-----------------------------------------------------------------------------
(* Of each proof: the tests that come before the hash, and what is hashed. *)

SchnorrOk(group, statement, proof) ==
    /\ Exponent(group, proof.e) /\ Exponent(group, proof.z)
    /\ GroupMember(group, statement, FALSE)
SchnorrQuery(group, statement, proof, iaux) ==
    LET y == <<statement>>
    IN  Query(<<group.g>>, y, Commitment(group, <<PowMod(group.g, proof.z, group.p)>>, y, proof.e),
              Aux("SchnorrProof", <<>>, iaux))
VerifySchnorr(group, statement, proof, iaux, oracle) ==
    SchnorrOk(group, statement, proof) /\ Answers(oracle, SchnorrQuery(group, statement, proof, iaux), proof.e)

ExponentiationOk(group, bases, statement, proof) ==
    /\ Len(bases) = Len(statement) /\ bases # <<>>
    /\ Exponent(group, proof.e) /\ Exponent(group, proof.z)
    /\ \A i \in DOMAIN bases : GroupMember(group, bases[i], FALSE) /\ GroupMember(group, statement[i], FALSE)
ExponentiationQuery(group, bases, statement, proof, iaux) ==
    LET x == [i \in DOMAIN bases |-> PowMod(bases[i], proof.z, group.p)]
    IN  Query(bases, statement, Commitment(group, x, statement, proof.e), Aux("ExponentiationProof", <<>>, iaux))
VerifyExponentiation(group, bases, statement, proof, iaux, oracle) ==
    /\ ExponentiationOk(group, bases, statement, proof)
    /\ Answers(oracle, ExponentiationQuery(group, bases, statement, proof, iaux), proof.e)

(* The same secret powers take the generator to the key, and gamma to the  *)
(* phis without the message.                                               *)
DecryptionOk(group, ciphertext, publicKey, message, proof) ==
    LET phis == ciphertext.phis
        ell == Len(phis)
    IN  /\ ell # 0 /\ Len(message) = ell /\ Len(proof.z) = ell /\ Len(publicKey) >= ell
        /\ Exponent(group, proof.e) /\ \A i \in 1..ell : Exponent(group, proof.z[i])
        /\ GroupMember(group, ciphertext.gamma, FALSE)
        /\ \A i \in 1..ell :
             /\ GroupMember(group, phis[i], FALSE) /\ GroupMember(group, publicKey[i], FALSE)
             /\ GroupMember(group, message[i], TRUE)
DecryptionQuery(group, ciphertext, publicKey, message, proof, iaux) ==
    LET phis == ciphertext.phis
        ell == Len(phis)
        powers(base) == [i \in 1..ell |-> PowMod(base, proof.z[i], group.p)]
        y == SubSeq(publicKey, 1, ell)
             \o [i \in 1..ell |-> (phis[i] * InverseMod(message[i], group.p)) % group.p]
    IN  Query(<<group.g, ciphertext.gamma>>, y,
              Commitment(group, powers(group.g) \o powers(ciphertext.gamma), y, proof.e),
              Aux("DecryptionProof", <<phis, message>>, iaux))
VerifyDecryption(group, ciphertext, publicKey, message, proof, iaux, oracle) ==
    /\ DecryptionOk(group, ciphertext, publicKey, message, proof)
    /\ Answers(oracle, DecryptionQuery(group, ciphertext, publicKey, message, proof, iaux), proof.e)

(* Two ciphertexts under the keys h and h' have the same first plaintext.  *)
PlaintextEqualityOk(group, c, cPrime, h, hPrime, proof) ==
    /\ Len(proof.z) = 2
    /\ Exponent(group, proof.e) /\ Exponent(group, proof.z[1]) /\ Exponent(group, proof.z[2])
    /\ \A v \in {c.gamma, c.phis[1], cPrime.gamma, cPrime.phis[1], h, hPrime} : GroupMember(group, v, FALSE)
PlaintextEqualityQuery(group, c, cPrime, h, hPrime, proof, iaux) ==
    LET p == group.p
        z == proof.z
        x == <<PowMod(group.g, z[1], p), PowMod(group.g, z[2], p),
               (PowMod(h, z[1], p) * PowMod(InverseMod(hPrime, p), z[2], p)) % p>>
        y == <<c.gamma, cPrime.gamma, (c.phis[1] * InverseMod(cPrime.phis[1], p)) % p>>
    IN  Query(<<group.g, h, hPrime>>, y, Commitment(group, x, y, proof.e),
              Aux("PlaintextEqualityProof", <<c.phis[1], cPrime.phis[1]>>, iaux))
VerifyPlaintextEquality(group, c, cPrime, h, hPrime, proof, iaux, oracle) ==
    /\ PlaintextEqualityOk(group, c, cPrime, h, hPrime, proof)
    /\ Answers(oracle, PlaintextEqualityQuery(group, c, cPrime, h, hPrime, proof, iaux), proof.e)

(* verify_decryptions.                                                     *)
EachDecryption(group, ciphertexts, publicKey, decrypted, proofs, iaux, oracle) ==
    /\ ciphertexts # <<>> /\ Len(decrypted) = Len(ciphertexts) /\ Len(proofs) = Len(ciphertexts)
    /\ \A i \in DOMAIN ciphertexts :
         VerifyDecryption(group, ciphertexts[i], publicKey, decrypted[i].phis, proofs[i], iaux, oracle)
VerifyDecryptions(group, ciphertexts, publicKey, decrypted, proofs, iaux, oracle) ==
    /\ EachDecryption(group, ciphertexts, publicKey, decrypted, proofs, iaux, oracle)
    /\ \A i \in DOMAIN ciphertexts : ciphertexts[i].gamma = decrypted[i].gamma
=============================================================================
