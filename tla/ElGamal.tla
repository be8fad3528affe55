------------------------------ MODULE ElGamal -------------------------------
(***************************************************************************)
(* Multi-recipient ElGamal, written with its exponents.  The private keys  *)
(* of the N control components and of the electoral board are the key      *)
(* holders 1..N and N + 1.  With pk_h the public key of holder h, a group   *)
(* element is m * PROD_h pk_h^e[h], and a ciphertext is                     *)
(*                                                                         *)
(*     gamma = g^r,    phis = (m * PROD_h pk_h^e[h]) of w components.       *)
(*                                                                         *)
(* Every pair (gamma, phis) has this form, so m is the message by           *)
(* definition.  A public key is the function giving the power of each pk_h *)
(* in it.  The w components of phis get the same treatment and share one    *)
(* m and e; exponents are integers, not residues modulo q.                  *)
(*                                                                         *)
(* Proofs are ideal: a shuffle argument is its witness (the permutation    *)
(* and the re-encryption randomness), and a decryption proof is the        *)
(* context it was made for.  What the verifier accepts is then exactly the  *)
(* relation that the zero-knowledge argument is an argument for.            *)
(***************************************************************************)
EXTENDS Integers, Sequences, FiniteSets

CONSTANTS N,      \* number of control components, 4 in the code
          Msg,    \* plaintext messages
          One,    \* the neutral message of the two trivial ciphertexts
          Box     \* ballot-box ids, numbered in their sort order

ASSUME NAssumption == N \in Nat \ {0}
ASSUME MsgAssumption == One \in Msg
ASSUME BoxAssumption == Box \subseteq Nat \ {0}

Node == 1..N
EB == N + 1
Holder == 1..(N + 1)

Key == [Holder -> Int]
Plaintext == [m : Msg, e : Key, w : Nat]
Ciphertext == [r : Int, m : Msg, e : Key, w : Nat]
Argument == [wf : BOOLEAN, perm : Seq(Nat), rho : Seq(Int)]
Proof == [box : Nat, node : Nat]

(* The public key of one holder.                                           *)
KeyOf(h) == [k \in Holder |-> IF k = h THEN 1 ELSE 0]

(* combine_public_keys over the keys listed for the nodes from j on and    *)
(* the board's key: the power of pk_h is the number of times it is there.  *)
CombinedKey(ccm, eb, j) ==
    [h \in Holder |-> Cardinality({k \in j..N : ccm[k] = h})
                        + (IF eb = h THEN 1 ELSE 0)]

(* What the components compute: a re-encryption under key, a decryption    *)
(* with the share of holder h, and what is left when nothing is encrypted. *)
(* The key that remains at component j is that of the holders from j on.   *)
KeysFrom(j) == [h \in Holder |-> IF h >= j THEN 1 ELSE 0]
ReEncryption(c, key, rho) ==
    [c EXCEPT !.r = @ + rho, !.e = [h \in Holder |-> c.e[h] + rho * key[h]]]
Decryption(c, h) == [c EXCEPT !.e[h] = @ - c.r]
Bare(c) == [m |-> c.m, e |-> c.e, w |-> c.w]

IsPermutation(p, n) ==
    /\ p \in [1..n -> 1..n]
    /\ \A i, j \in 1..n : p[i] = p[j] => i = j
    /\ \A i \in 1..n : \E j \in 1..n : p[j] = i

(* Multiplication with an encryption of 1 under key with randomness rho.   *)
ReEncrypts(s, c, key, rho) ==
    /\ s.r = c.r + rho
    /\ s.m = c.m
    /\ \A h \in Holder : s.e[h] = c.e[h] + rho * key[h]
    /\ s.w = c.w

(* matrix_dimensions: the number of columns of the squarest matrix that    *)
(* holds count ciphertexts; the row count is the largest divisor up to the *)
(* square root.                                                            *)
MatrixColumnCount(count) ==
    count \div (CHOOSE m \in 1..count :
                  /\ count % m = 0 /\ m * m <= count
                  /\ \A k \in 1..count : count % k = 0 /\ k * k <= count => k <= m)

(* verify_shuffle_argument raises on an argument it cannot decode, and in  *)
(* matrix_dimensions on a single ciphertext.                               *)
ShuffleRaises(cs, ss, arg) == ~arg.wf \/ (Len(cs) = 1 /\ Len(ss) = 1)

(* verify_shuffle_argument: ss is a shuffle of cs re-encrypted under key,  *)
(* whose width components cover the ciphertexts, provable with a           *)
(* commitment key of cols generators.                                      *)
VerifyShuffle(key, width, cols, cs, ss, arg) ==
    /\ cs # <<>>
    /\ Len(cs) = Len(ss)
    /\ MatrixColumnCount(Len(cs)) <= cols
    /\ cs[1].w <= width
    /\ \A i \in 1..Len(cs) : cs[i].w = cs[1].w /\ ss[i].w = cs[1].w
    /\ IsPermutation(arg.perm, Len(cs))
    /\ Len(arg.rho) = Len(cs)
    /\ \A i \in 1..Len(cs) : ReEncrypts(ss[i], cs[arg.perm[i]], key, arg.rho[i])

(* Gamma or a component of phis is 1, which no verified ciphertext may be. *)
HasOne(c) == c.r = 0 \/ (c.m = One /\ \A h \in Holder : c.e[h] = 0)

(* verify_decryption: msg is phis / gamma^sk for the private key of key,   *)
(* and the proof was made for this ballot box and this mixing component.   *)
(* The public key may not be 1 either; that of a holder never is.          *)
VerifyDecryption(c, key, width, msg, proof, context) ==
    /\ c.w > 0 /\ msg.w = c.w /\ c.w <= width
    /\ ~HasOne(c)
    /\ proof = context
    /\ msg.m = c.m
    /\ \A h \in Holder : msg.e[h] = c.e[h] - c.r * key[h]

(* A mistake in what follows: gamma may change.                            *)
VerifyDecryptionsAnyGamma(cs, key, width, ds, proofs, context) ==
    /\ cs # <<>>
    /\ Len(cs) = Len(ds) /\ Len(ds) = Len(proofs)
    /\ \A i \in 1..Len(cs) : VerifyDecryption(cs[i], key, width, ds[i], proofs[i], context)

(* verify_decryptions: every ciphertext is partially decrypted in place.   *)
VerifyDecryptions(cs, key, width, ds, proofs, context) ==
    /\ cs # <<>>
    /\ Len(cs) = Len(ds) /\ Len(ds) = Len(proofs)
    /\ \A i \in 1..Len(cs) :
         ds[i].r = cs[i].r /\ VerifyDecryption(cs[i], key, width, ds[i], proofs[i], context)
=============================================================================
