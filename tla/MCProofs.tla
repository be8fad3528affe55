------------------------------ MODULE MCProofs ------------------------------
(* The verifiers of zero-knowledge proofs, one at a time: the composed      *)
(* shuffle argument (BayerGroth), its parts against any prover              *)
(* (SubArguments), the proofs of one challenge against any prover           *)
(* (SigmaProofs), and what the challenges are hashed over (HashContexts).   *)
EXTENDS MCBayerGroth, MCHashContexts

VARIABLES verifier,            \* the one that is called
          claim, tried, hits   \* any prover's claim, and how it fared

Sub == INSTANCE MCSubArguments WITH Q <- 5, Nu <- 2, Pk <- <<2>>, conv <- claim
Sigma == INSTANCE MCSigmaProofs

proverVars == <<claim, tried, hits>>
hashVars == <<of, value, hash>>

NoShuffle == shuffle = <<>> /\ ch = <<>> /\ productOk = FALSE /\ multiOk = FALSE /\ pc = "none"
NoProver == claim = <<>> /\ tried = 0 /\ hits = 0
NoHash == of = "none" /\ value = <<>> /\ hash = <<>>

ProofsInit ==
    \/ verifier = "shuffle" /\ Init /\ NoProver /\ NoHash
    \/ verifier = "part" /\ Sub!Init /\ NoShuffle /\ NoHash
    \/ verifier = "sigma" /\ Sigma!Init /\ NoShuffle /\ NoHash
    \/ verifier = "hash" /\ HashInit /\ NoShuffle /\ NoProver

ProofsNext ==
    \/ verifier = "shuffle" /\ Next /\ UNCHANGED <<verifier, proverVars, hashVars>>
    \/ verifier = "part" /\ Sub!Challenge /\ UNCHANGED <<verifier, vars, hashVars>>
    \/ verifier = "sigma" /\ Sigma!Challenge /\ UNCHANGED <<verifier, vars, hashVars>>
    \/ verifier = "hash" /\ HashValue /\ UNCHANGED <<verifier, vars, proverVars>>

ProofsSpec == ProofsInit /\ [][ProofsNext]_<<verifier, vars, proverVars, hashVars>>

-----------------------------------------------------------------------------
(* verify_zero_argument, verify_single_value_product_argument,             *)
(* verify_multi_exponentiation_argument, verify_hadamard_argument, the     *)
(* places of verify_shuffle_argument, and the verifiers of crypto.py: no   *)
(* prover of what is not true has answers to more challenges than a        *)
(* polynomial of the argument's degree has roots.                          *)
Sound ==
    /\ verifier = "part" =>
         Sub!ZeroSound /\ Sub!SvpSound /\ Sub!MultiSound /\ Sub!HadamardSound /\ Sub!PlacesSound
    /\ verifier = "sigma" => Sigma!SpecialSound
(* Who shuffles, or knows the secrets, is believed, whatever the hashes    *)
(* are and for every shape of matrices and lists.                          *)
HonestProversAccepted ==
    /\ HonestProverAccepted
    /\ verifier = "sigma" => Sigma!Complete
(* A proof is of one statement in one context.                             *)
OfOneStatement == verifier = "sigma" => Sigma!OfOneStatement
(* get_hash_context, get_hash_election_event_context and the derive_*      *)
(* functions: what is different is hashed differently, and card sets in    *)
(* another order are no difference.                                        *)
HashesApart == verifier = "hash" => ContextBound /\ EventBound /\ ChallengesApart
=============================================================================
