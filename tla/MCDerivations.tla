--------------------------- MODULE MCDerivations ----------------------------
(* What every verifier derives from hashes and has to find the same, one at *)
(* a time: the group and its small primes (Parameters) or a commitment key  *)
(* (CommitmentKey).  The other one was asked for what it refuses.           *)
EXTENDS CommitmentKey

VARIABLES call, delta, i, group, current, members, pc

Call(bits, strength, hash, n) == [bits |-> bits, strength |-> strength, hash |-> hash, count |-> n]

(* Every hash of 8 bits that leads to another start, some of 16 bits, and  *)
(* calls that are refused.                                                 *)
MCCalls ==
    {Call(8, 12, 8 * h, 6) : h \in 0..31}
      \cup {Call(8, 2, 0, n) : n \in {-1, 0, 1, 19, 20, 21, 9999, 10000}}
      \cup {Call(16, 14, h, 12) : h \in {0, 5000, 11111, 22222}}
      \cup {Call(8, 128, 96, 6), Call(12, 128, 0, 1), Call(8, 0, 0, 1), Call(8, 3, 0, 1)}

Parameters == INSTANCE Parameters WITH Calls <- MCCalls, PrimeCount <- 4

groupVars == <<call, delta, i, group, current, members, pc>>

DerivationsInit ==
    /\ Init /\ Parameters!Init
    /\ nu = 0 \/ call.strength = 0

DerivationsNext ==
    \/ Next /\ UNCHANGED groupVars
    \/ Parameters!Next /\ UNCHANGED vars

DerivationsSpec ==
    /\ DerivationsInit /\ [][DerivationsNext]_<<vars, groupVars>>
    /\ WF_<<vars, groupVars>>(DerivationsNext)

-----------------------------------------------------------------------------
(* get_encryption_parameters finds the first safe prime after the start,   *)
(* and a generator of the squares modulo it.                               *)
FirstSafePrimeGroup == Parameters!FirstSafePrimeGroup
(* get_small_prime_group_members lists the first primes from 5 on that are *)
(* squares, and is refused only when there are too few.                    *)
MembersInOrder == Parameters!MembersInOrder
(* Both loops of the search, and the one for members, end.                 *)
SearchEnds == Parameters!Termination
=============================================================================
