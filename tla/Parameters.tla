----------------------------- MODULE Parameters -----------------------------
(***************************************************************************)
(* The group of an election event and its small primes (crypto.py): the    *)
(* search of get_encryption_parameters for a safe prime, sieving with      *)
(* residues and testing with Miller-Rabin, and the loop of                 *)
(* get_small_prime_group_members over the group that was found.            *)
(*                                                                         *)
(* A call has the bits of the prime, the security strength, the hash of    *)
(* the seed as a number, and the count of small primes asked for.  One     *)
(* step per turn of a loop.                                                *)
(***************************************************************************)
EXTENDS Group, SequencesExt

CONSTANTS Calls,       \* with a hash below 2^bits
          PrimeCount   \* primes of the sieve, 2048 in the code

VARIABLES call, delta, i,      \* locals of get_encryption_parameters
          group,               \* what it returns
          current, members,    \* locals of get_small_prime_group_members
          pc

vars == <<call, delta, i, group, current, members, pc>>
search == <<call, delta, i, group>>

NoGroup == [p |-> 0, q |-> 0, g |-> 0]

-----------------------------------------------------------------------------
(* Primes.                                                                 *)

(* is_small_prime: the divisors tried are 2, 3 and the neighbours of the   *)
(* multiples of 6.                                                         *)
IsSmallPrime(value) ==
    \/ value \in {2, 3}
    \/ /\ value # 1 /\ value % 2 # 0 /\ value % 3 # 0
       /\ \A k \in 1..(value \div 25) :
            LET d == 6 * k - 1
            IN  d * d <= value => value % d # 0 /\ value % (d + 2) # 0

(* _first_primes_excluding_2_3: they are among the first 20 * count odd    *)
(* numbers.                                                                *)
FirstPrimes(count) ==
    SubSeq(SelectSeq([k \in 1..(20 * count) |-> 2 * k + 3], IsSmallPrime), 1, count)
SmallPrimes == FirstPrimes(PrimeCount)

(* _miller_rabin_bases and _miller_rabin, with value - 1 = d * 2^s.        *)
MillerRabinBases(rounds) == {2, 3} \cup (IF rounds > 2 THEN ToSet(FirstPrimes(rounds - 2)) ELSE {})
MillerRabin(value, rounds) ==
    \/ value \in {2, 3}
    \/ /\ value >= 2 /\ value % 2 = 1
       /\ LET s == CHOOSE k \in 1..value : (value - 1) % 2^k = 0 /\ ((value - 1) \div 2^k) % 2 = 1
              d == (value - 1) \div 2^s
          IN  \A base \in {b \in MillerRabinBases(rounds) : b < value} :
                \/ PowMod(base, d, value) = 1
                \/ \E r \in 0..(s - 1) : PowMod(base, d * 2^r, value) = value - 1

(* _small_prime_quadratic_residue of an odd prime, by reciprocity.  A      *)
(* mistake: the sign is left out.                                          *)
LegendreUnsigned(modulus, prime) ==
    modulus % prime # 0 /\ PowMod(modulus % prime, (prime - 1) \div 2, prime) = 1
SmallPrimeQuadraticResidue(modulus, prime) ==
    LET residue == modulus % prime
        symbol == PowMod(residue, (prime - 1) \div 2, prime)
    IN  /\ residue # 0
        /\ IF prime % 4 = 3 /\ modulus % 4 = 3 THEN (prime - symbol) % prime = 1 ELSE symbol = 1

-----------------------------------------------------------------------------
(* get_encryption_parameters.                                              *)

QPrime == (2 * 2^call.bits + call.hash) \div 8
QStart == QPrime - (QPrime % 6) + 5
CandidateQ == QStart + delta
CandidateP == 2 * CandidateQ + 1

RefusesCall == call.bits % 8 # 0 \/ call.strength <= 0 \/ call.strength % 2 # 0

Init ==
    /\ call \in Calls
    /\ delta = 0 /\ i = 1 /\ group = NoGroup
    /\ current = 5 /\ members = <<>>
    /\ pc = IF RefusesCall THEN "refused" ELSE "next"

(* The outer loop goes to the next candidate.                              *)
NextCandidate ==
    /\ pc = "next" /\ pc' = "sieve"
    /\ delta' = delta + 6 /\ i' = 1
    /\ UNCHANGED <<call, group, current, members>>

(* The prime i divides the candidate q or p.  A mistake: p is taken for    *)
(* q + 1.                                                                  *)
DividesQPlusOne(k) ==
    LET residue == (QStart % SmallPrimes[k]) + delta
    IN  residue % SmallPrimes[k] = 0 \/ (residue + 1) % SmallPrimes[k] = 0
Divides(k) ==
    LET residue == (QStart % SmallPrimes[k]) + delta
    IN  residue % SmallPrimes[k] = 0 \/ (2 * residue + 1) % SmallPrimes[k] = 0

(* A candidate is sieved out.  A mistake: the sieve starts over with the   *)
(* same one.                                                               *)
SkipToSame == delta' = delta /\ i' = 1
Skip == delta' = delta + 6 /\ i' = 1

Sieve ==
    /\ pc = "sieve" /\ i <= PrimeCount
    /\ IF Divides(i) THEN Skip ELSE i' = i + 1 /\ delta' = delta
    /\ UNCHANGED <<call, group, current, members, pc>>

BothPrime(rounds) == MillerRabin(CandidateQ, rounds) /\ MillerRabin(CandidateP, rounds)

(* The generator is 2, or 3 if 2 is no square.                             *)
Generator == IF PowMod(2, CandidateQ, CandidateP) = 1 THEN 2 ELSE 3

TestFails ==
    /\ pc = "sieve" /\ i > PrimeCount
    /\ ~(BothPrime(1) /\ BothPrime(call.strength \div 2))
    /\ pc' = "next"
    /\ UNCHANGED <<search, current, members>>
TestPasses ==
    /\ pc = "sieve" /\ i > PrimeCount
    /\ BothPrime(1) /\ BothPrime(call.strength \div 2)
    /\ group' = [p |-> CandidateP, q |-> CandidateQ, g |-> Generator]
    /\ pc' = "members"
    /\ UNCHANGED <<call, delta, i, current, members>>

-----------------------------------------------------------------------------
(* get_small_prime_group_members.                                          *)

RefusesCount == group.g \notin {2, 3} \/ call.count \notin 1..9999

Consider ==
    /\ pc = "members" /\ ~RefusesCount
    /\ Len(members) < call.count /\ current < group.p
    /\ members' = IF IsSmallPrime(current) /\ SmallPrimeQuadraticResidue(group.p, current)
                  THEN Append(members, current) ELSE members
    /\ current' = current + 2
    /\ UNCHANGED <<search, pc>>
ReturnMembers ==
    /\ pc = "members" /\ ~RefusesCount
    /\ Len(members) = call.count
    /\ pc' = "done"
    /\ UNCHANGED <<search, current, members>>
RaiseMembers ==
    /\ pc = "members"
    /\ RefusesCount \/ (Len(members) # call.count /\ current >= group.p)
    /\ pc' = "raised"
    /\ UNCHANGED <<search, current, members>>

Next ==
    \/ NextCandidate \/ Sieve \/ TestFails \/ TestPasses
    \/ Consider \/ ReturnMembers \/ RaiseMembers

Spec == Init /\ [][Next]_vars
-----------------------------------------------------------------------------
(* Properties.                                                             *)

IsPrime(n) == n > 1 /\ \A k \in 2..n : k * k > n \/ n % k # 0

(* The group is that of the squares modulo a safe prime of the bits that   *)
(* were asked for, and its generator is one of them other than 1.          *)
SafePrimeGroup ==
    pc \in {"done", "raised"} =>
      /\ IsPrime(group.q) /\ IsPrime(group.p) /\ group.p = 2 * group.q + 1
      /\ group.p \in 2^(call.bits - 1)..(2^call.bits - 1)
      /\ group.g # 1 /\ \E u \in 1..group.q : (u * u) % group.p = group.g

(* It is the one that every verifier of this seed finds: no safe prime     *)
(* after the start, whatever its residue modulo 6, is passed by.           *)
NoneSkipped ==
    pc \in {"done", "raised"} =>
      \A q \in (QStart + 1)..(CandidateQ - 1) : ~(IsPrime(q) /\ IsPrime(2 * q + 1))

(* get_encryption_parameters: the group is the first one of the search.    *)
FirstSafePrimeGroup == SafePrimeGroup /\ NoneSkipped

(* The small primes are the first that are squares in the group, as many   *)
(* as asked for; only when there are fewer is the list refused.            *)
MembersInOrder ==
    LET IsMember(n) == IsPrime(n) /\ \E u \in 1..group.q : (u * u) % group.p = n
        Below(limit) == SelectSeq([n \in 1..(limit - 1) |-> n], LAMBDA n : n >= 5 /\ IsMember(n))
    IN  /\ pc = "done" => members = Below(current)
        /\ pc = "raised" /\ call.count \in 1..9999 => Len(Below(group.p)) < call.count

(* The search ends with an answer.                                         *)
Termination == <>(pc \in {"refused", "done", "raised"})
=============================================================================
