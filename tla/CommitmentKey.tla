--------------------------- MODULE CommitmentKey ---------------------------
(***************************************************************************)
(* get_verifiable_commitment_key (mixnet.py): the generators h, g_1 ..     *)
(* g_nu that the shuffle arguments commit with, drawn by hashing a pair of *)
(* counters until enough fresh squares of the group are found.  One step   *)
(* per turn of the loop.  The hash is external: any u in 1..Q.             *)
(***************************************************************************)
EXTENDS Integers, Sequences, FiniteSets

CONSTANTS P, Q, G,     \* the group: the squares modulo the safe prime P = 2Q + 1
          Nus,         \* the sizes asked for
          MaxIndex     \* bound of the model: turns of the loop

Square(u) == (u * u) % P
Squares == {Square(u) : u \in 1..Q}

(* What a safe prime gives: the numbers 1 .. Q have different squares, and *)
(* the generator is one of them.                                           *)
ASSUME GroupAssumption ==
    /\ Q \in Nat \ {0} /\ P = 2 * Q + 1
    /\ \A u, v \in 1..Q : Square(u) = Square(v) => u = v
    /\ G \in Squares \ {1}

ASSUME SizesAssumption == Nus \subseteq Int /\ MaxIndex \in Nat

VARIABLES nu,
          values, index, count,   \* the locals of the loop
          status                  \* "running", "returned", or the ValueError

vars == <<nu, values, index, count, status>>

(* A mistake: a bound for a key that may hold g.                           *)
InvalidSizeOfGroup(n) == n <= 0 \/ n > Q - 2
InvalidSize(n) == n <= 0 \/ n > Q - 3

Init ==
    /\ nu \in Nus
    /\ values = <<>> /\ index = 0 /\ count = 0
    /\ status = IF InvalidSize(nu) THEN "refused" ELSE "running"

Drawn == {values[i] : i \in DOMAIN values}

(* A mistake: only the last generator is compared with.                    *)
FreshOfLast(candidate) ==
    candidate \notin {1, G} /\ (values # <<>> => candidate # values[Len(values)])
Fresh(candidate) == candidate \notin {1, G} \cup Drawn

Accept(u) ==
    /\ Fresh(Square(u))
    /\ values' = Append(values, Square(u))
    /\ count' = count + 1

Reject(u) ==
    /\ ~Fresh(Square(u))
    /\ UNCHANGED <<values, count>>

Turn ==
    /\ status = "running" /\ count <= nu /\ index < MaxIndex
    /\ \E u \in 1..Q : Accept(u) \/ Reject(u)
    /\ index' = index + 1
    /\ UNCHANGED <<nu, status>>

Return ==
    /\ status = "running" /\ count > nu
    /\ status' = "returned"
    /\ UNCHANGED <<nu, values, index, count>>

Next == Turn \/ Return

Spec == Init /\ [][Next]_vars

-----------------------------------------------------------------------------
(* Properties.                                                             *)

(* Sorts of the locals.                                                    *)
TypeOK ==
    /\ nu \in Nus
    /\ values \in Seq(Squares)
    /\ index \in 0..MaxIndex
    /\ count \in Nat
    /\ status \in {"running", "returned", "refused"}

(* The key that is returned has h and nu more generators, all different,   *)
(* in the group, and none of them 1 or g.                                  *)
KeySound ==
    status = "returned" =>
      /\ Len(values) = nu + 1
      /\ \A i, k \in DOMAIN values : values[i] = values[k] => i = k
      /\ Drawn \subseteq Squares \ {1, G}

(* The loop "while count <= nu" can always still end: while it asks for a  *)
(* generator, some hash gives a fresh one.  The limit q - 3 on nu is what  *)
(* this rests on.                                                          *)
NeverStuck ==
    (status = "running" /\ count <= nu) => \E u \in 1..Q : Fresh(Square(u))

(* And the limit is no smaller than it has to be: of a positive size that  *)
(* is refused there is no key.                                             *)
RefusesOnlyImpossible ==
    (status = "refused" /\ nu > 0) => Cardinality(Squares \ {1, G}) < nu + 1

(* get_verifiable_commitment_key: the limit is the right one.              *)
LimitRight == NeverStuck /\ RefusesOnlyImpossible
=============================================================================
