--------------------------- MODULE MCHashContexts ---------------------------
(* Inputs of HashContexts for TLC: hashed is one of them, and the           *)
(* properties compare it with all others.  Names that separate the parts    *)
(* are among the data.                                                      *)
EXTENDS HashContexts, FiniteSetsExt

VARIABLES of, value, hash

UpTo(n, S) == UNION {[1..k -> S] : k \in 0..n}
Table(actual, semantic, correctness) ==
    UpTo(2, [actual : actual, encoded : {2}, semantic : semantic, correctness : correctness])

Contexts ==
    [group : {<<7, 3, 2>>}, event : {"ee"}, cardSet : {"s", "ELpk"},
     pTable : Table({"a", "EncodedVotingOptions"}, {"s", "CorrectnessInformation"}, {"c", "ELpk"}),
     electionKey : {<<>>, <<2>>, <<2, 2>>, <<4>>}, codesKey : {<<2>>, <<2, 2>>}]
CardSets ==
    [id : {1, 2}, box : {"b"}, test : BOOLEAN, voters : {1}, pTable : Table({"a"}, {"s"}, {"c"}),
     domains : {<<>>, <<"d">>, <<"b">>}]
EventContexts ==
    [group : {<<7, 3, 2>>}, event : {"ee"}, cardSets : UpTo(2, CardSets), options : {0, 2}, selections : {0},
     writeInsPlusOne : {2}]

Key == [p |-> 7, q |-> 3, pk |-> <<2>>, ck |-> <<4, 2>>]
Keys == {Key, [Key EXCEPT !.pk = <<2, 4>>, !.ck = <<2>>]}
Cs == {<<<<2, 4>>>>, <<<<2, 4>>, <<4, 2>>>>, <<<<2>>, <<4>>>>}
Lists == {<<2>>, <<4>>, <<2, 4>>}
Tagged(kind, as) == {[kind |-> kind, key |-> key, a |-> a] : key \in Keys, a \in as}
ShuffleArguments == [cs : Cs, shuffled : Cs, cA : Lists, cB : Lists]
MultiArguments ==
    [matrix : {<<cs>> : cs \in Cs} \cup {<<<<c>>, <<c>>>> : c \in Lists}, product : Lists, cA : {<<2>>, <<4, 2>>}, cA0 : {2},
     cB : Lists, e : Cs]
ZeroArguments == [cA0 : {2, 4}, cBm : {2, 4}, cD : Lists, cB : Lists, cA : Lists]
SvpArguments == [cUpper : {2, 4}, cLower : {2, 4}, cD : {2, 4}, b : {2, 4}, cA : {2, 4}]
HadamardArguments == [cA : Lists, cB : {2, 4}, cUpperB : Lists]
Questions ==
    Tagged("shuffleX", {a \in ShuffleArguments : a.cB = <<2>>}) \cup Tagged("shuffleY", ShuffleArguments) \cup Tagged("shuffleZ", ShuffleArguments)
    \cup Tagged("multi", MultiArguments) \cup Tagged("zero", ZeroArguments) \cup Tagged("svp", SvpArguments)
    \cup Tagged("hadamardX", HadamardArguments) \cup Tagged("hadamardY", HadamardArguments)
Challenge(q) ==
    CASE q.kind = "shuffleX" -> ShuffleX(q.key, q.a)
      [] q.kind = "shuffleY" -> ShuffleY(q.key, q.a)
      [] q.kind = "shuffleZ" -> ShuffleZ(q.key, q.a)
      [] q.kind = "multi" -> MultiX(q.key, q.a)
      [] q.kind = "zero" -> ZeroX(q.key, q.a)
      [] q.kind = "svp" -> SvpX(q.key, q.a)
      [] q.kind = "hadamardX" -> HadamardX(q.key, q.a)
      [] q.kind = "hadamardY" -> HadamardY(q.key, q.a)

Pairs(Hash(_), values) == {[value |-> v, hash |-> Hash(v)] : v \in values}
HashedContexts == Pairs(HashContext, Contexts)
HashedEvents == Pairs(EventContextHash, EventContexts)
HashedQuestions == Pairs(Challenge, Questions)

Reordered(s, t) ==
    Len(s) = Len(t) /\ \E order \in [DOMAIN s -> DOMAIN s] :
      {order[i] : i \in DOMAIN s} = DOMAIN s /\ \A i \in DOMAIN s : t[i] = s[order[i]]
SameEvent(a, b) == [a EXCEPT !.cardSets = <<>>] = [b EXCEPT !.cardSets = <<>>] /\ Reordered(a.cardSets, b.cardSets)
DifferentIds(sets) == \A i, k \in DOMAIN sets : sets[i].id = sets[k].id => i = k

HashInit ==
    /\ \/ of = "context" /\ value \in Contexts
       \/ of = "event" /\ value \in EventContexts
       \/ of = "challenge" /\ value \in Questions
    /\ hash = <<>>

HashValue ==
    /\ hash = <<>>
    /\ hash' = CASE of = "context" -> HashContext(value)
                 [] of = "event" -> EventContextHash(value)
                 [] of = "challenge" -> Challenge(value)
    /\ UNCHANGED <<of, value>>

-----------------------------------------------------------------------------
(* get_hash_context: no other context has the same hash, also if options   *)
(* are called as the names in between, and whatever the lengths are.       *)
ContextBound ==
    of = "context" => \A h \in HashedContexts : h.hash = hash => h.value = value
(* get_hash_election_event_context: the contexts with the same hash are    *)
(* those with the same card sets, of different ids, in any order.          *)
EventBound ==
    of = "event" =>
      /\ \A h \in HashedEvents : h.hash = hash => SameEvent(h.value, value)
      /\ hash # <<>> /\ DifferentIds(value.cardSets) =>
           EventContextHash([value EXCEPT !.cardSets = Reverse(@)]) = hash
(* derive_*: every challenge is a question of its own, of all that is in   *)
(* the argument: no two challenges, of one or of different arguments, are  *)
(* answered by one hash.                                                   *)
ChallengesApart ==
    of = "challenge" => \A h \in HashedQuestions : h.hash = hash => h.value = value
=============================================================================
