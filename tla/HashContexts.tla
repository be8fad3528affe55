---------------------------- MODULE HashContexts ----------------------------
(***************************************************************************)
(* What the program hashes: the contexts of proofs and signatures          *)
(* (context.py), and the challenges of the shuffle argument (mixnet.py).   *)
(*                                                                         *)
(* SHA3 is ideal: the hash of a value is the value, with the tag byte that *)
(* recursive_hash puts before it.  The hash of a list is that of the       *)
(* hashes of its elements, which have all one length.  Of fields that are  *)
(* hashed alike, as a name, an alias and a description, there is one here.  *)
(***************************************************************************)
EXTENDS SequencesExt, Integers

LOCAL INSTANCE FiniteSets

(* recursive_hash, by type of the value.  Several values are a list.       *)
HInt(n) == <<1, n>>
HStr(s) == <<2, s>>
HList(hashes) == <<3, hashes>>
HashOf(hashes) == IF Len(hashes) = 1 THEN hashes[1] ELSE HList(hashes)

Each(Hash(_), s) == [i \in DOMAIN s |-> Hash(s[i])]
HInts(s) == HList(Each(HInt, s))
Column(table, Hash(_), field) == [i \in DOMAIN table |-> Hash(table[i][field])]

(* get_hash_context: one flat list.  A mistake: no name before the last    *)
(* key.                                                                    *)
HashContextParts(c) ==
    <<HStr("EncryptionParameters")>> \o Each(HInt, c.group)
    \o <<HStr("ElectionEventContext"), HStr(c.event), HStr(c.cardSet)>>
    \o <<HStr("ActualVotingOptions")>> \o Column(c.pTable, HStr, "actual")
    \o <<HStr("EncodedVotingOptions")>> \o Column(c.pTable, HInt, "encoded")
    \o <<HStr("SemanticInformation")>> \o Column(c.pTable, HStr, "semantic")
    \o <<HStr("CorrectnessInformation")>> \o Column(c.pTable, HStr, "correctness")
    \o <<HStr("ELpk")>> \o Each(HInt, c.electionKey)
HashContextUnseparated(c) == HashOf(HashContextParts(c) \o Each(HInt, c.codesKey))
HashContext(c) == HashOf(HashContextParts(c) \o <<HStr("pkCCR")>> \o Each(HInt, c.codesKey))

(* get_hash_election_event_context: nested lists, card sets sorted by id.  *)
(* A mistake: they come as they are listed.                                *)
HTable(table) ==
    HList([i \in DOMAIN table |-> HList(<<HStr(table[i].actual), HInt(table[i].encoded),
                                         HStr(table[i].semantic), HStr(table[i].correctness)>>)])
HCardSet(set) ==
    HList(<<HStr(set.id), HStr(set.box), HStr(IF set.test THEN "true" ELSE "false"),
            HInt(set.voters), HTable(set.pTable), HList(Each(HStr, set.domains))>>)
SortedById(sets) == SortSeq(sets, LAMBDA a, b : a.id < b.id)
EventContextHash(c) ==
    HashOf(<<HInts(c.group), HStr(c.event),
             HList(Each(HCardSet, SortedById(c.cardSets))),
             HInt(c.options), HInt(c.selections), HInt(c.writeInsPlusOne)>>)

-----------------------------------------------------------------------------
(* The challenges.  key is what all arguments begin with: p, q, the public *)
(* key and the commitment key.  A ciphertext is the sequence of its        *)
(* numbers.                                                                *)

HKey(key) == <<HInt(key.p), HInt(key.q), HInts(key.pk), HInts(key.ck)>>
HCiphertexts(cs) == HList(Each(HInts, cs))

ShuffleCommon(key, a) == HKey(key) \o <<HCiphertexts(a.cs), HCiphertexts(a.shuffled), HInts(a.cA)>>
ShuffleX(key, a) == HashOf(ShuffleCommon(key, a))
ShuffleY(key, a) == HashOf(<<HInts(a.cB)>> \o ShuffleCommon(key, a))
ShuffleZ(key, a) == HashOf(<<HStr("1"), HInts(a.cB)>> \o ShuffleCommon(key, a))
MultiX(key, a) ==
    HashOf(HKey(key) \o <<HList(Each(HCiphertexts, a.matrix)), HInts(a.product), HInts(a.cA), HInt(a.cA0),
                          HInts(a.cB), HCiphertexts(a.e)>>)
ZeroX(key, a) ==
    HashOf(HKey(key) \o <<HInt(a.cA0), HInt(a.cBm), HInts(a.cD), HInts(a.cB), HInts(a.cA)>>)
SvpX(key, a) ==
    HashOf(HKey(key) \o <<HInt(a.cUpper), HInt(a.cLower), HInt(a.cD), HInt(a.b), HInt(a.cA)>>)
HadamardCommon(key, a) == HKey(key) \o <<HInts(a.cA), HInt(a.cB), HInts(a.cUpperB)>>
HadamardX(key, a) == HashOf(HadamardCommon(key, a))
HadamardY(key, a) == HashOf(<<HStr("1")>> \o HadamardCommon(key, a))
=============================================================================
