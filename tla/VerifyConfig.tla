---------------------------- MODULE VerifyConfig ----------------------------
(***************************************************************************)
(* FixtureDataset.verify_config_phase: the checks of the setup files in    *)
(* their order and the early return when one of the files is missing.      *)
(*                                                                         *)
(* The dataset c has the fields                                            *)
(*                                                                         *)
(*   missing     one of the two setup files is missing                     *)
(*   badForm     the metadata checks that find a mismatch (FormIds)        *)
(*   seedOk      the seed has its form                                     *)
(*   groups      encryptionGroup of every payload, the context's first     *)
(*   events      electionEventId of every payload, the context's first     *)
(*   contexts    verificationCardSetContexts                               *)
(*   setup       combinedControlComponentPublicKeys and the combined keys  *)
(*   online      the control components' own payloads                      *)
(*   tallyData   setup tally data payloads                                 *)
(*   xml         what is read of the configuration XML                     *)
(*   primes      smallPrimes                                               *)
(*   psiMax      maximumNumberOfSelections                                 *)
(*                                                                         *)
(* Group elements are numbers.  The tallies' payloads are in groups and    *)
(* events as well.  Without a trust store the checks 2.x pass.             *)
(***************************************************************************)
EXTENDS Report, Numbers, SequencesExt

CONSTANTS Configs,   \* the datasets
          Derived    \* GetEncryptionParameters of the context's seed

FormIds == {"1.02", "1.03", "3.03"}
NoPath == "aggregated"   \* label without a verification-card-set directory
NoNode == 0              \* an online payload without a node id
NoTotal == -1            \* a configuration XML without a voterTotal

IsGroup(group) == group.q \in Nat \ {0} /\ group.p = 2 * group.q + 1 /\ group.g \in Nat

IsListed(list) == Len(list) \in Nat /\ list = [i \in 1..Len(list) |-> list[i]]

IsConfig(x) ==
    /\ x.missing \in BOOLEAN /\ x.seedOk \in BOOLEAN
    /\ x.badForm \subseteq FormIds
    /\ IsListed(x.contexts) /\ IsListed(x.setup.components) /\ IsListed(x.online)
    /\ IsListed(x.tallyData) /\ IsListed(x.groups)
    /\ \A i \in DOMAIN x.tallyData : IsListed(x.tallyData[i].cards)
    /\ \A i \in DOMAIN x.setup.components :
         IsListed(x.setup.components[i].ccr) /\ IsListed(x.setup.components[i].ccm)
    /\ IsListed(x.setup.eb)
    /\ Len(x.groups) >= 2 /\ \A i \in DOMAIN x.groups : IsGroup(x.groups[i])
    /\ IsListed(x.events) /\ x.events # <<>>
    /\ \A i \in DOMAIN x.contexts :
         /\ x.contexts[i].eligible \in Nat /\ x.contexts[i].vcs # NoPath
         /\ IsListed(x.contexts[i].table)
         /\ \A k \in DOMAIN x.contexts[i].table : x.contexts[i].table[k].enc \in Nat
    /\ x.primes \in Seq(Nat) /\ x.psiMax \in Nat
    /\ \A i \in DOMAIN x.setup.components : x.setup.components[i].node # NoNode

ASSUME DerivedAssumption == IsGroup(Derived) /\ IsPrime(Derived.p) /\ Derived.g \in {2, 3}
ASSUME ConfigsAssumption == \A x \in Configs : IsConfig(x)

VARIABLE c

vars == <<c, pc, report>>

-----------------------------------------------------------------------------
(* What the checks compute.                                                *)

ContextGroup == c.groups[1]
SetupGroup == c.groups[2]

GroupMember(group, v) == \E u \in 1..group.q : v = (u * u) % group.p

(* get_small_prime_group_members: the count smallest; an empty sequence    *)
(* stands for the ValueError.                                              *)
PrimeCounts == 1..9999
SmallPrimeGroupMembers(group, count) ==
    LET members == {n \in 5..(group.p - 1) : n % 2 = 1 /\ IsPrime(n) /\ GroupMember(group, n)}
    IN  IF group.g \notin {2, 3} \/ count \notin PrimeCounts \/ Cardinality(members) < count
        THEN <<>>
        ELSE SubSeq(Ascending(members), 1, count)

(* combine_public_keys, of keys that are equally long.                     *)
Unequal(keys) == \E i, k \in DOMAIN keys : Len(keys[i]) # Len(keys[k])
Times(p, a, b) == (a * b) % p
ProductAt(p, keys, i) ==
    LET product[n \in 0..Len(keys)] ==
          IF n = 0 THEN 1 ELSE Times(p, product[n - 1], keys[n][i])
    IN  product[Len(keys)]
CombinePublicKeys(group, keys) ==
    IF keys = <<>> THEN <<>>
    ELSE [i \in DOMAIN keys[1] |-> ProductAt(group.p, keys, i)]

Ccr == [i \in DOMAIN c.setup.components |-> c.setup.components[i].ccr]
Ccm == [i \in DOMAIN c.setup.components |-> c.setup.components[i].ccm]

(* Dictionaries by node id: a later component replaces an earlier one.     *)
Nodes(components) == {components[i].node : i \in DOMAIN components} \ {NoNode}
ByNode(components, node) ==
    components[CHOOSE i \in DOMAIN components :
                 /\ components[i].node = node
                 /\ \A k \in DOMAIN components : components[k].node = node => k <= i]

VcsIds == {c.contexts[i].vcs : i \in DOMAIN c.contexts}
ByVcs(vcs) ==
    c.contexts[CHOOSE i \in DOMAIN c.contexts :
                 /\ c.contexts[i].vcs = vcs
                 /\ \A k \in DOMAIN c.contexts : c.contexts[k].vcs = vcs => k <= i]

Duplicated(s) == \E i, k \in DOMAIN s : i < k /\ s[i] = s[k]
AllEqual(s) == \A i \in DOMAIN s : s[i] = s[1]

-----------------------------------------------------------------------------
(* The verdicts.                                                           *)

(* 3.02.  A mistake: missing nodes are not looked for.                     *)
NodeIdsOkOfPresent ==
    LET ids == [i \in DOMAIN c.online |-> c.online[i].node]
    IN  ids # <<>> => ToSet(ids) \subseteq 1..4 /\ ~Duplicated(ids)
NodeIdsOk ==
    LET ids == [i \in DOMAIN c.online |-> c.online[i].node]
        setupIds == [i \in DOMAIN c.setup.components |-> c.setup.components[i].node]
    IN  IF ids # <<>> THEN ToSet(ids) = 1..4 /\ ~Duplicated(ids)
        ELSE ToSet(setupIds) = 1..4 /\ ~Duplicated(setupIds)

(* 3.05, 3.06, 3.07.                                                       *)
CardSetIdsOk ==
    LET ids == [i \in DOMAIN c.tallyData |-> c.tallyData[i].vcs]
    IN  ToSet(ids) \subseteq VcsIds /\ ~Duplicated(ids)

PathShaped == {i \in DOMAIN c.tallyData : c.tallyData[i].path # NoPath}
CardSetPathsOk ==
    /\ \A i \in PathShaped : c.tallyData[i].path = c.tallyData[i].vcs
    /\ PathShaped # {} => {c.tallyData[i].path : i \in PathShaped} = VcsIds

(* A mistake: ids are compared within a payload only.                      *)
CardIdsOkPerPayload ==
    \A i \in DOMAIN c.tallyData :
      /\ c.tallyData[i].vcs \in VcsIds
      /\ Len(c.tallyData[i].cards) = ByVcs(c.tallyData[i].vcs).eligible
      /\ ~Duplicated(c.tallyData[i].cards)
CardIdsOk ==
    /\ \A i \in DOMAIN c.tallyData :
         /\ c.tallyData[i].vcs \in VcsIds
         /\ Len(c.tallyData[i].cards) = ByVcs(c.tallyData[i].vcs).eligible
    /\ \A i, j \in DOMAIN c.tallyData :
         \A k \in DOMAIN c.tallyData[i].cards, l \in DOMAIN c.tallyData[j].cards :
           c.tallyData[i].cards[k] = c.tallyData[j].cards[l] => <<i, k>> = <<j, l>>

(* 3.08, 3.09 and 3.10 compare fields of the components of each node.      *)
SameNodes ==
    /\ \A i \in DOMAIN c.online : c.online[i].node # NoNode
    /\ Nodes(c.online) = Nodes(c.setup.components)
    /\ ~Duplicated([i \in DOMAIN c.online |-> c.online[i].node])
SameField(field) ==
    c.online = <<>> \/
      /\ SameNodes
      /\ \A node \in Nodes(c.online) :
           ByNode(c.online, node)[field] = ByNode(c.setup.components, node)[field]

CcrKeysOk == SameField("ccr")
CcmKeysOk == SameField("ccm")
KeyProofsOk == SameField("ccrProofs") /\ SameField("ccmProofs")

(* C.01, 3.11, 3.12.                                                       *)
SetupKeys ==
    (UNION {ToSet(Ccr[i]) \cup ToSet(Ccm[i]) : i \in DOMAIN c.setup.components})
      \cup ToSet(c.setup.eb) \cup ToSet(c.setup.election) \cup ToSet(c.setup.choice)
      \cup (UNION {ToSet(c.tallyData[i].keys) : i \in DOMAIN c.tallyData})
MembersOk == \A key \in SetupKeys : GroupMember(SetupGroup, key)

CannotCombine ==
    Unequal(Ccr) \/ Unequal(Ccm) \/ Unequal(<<c.setup.eb, CombinePublicKeys(SetupGroup, Ccm)>>)
ChoiceKeyOk == CombinePublicKeys(SetupGroup, Ccr) = c.setup.choice

(* A mistake: the electoral board's key is left out.                       *)
ElectionKeyOkOfNodes == CombinePublicKeys(SetupGroup, Ccm) = c.setup.election
ElectionKeyOk ==
    CombinePublicKeys(SetupGroup, <<c.setup.eb, CombinePublicKeys(SetupGroup, Ccm)>>)
      = c.setup.election

(* 3.13: the entries of a table with what the configuration XML, if there  *)
(* is one, says of the domains of influence of the card set.               *)
Entries == UNION {ToSet(c.contexts[i].table) : i \in DOMAIN c.contexts}
TablesOk ==
    /\ \A i \in DOMAIN c.contexts :
         LET table == c.contexts[i].table
             triples == [k \in DOMAIN table |-> <<table[k].actual, table[k].info>>]
         IN  /\ ~Duplicated([k \in DOMAIN table |-> table[k].actual])
             /\ ~Duplicated([k \in DOMAIN table |-> table[k].enc])
             /\ c.xml.present => c.xml.parses /\ triples = c.contexts[i].configured
    /\ \A one, other \in Entries : one.actual = other.actual => one = other

(* 3.14: the sum of the eligible voters is the number of pairs of a        *)
(* context and one of its voters.                                          *)
Voters == UNION {{i} \X (1..c.contexts[i].eligible) : i \in DOMAIN c.contexts}
TotalVotersOk ==
    c.xml.present =>
      c.xml.parses /\ c.xml.total # NoTotal /\ c.xml.total = Cardinality(Voters)

(* 5.01, 5.02, 5.03, 5.04.                                                 *)
ParametersOk == c.seedOk /\ ContextGroup = Derived
SmallPrimesOk ==
    /\ SmallPrimeGroupMembers(ContextGroup, Len(c.primes)) # <<>>
    /\ c.primes = SmallPrimeGroupMembers(ContextGroup, Len(c.primes))

EncodedOptions == Ascending({entry.enc : entry \in Entries})
OptionsArePrefix == IsPrefix(EncodedOptions, c.primes)

(* small_primes[-psi_max:], everything for psi_max = 0.  A mistake takes   *)
(* the product of the smallest ones.                                       *)
VotingOptionsOkOfSmallest ==
    OptionsArePrefix
      /\ Product(c.primes, {k \in DOMAIN c.primes : k <= c.psiMax}) < ContextGroup.p
LargestPrimes ==
    IF c.psiMax \in 1..Len(c.primes) THEN (Len(c.primes) - c.psiMax + 1)..Len(c.primes)
    ELSE DOMAIN c.primes
VotingOptionsOk == OptionsArePrefix /\ Product(c.primes, LargestPrimes) < ContextGroup.p

(* A Schnorr proof is what it was made for: a key in a group, the election *)
(* event and the node.                                                     *)
SchnorrProofs(keys, group, event, node) ==
    [k \in DOMAIN keys |-> [key |-> keys[k], group |-> group, event |-> event, node |-> node]]

(* verify_schnorr refuses the key 1.                                       *)
SchnorrProofsOk ==
    \A i \in DOMAIN c.setup.components :
      LET component == c.setup.components[i]
      IN  /\ component.ccrProofs
                = SchnorrProofs(component.ccr, SetupGroup, c.events[1], component.node)
          /\ \A k \in DOMAIN component.ccr :
               component.ccr[k] # 1 /\ GroupMember(SetupGroup, component.ccr[k])

-----------------------------------------------------------------------------
Init == c \in Configs /\ ReportInit("1.01")

(* verify_config_phase returns at once when a setup file is missing.       *)
CheckSetupCompleteness ==
    Record("1.01", ~c.missing, IF c.missing THEN "done" ELSE "1.02") /\ UNCHANGED c

CheckForm(id, next) == Record(id, id \notin c.badForm, next) /\ UNCHANGED c

CheckSignatures ==
    /\ RecordAll("2.01", [i \in 1..5 |->
         Entry(<<"2.01", "2.02", "2.03", "2.04", "2.05">>[i], TRUE)], "3.01")
    /\ UNCHANGED c

CheckGroups == Record("3.01", AllEqual(c.groups), "3.02") /\ UNCHANGED c
CheckNodeIds == Record("3.02", NodeIdsOk, "3.03") /\ UNCHANGED c
CheckEvents == Record("3.04", AllEqual(c.events), "3.05") /\ UNCHANGED c
CheckCardSetIds == Record("3.05", CardSetIdsOk, "3.06") /\ UNCHANGED c
CheckCardSetPaths == Record("3.06", CardSetPathsOk, "3.07") /\ UNCHANGED c
CheckCardIds == Record("3.07", CardIdsOk, "3.13") /\ UNCHANGED c
CheckTables == Record("3.13", TablesOk, "3.14") /\ UNCHANGED c
CheckTotalVoters == Record("3.14", TotalVotersOk, "3.08") /\ UNCHANGED c

CheckOnlineKeys ==
    /\ RecordAll("3.08", <<Entry("3.08", CcrKeysOk), Entry("3.09", CcmKeysOk)>>, "3.10")
    /\ UNCHANGED c

CheckKeyProofs == Record("3.10", KeyProofsOk, "C.01") /\ UNCHANGED c
CheckMembers == Record("C.01", MembersOk, "3.11") /\ UNCHANGED c

CheckCombinedKeys ==
    /\ ~CannotCombine
    /\ RecordAll("3.11", <<Entry("3.11", ChoiceKeyOk), Entry("3.12", ElectionKeyOk)>>, "5.01")
    /\ UNCHANGED c
CombiningRaises == CannotCombine /\ Crash("3.11") /\ UNCHANGED c

CheckParameters == Record("5.01", ParametersOk, "5.02") /\ UNCHANGED c
CheckSmallPrimes == Record("5.02", SmallPrimesOk, "5.03") /\ UNCHANGED c
CheckVotingOptions == Record("5.03", VotingOptionsOk, "5.04") /\ UNCHANGED c
CheckSchnorrProofs == Record("5.04", SchnorrProofsOk, "done") /\ UNCHANGED c

Next ==
    \/ CheckSetupCompleteness
    \/ CheckForm("1.02", "1.03") \/ CheckForm("1.03", "2.01")
    \/ CheckSignatures
    \/ CheckGroups \/ CheckNodeIds \/ CheckForm("3.03", "3.04") \/ CheckEvents
    \/ CheckCardSetIds \/ CheckCardSetPaths \/ CheckCardIds
    \/ CheckTables \/ CheckTotalVoters
    \/ CheckOnlineKeys \/ CheckKeyProofs
    \/ CheckMembers \/ CheckCombinedKeys \/ CombiningRaises
    \/ CheckParameters \/ CheckSmallPrimes \/ CheckVotingOptions \/ CheckSchnorrProofs

Spec == Init /\ [][Next]_vars

-----------------------------------------------------------------------------
(* Properties.                                                             *)

Accepted == pc = "done" /\ ReportOk

(* An accepted setup with the control components' own payloads uses the    *)
(* four components' keys: the election key is the product, in the group    *)
(* derived from the seed, of the CCM keys that the four nodes published    *)
(* and the electoral board's key, all of them elements of the group.  No   *)
(* single check says so (3.01, 3.02, 3.09, 3.12, C.01, 5.01), and the      *)
(* verifier takes it for granted that the setup lists no node twice.       *)
OfNode(components, node) == components[CHOOSE i \in DOMAIN components : components[i].node = node]
PublishedCcm(node) == OfNode(c.online, node).ccm
KeysGenuine ==
    (/\ Accepted /\ c.online # <<>>
     /\ ~Duplicated([i \in DOMAIN c.setup.components |-> c.setup.components[i].node])) =>
      /\ Len(c.online) = 4
      /\ Len(c.setup.election) = Len(c.setup.eb)
      /\ \A k \in DOMAIN c.setup.election :
           LET a ** b == Times(Derived.p, a, b)
           IN  c.setup.election[k]
                 = c.setup.eb[k] ** PublishedCcm(1)[k] ** PublishedCcm(2)[k]
                     ** PublishedCcm(3)[k] ** PublishedCcm(4)[k]
      /\ \A i \in DOMAIN c.online :
           \A key \in ToSet(c.online[i].ccm) \cup ToSet(c.setup.eb) : GroupMember(Derived, key)

(* The voting cards of an accepted setup are as many as the configuration  *)
(* has voters, and no card is in two card sets (3.05, 3.06, 3.07, 3.14);   *)
(* for a dataset laid out in directories with a configuration XML whose    *)
(* contexts have different card sets.                                      *)
CardsCountVoters ==
    (/\ Accepted /\ c.xml.present /\ PathShaped = DOMAIN c.tallyData /\ c.tallyData # <<>>
     /\ ~Duplicated([i \in DOMAIN c.contexts |-> c.contexts[i].vcs])) =>
      Cardinality(UNION {ToSet(c.tallyData[i].cards) : i \in DOMAIN c.tallyData}) = c.xml.total

(* The tables of an accepted setup can be decoded: a choice of at most     *)
(* psi_max different options has a product below p, and no other choice    *)
(* from that table has the same one (3.13, 5.01, 5.02, 5.03).  The tally   *)
(* multiplies modulo p and factors what it decrypts (ProcessPlaintexts).   *)
TablesDecodable ==
    Accepted =>
      \A i \in DOMAIN c.contexts :
        LET table == c.contexts[i].table
            Selections == {S \in SUBSET DOMAIN table : Cardinality(S) <= c.psiMax}
            Encoded(S) == Product([k \in DOMAIN table |-> table[k].enc], S)
        IN  /\ \A S \in Selections : Encoded(S) < Derived.p
            /\ \A S, T \in Selections : Encoded(S) = Encoded(T) => S = T
            /\ \A k, l \in DOMAIN table : table[k].actual = table[l].actual => k = l

(* Honest setups, whatever they list and in whatever layout it comes.      *)

(* Every payload is of the group derived from the seed and of one event.   *)
HonestPayloads(x) ==
    /\ ~x.missing /\ x.seedOk /\ x.badForm = {}
    /\ \A i \in DOMAIN x.groups : x.groups[i] = Derived
    /\ \A i, k \in DOMAIN x.events : x.events[i] = x.events[k]

(* Four components with keys in the group, the CCR keys other than 1 and   *)
(* proven for this event, and the combined keys of these; their own        *)
(* payloads, if they are there, in any order.                              *)
AreFour(components) ==
    /\ Len(components) = 4
    /\ \A node \in 1..4 : \E i \in DOMAIN components : components[i].node = node
InGroup(keys) == \A k \in DOMAIN keys : GroupMember(Derived, keys[k])
Combined(keys, k) ==
    LET a ** b == Times(Derived.p, a, b)
    IN  keys[1][k] ** keys[2][k] ** keys[3][k] ** keys[4][k]
HonestKeys(x) ==
    LET own == x.setup.components
        ccr == [node \in 1..4 |-> OfNode(own, node).ccr]
        ccm == [node \in 1..4 |-> OfNode(own, node).ccm]
    IN  /\ AreFour(own)
        /\ \A i, k \in DOMAIN own : Len(own[i].ccr) = Len(own[k].ccr)
        /\ \A i \in DOMAIN own :
             /\ InGroup(own[i].ccr) /\ InGroup(own[i].ccm)
             /\ Len(own[i].ccm) = Len(x.setup.eb)
             /\ \A k \in DOMAIN own[i].ccr : own[i].ccr[k] # 1
             /\ own[i].ccrProofs
                  = SchnorrProofs(own[i].ccr, Derived, x.events[1], own[i].node)
        /\ InGroup(x.setup.eb)
        /\ x.setup.choice = [k \in DOMAIN ccr[1] |-> Combined(ccr, k)]
        /\ x.setup.election
             = [k \in DOMAIN x.setup.eb |-> Times(Derived.p, x.setup.eb[k], Combined(ccm, k))]
        /\ x.online = <<>> \/
             /\ AreFour(x.online)
             /\ \A i \in DOMAIN x.online : \E k \in DOMAIN own : x.online[i] = own[k]

(* One payload for each card set, with a card for each voter, all in one   *)
(* file or all in directories of their own.                                *)
HonestCards(x) ==
    LET data == x.tallyData
    IN  /\ \A i, k \in DOMAIN x.contexts : x.contexts[i].vcs = x.contexts[k].vcs => i = k
        /\ \A i, k \in DOMAIN data : data[i].vcs = data[k].vcs => i = k
        /\ {data[i].vcs : i \in DOMAIN data} = {x.contexts[k].vcs : k \in DOMAIN x.contexts}
        /\ \A i \in DOMAIN data, k \in DOMAIN x.contexts :
             data[i].vcs = x.contexts[k].vcs => Len(data[i].cards) = x.contexts[k].eligible
        /\ \A i, k \in DOMAIN data : \A j \in DOMAIN data[i].cards, l \in DOMAIN data[k].cards :
             data[i].cards[j] = data[k].cards[l] => i = k /\ j = l
        /\ \/ \A i \in DOMAIN data : data[i].path = NoPath
           \/ \A i \in DOMAIN data : data[i].path = data[i].vcs
        /\ \A i \in DOMAIN data : InGroup(data[i].keys)

(* The primes are the first ones from 5 on in the group, and any that may  *)
(* be selected together have a product below p.                            *)
IsCode(n) == n \in 5..(Derived.p - 1) /\ IsPrime(n) /\ GroupMember(Derived, n)
HonestPrimes(x) ==
    /\ Len(x.primes) \in PrimeCounts
    /\ \A i, k \in DOMAIN x.primes : i < k => x.primes[i] < x.primes[k]
    /\ \A k \in DOMAIN x.primes :
         /\ IsCode(x.primes[k])
         /\ \A n \in 5..x.primes[k] : IsCode(n) => \E i \in DOMAIN x.primes : x.primes[i] = n
    /\ x.psiMax > 0
    /\ \A S \in SUBSET DOMAIN x.primes :
         Cardinality(S) <= x.psiMax => Product(x.primes, S) < Derived.p

(* The first of them encode the options, one each.                         *)
HonestTables(x) ==
    LET entries == UNION {ToSet(x.contexts[i].table) : i \in DOMAIN x.contexts}
    IN  /\ \E n \in 0..Len(x.primes) :
             {entry.enc : entry \in entries} = {x.primes[k] : k \in 1..n}
        /\ \A one, other \in entries : one.actual = other.actual \/ one.enc = other.enc => one = other
        /\ \A i \in DOMAIN x.contexts : \A k, l \in DOMAIN x.contexts[i].table :
             x.contexts[i].table[k] = x.contexts[i].table[l] => k = l

(* The configuration, if it is there, has these tables and a voter for     *)
(* each card.                                                              *)
HonestConfiguration(x) ==
    x.xml.present =>
      /\ x.xml.parses
      /\ \A i \in DOMAIN x.contexts :
           LET table == x.contexts[i].table
           IN  x.contexts[i].configured = [k \in DOMAIN table |-> <<table[k].actual, table[k].info>>]
      /\ x.xml.total = Cardinality(UNION {ToSet(x.tallyData[i].cards) : i \in DOMAIN x.tallyData})

IsHonest(x) ==
    /\ HonestPayloads(x) /\ HonestKeys(x) /\ HonestCards(x)
    /\ HonestPrimes(x) /\ HonestTables(x) /\ HonestConfiguration(x)

(* No honest setup is turned away: with the components' keys in any order, *)
(* with or without their own payloads, directories and configuration, no   *)
(* check of verify_config_phase fails and none raises.                     *)
HonestConfigAccepted == IsHonest(c) => ReportOk /\ pc # "crashed"
=============================================================================
