--------------------------- MODULE MCVerifyConfig ---------------------------
(* Instances of VerifyConfig for TLC: honest setups in the group of the    *)
(* squares modulo 359, and what may be wrong with one.                     *)
EXTENDS VerifyConfig

Group359 == [p |-> 359, q |-> 179, g |-> 2]
Group383 == [p |-> 383, q |-> 191, g |-> 2]

Proofs(keys, node) == SchnorrProofs(keys, Group359, "event", node)
ComponentOf(node, ccr, ccm) ==
    [node |-> node, ccr |-> ccr, ccrProofs |-> Proofs(ccr, node),
     ccm |-> ccm, ccmProofs |-> Proofs(ccm, node)]
SetupOf(components, eb) ==
    LET ccm == CombinePublicKeys(Group359, [i \in DOMAIN components |-> components[i].ccm])
    IN  [components |-> components, eb |-> eb,
         choice |-> CombinePublicKeys(Group359, [i \in DOMAIN components |-> components[i].ccr]),
         election |-> IF Unequal(<<eb, ccm>>) THEN eb ELSE CombinePublicKeys(Group359, <<eb, ccm>>)]

Four == [i \in 1..4 |-> ComponentOf(i, <<4, (i + 1) * (i + 1)>>, <<9 * i * i>>)]
Stranger == ComponentOf(5, <<4, 25>>, <<81>>)

Option(actual, enc) == [actual |-> actual, enc |-> enc, info |-> "info"]
Context(vcs, eligible, table) ==
    [vcs |-> vcs, eligible |-> eligible, table |-> table,
     configured |-> [i \in DOMAIN table |-> <<table[i].actual, table[i].info>>]]
TableOne == <<Option("blank", 5), Option("yes", 11)>>
TableTwo == <<Option("yes", 11), Option("no", 17), Option("blank", 5)>>

CardData(path, vcs, cards) == [path |-> path, vcs |-> vcs, cards |-> cards, keys |-> <<4, 9>>]
Xml(total) == [present |-> TRUE, parses |-> TRUE, total |-> total]
NoXml == [present |-> FALSE, parses |-> FALSE, total |-> NoTotal]

(* Two card sets of one and two voters.                                    *)
Honest ==
    [missing |-> FALSE, seedOk |-> TRUE, badForm |-> {},
     groups |-> [i \in 1..8 |-> Group359], events |-> [i \in 1..8 |-> "event"],
     contexts |-> <<Context("a", 1, TableOne), Context("b", 2, TableTwo)>>,
     setup |-> SetupOf(Four, <<16>>), online |-> Four,
     tallyData |-> <<CardData("a", "a", <<1>>), CardData("b", "b", <<2, 3>>)>>,
     xml |-> Xml(3), primes |-> <<5, 11, 17>>, psiMax |-> 2]

HonestConfigs ==
    {Honest,
     [Honest EXCEPT !.xml = NoXml],
     [Honest EXCEPT !.online = <<>>],
     [Honest EXCEPT !.online = Reverse(@)],
     [Honest EXCEPT !.tallyData = <<CardData(NoPath, "b", <<2, 3>>), CardData(NoPath, "a", <<1>>)>>],
     [Honest EXCEPT !.contexts = <<Context("a", 1, TableOne)>>, !.tallyData = <<CardData("a", "a", <<9>>)>>,
                    !.xml = Xml(1), !.psiMax = 1],
     [Honest EXCEPT !.primes = <<5, 11, 17, 23>>, !.psiMax = 1]}

(* The keys: payloads and the setup's list with a component missing, twice *)
(* there, in excess, or changed, alone or in both; the combined keys as    *)
(* they should be or not; keys outside the group or of other lengths.      *)
Lists ==
    {Four, Tail(Four), Append(Four, Four[1]), Append(Four, Stranger), <<>>,
     [Four EXCEPT ![4] = Stranger], [Four EXCEPT ![2] = Four[1]],
     [Four EXCEPT ![3].ccm = <<49>>], [Four EXCEPT ![3].ccr = <<4, 49>>],
     [Four EXCEPT ![3].ccmProofs = <<>>], [Four EXCEPT ![3].ccrProofs = Tail(@)],
     [Four EXCEPT ![3].ccrProofs[1].event = "other"], [Four EXCEPT ![3] = ComponentOf(3, <<4, 1>>, <<81>>)],
     [Four EXCEPT ![1].node = NoNode], [Four EXCEPT ![2].ccm = <<7>>],
     [Four EXCEPT ![2].ccm = <<4, 4>>]}
KeyConfigs ==
    {[Honest EXCEPT !.setup = SetupOf(own, <<16>>), !.online = online] :
       own \in {l \in Lists : \A i \in DOMAIN l : l[i].node # NoNode}, online \in Lists}
      \cup {[Honest EXCEPT !.setup.election = <<4>>], [Honest EXCEPT !.setup.choice = <<4, 4>>],
            [Honest EXCEPT !.setup.eb = <<16, 16>>], [Honest EXCEPT !.setup = SetupOf(Four, <<7>>)],
            [Honest EXCEPT !.groups[1] = Group383], [Honest EXCEPT !.groups[2] = Group383],
            [Honest EXCEPT !.groups[8] = Group383], [Honest EXCEPT !.events[7] = "other"],
            [Honest EXCEPT !.groups = [i \in 1..8 |-> Group383], !.primes = <<7, 17, 19>>],
            [Honest EXCEPT !.seedOk = FALSE], [Honest EXCEPT !.missing = TRUE],
            [Honest EXCEPT !.badForm = {"1.02"}], [Honest EXCEPT !.badForm = FormIds]}

(* The cards: of two payloads, every choice of directory, card set and     *)
(* cards, with the voters the contexts and the configuration tell of.      *)
CardLists == {<<>>, <<1>>, <<2>>, <<1, 2>>, <<2, 3>>, <<2, 2>>}
CardConfigs ==
    {[Honest EXCEPT !.tallyData = <<CardData(path, vcs, <<1>>), CardData(path2, vcs2, cards)>>,
                    !.xml = xml] :
       path, path2 \in {NoPath, "a", "b"}, vcs \in {"a", "b"}, vcs2 \in {"a", "b", "c"},
       cards \in CardLists, xml \in {Xml(3), NoXml}}
      \cup {[Honest EXCEPT !.tallyData = data, !.contexts[2].eligible = eligible, !.xml = xml] :
              data \in {<<CardData("a", "a", <<1>>)>>, <<CardData("b", "b", <<2, 3>>)>>, <<>>,
                        <<CardData("a", "a", <<1>>), CardData("b", "b", <<1, 2>>)>>,
                        Honest.tallyData, Append(Honest.tallyData, CardData("b", "b", <<2, 3>>))},
              eligible \in 1..3, xml \in {Xml(2), Xml(3), Xml(NoTotal), NoXml}}
      \cup {[Honest EXCEPT !.contexts[2].vcs = "a"]}

(* The tables: options twice in a table, with other codes in another one,  *)
(* not as configured; the primes and the number of selections.             *)
Tables ==
    {TableOne, TableTwo, Tail(TableTwo), Append(TableOne, Option("yes", 17)),
     Append(TableOne, Option("no", 11)), Append(TableOne, Option("no", 17)),
     TableTwo \o <<Option("maybe", 23)>>, <<Option("blank", 11), Option("yes", 5)>>,
     TableOne \o <<Option("no", 23)>>, <<>>}
TableConfigs ==
    {[Honest EXCEPT !.contexts[1] = Context("a", 1, one), !.contexts[2] = Context("b", 2, two),
                    !.primes = primes, !.psiMax = psiMax] :
       one \in Tables, two \in {TableOne, TableTwo}, psiMax \in 0..4,
       primes \in {<<5, 11, 17>>, <<5, 11, 17, 23>>}}
      \cup {[Honest EXCEPT !.primes = primes] :
              primes \in {<<>>, <<5, 11>>, <<5, 7, 11, 17>>, <<5, 17, 11>>, <<1, 5, 11, 17>>}}
      \cup {[Honest EXCEPT !.contexts[1].configured = Reverse(@)], [Honest EXCEPT !.xml.parses = FALSE]}

AllConfigs == HonestConfigs \cup KeyConfigs \cup CardConfigs \cup TableConfigs

ASSUME HonestInstances == \A x \in HonestConfigs : IsHonest(x)
=============================================================================
