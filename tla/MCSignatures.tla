---------------------------- MODULE MCSignatures -----------------------------
(* Instances of Signatures for TLC: two components and the setup and tally  *)
(* components sign the files of an election and of an earlier one; trust    *)
(* stores with certificates under several names, renewed, expired or mixed  *)
(* up; and what may happen to the signed files.                             *)
EXTENDS Signatures

Item(family, group, event, node, id, parts) ==
    [family |-> family, group |-> group, event |-> event, node |-> node, id |-> id,
     parts |-> parts, whole |-> TRUE]
Original(signer, item) == [signer |-> signer, item |-> item]
Two == <<<<1, "x">>, <<2, "y">>>>

Keys(node, event) == Original(Component(node), Item("onlineKeys", "G", event, node, "none", <<<<1, Component(node)>>>>))
OfSetup(family, id, parts) == Original("sdm_config", Item(family, "G", "E", 0, id, parts))
Online(family, node, event, box) == Original(Component(node), Item(family, "G", event, node, box, Two))
Final(family, box) == Original("sdm_tally", Item(family, "G", "E", 0, box, Two))

ConfigOriginals ==
    <<Keys(1, "E"), Keys(2, "E"), OfSetup("setupKeys", "none", Two), OfSetup("tallyData", "v1", Two),
      OfSetup("tallyData", "v2", <<<<1, "x">>>>), OfSetup("context", "none", Two)>>
TallyOriginals ==
    <<Online("ballotBox", 1, "E", "b1"), Online("ballotBox", 2, "E", "b1"), Online("shuffle", 1, "E", "b1"),
      Online("shuffle", 2, "E", "b1"), Final("finalShuffle", "b1"), Final("finalVotes", "b1")>>
EarlierOriginals == {Keys(1, "F"), Online("ballotBox", 1, "F", "b1"), Online("ballotBox", 1, "E", "b2")}
MCOriginals == ToSet(ConfigOriginals) \cup ToSet(TallyOriginals) \cup EarlierOriginals

(* What signing makes: the key of the signer over its own item.            *)
Signature(o) ==
    [key |-> o.signer, message |-> Message(o.item.group, o.item), context |-> ContextOf(o.item)]
Signed(o) == o.item @@ [signature |-> Signature(o)]

XmlSignature(place, standard, digest, key) ==
    [place |-> place, standard |-> standard, digest |-> digest, key |-> key]
GoodXml(phase) ==
    IF phase = "config" THEN XmlSignature("root-last-child", TRUE, "doc", "canton")
    ELSE XmlSignature("extensions-child", TRUE, "doc", "sdm_tally")
Xml(signatures) == [present |-> TRUE, content |-> "doc", signatures |-> signatures]
NoXml == [present |-> FALSE, content |-> "none", signatures |-> <<>>]

Honest(phase) ==
    LET originals == IF phase = "config" THEN ConfigOriginals ELSE TallyOriginals
    IN  [phase |-> phase, trusted |-> TRUE, setup |-> TRUE, group |-> "G",
         xml |-> Xml(<<GoodXml(phase)>>),
         items |-> [i \in DOMAIN originals |-> Signed(originals[i])]]

XmlFaults(phase) ==
    LET good == GoodXml(phase)
        other == XmlSignature("elsewhere", TRUE, "doc", "canton")
    IN  {Xml(<<>>), Xml(<<good, other>>), Xml(<<other>>), Xml(<<[good EXCEPT !.standard = FALSE]>>),
         Xml(<<[good EXCEPT !.digest = "other"]>>), Xml(<<[good EXCEPT !.key = "sdm_config"]>>), NoXml}

Altered(item) ==
    {[item EXCEPT !.node = n] : n \in IF item.node = 0 THEN {} ELSE {1, 2, 5}}
      \cup {[item EXCEPT !.id = id] : id \in IF item.id = "none" THEN {} ELSE {"b2"}}
      \cup {[item EXCEPT !.event = "F"], [item EXCEPT !.group = "H"],
            [item EXCEPT !.whole = FALSE], [item EXCEPT !.parts = Reverse(@)],
            [item EXCEPT !.parts[1] = <<1, "z">>], [item EXCEPT !.parts = Tail(@)]}
      \cup {[item EXCEPT !.signature = Signature(o)] : o \in MCOriginals}
      \cup {[item EXCEPT !.signature.key = "other"]}

WithFault(h) ==
    UNION {{[h EXCEPT !.items[i] = item] : item \in Altered(h.items[i])} : i \in DOMAIN h.items}
      \cup {[h EXCEPT !.items = SelectSeq(@, LAMBDA item : item.family # family)] :
              family \in {"onlineKeys", "finalShuffle", "finalVotes"}}
      \cup {[h EXCEPT !.items[1] = Signed(o)] : o \in {q \in EarlierOriginals : q.item.family = h.items[1].family}}
      \cup {[h EXCEPT !.xml = xml] : xml \in XmlFaults(h.phase)}
      \cup {[h EXCEPT !.trusted = FALSE]}
      \cup (IF h.phase = "tally" THEN {[h EXCEPT !.setup = FALSE]} ELSE {})
MCEvidence == UNION {{Honest(phase)} \cup WithFault(Honest(phase)) : phase \in {"config", "tally"}}

-----------------------------------------------------------------------------
Cert(key, from, until) == [key |-> key, from |-> from, until |-> until]
File(kind, name, cn, certs) == [kind |-> kind, name |-> name, cn |-> cn, certs |-> certs, broken |-> FALSE]
Lasting(key) == Cert(key, 0, EndOfTime + 1)

Order == <<"control_component_1", "control_component_2", "sdm_config", "sdm_tally", "canton">>
Pems == [k \in 1..5 |-> File("cert", Order[k], NoName, <<Lasting(Order[k])>>)]
Keystores == [k \in 1..5 |-> File("p12", Order[k], "Unnamed", <<Lasting(Order[k]), Lasting("other")>>)]
ByCommonName == [k \in 1..5 |-> File(IF k < 3 THEN "cert" ELSE "p12", "file", Order[k], <<Lasting(Order[k])>>)]
Text == File("other", "control_component_1", NoName, <<>>)

MCDirectories ==
    {Pems, ByCommonName, <<Text>> \o Keystores,
     <<File("cert", Order[1], NoName, <<Cert(Order[1], 0, 1)>>)>> \o Keystores,
     <<>>, Tail(Keystores),
      [Pems EXCEPT ![1].certs[1] = Cert(Order[1], 1, 2)],
      [Pems EXCEPT ![3].certs[1] = Cert(Order[3], 0, 2)],
      [Pems EXCEPT ![4].certs[1] = Cert(Order[4], 1, 3)],
      Append(Pems, File("cert", Order[1], NoName, <<Cert(Order[1], 0, 1)>>)),
      <<File("p12", Order[2], NoName, <<Lasting("other")>>)>> \o Pems,
      <<File("cert", Order[2], NoName, <<Lasting("other")>>)>> \o Pems,
      [Pems EXCEPT ![2].cn = Order[1]],
      [Pems EXCEPT ![1].broken = TRUE], [Keystores EXCEPT ![5].broken = TRUE],
      [Keystores EXCEPT ![1].certs = <<>>]}
=============================================================================
