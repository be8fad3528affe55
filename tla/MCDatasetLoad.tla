---------------------------- MODULE MCDatasetLoad ----------------------------
(***************************************************************************)
(* Dataset directories: the layouts of the fixtures and of the data        *)
(* exchange, alone and side by side, with one file wrong or two exchanged.  *)
(***************************************************************************)
EXTENDS DatasetLoad

MCBallotBoxes == {"b1", "b2"}
MCCardSets == {"v1", "v2"}
MCOccurs(id, label) == id = label.of \/ (id = "b1" /\ label.of = "b12")
CONSTANTS MCLayouts,   \* names of the layouts that are checked
          MCFaults     \* whether one fault may be in a store

File(tree, place, of, family, number, form, body) ==
    [tree |-> tree, place |-> place, of |-> of, family |-> family, number |-> number,
     form |-> form, body |-> body]
Payload(node, id) == [node |-> node, id |-> id]
Some == <<Payload(0, "none")>>   \* a payload of the whole election

-----------------------------------------------------------------------------
(* The layouts.                                                            *)

Single(tree, place, family) == File(tree, place, "none", family, 0, "one", Some)

Context(tree, place) == {Single(tree, place, "context"), Single(tree, place, "setupKeys")}
KeysPerNode(tree) ==
    {File(tree, "context", "none", "onlineKeys", n, "one", <<Payload(n, "none")>>) : n \in 1..4}
KeysList(tree, place) ==
    {File(tree, place, "none", "onlineKeys", -1, "list", [n \in 1..4 |-> Payload(n, "none")])}
DataPerSet(tree) ==
    {File(tree, "verificationCardSets", v, "tallyData", 0, "one", <<Payload(0, v)>>) : v \in MCCardSets}
DataList(tree) ==
    {File(tree, "top", "none", "tallyData", -1, "list", <<Payload(0, "v1"), Payload(0, "v2")>>)}

BoxesPerNode(tree) ==
    {File(tree, "ballotBoxes", b, family, n, "one", <<Payload(n, b)>>) :
       b \in MCBallotBoxes, n \in 1..4, family \in {"ballotBox", "shuffle"}}
BoxesList(tree) ==
    {File(tree, "top", "none", family, -1, "list",
          [k \in 1..8 |-> Payload((k + 1) \div 2, IF k % 2 = 1 THEN "b1" ELSE "b2")]) :
       family \in {"ballotBox", "shuffle"}}
FinalsPerBox(tree) ==
    {File(tree, "ballotBoxes", b, family, 0, "one", <<Payload(0, b)>>) :
       b \in MCBallotBoxes, family \in {"finalShuffle", "finalVotes"}}

Exchange(tree) == Context(tree, "context") \cup KeysPerNode(tree) \cup DataPerSet(tree)
Boxes(tree) == BoxesPerNode(tree) \cup FinalsPerBox(tree)
Xmls(tree, place, other) ==
    {Single(tree, place, IF tree = "D3" THEN "ech" ELSE "configXml"),
     File(tree, other, "none", IF tree = "D3" THEN "ech" ELSE "configXml", -1, "one", Some)}

LayoutsOf(name) ==
    CASE name = "exchange" ->
           Exchange("D2") \cup Boxes("D3") \cup Xmls("D2", "context", "context") \cup Xmls("D3", "tally", "top")
      [] name = "plain" -> Exchange("root") \cup Boxes("root")
      [] name = "fixture" -> Context("root", "top") \cup DataList("root") \cup BoxesList("root")
      [] name = "fixtureKeys" ->
           Context("root", "top") \cup KeysPerNode("root") \cup DataList("root") \cup BoxesList("root")
      [] name = "fixtureKeysList" ->
           Context("root", "top") \cup KeysList("root", "top") \cup DataList("root") \cup BoxesList("root")
      [] name = "mixed" ->
           Exchange("D2") \cup BoxesList("root") \cup FinalsPerBox("root")
             \cup {File("root", "tally", "none", "ech", -1, "one", Some)}
      [] name = "beside" ->
           Exchange("D2") \cup Boxes("D3") \cup Context("root", "top") \cup DataList("root") \cup BoxesList("root")

Honest == {LayoutsOf(name) : name \in MCLayouts}

-----------------------------------------------------------------------------
(* The faults.                                                             *)

WithBody(f, body) == [f EXCEPT !.body = body, !.form = IF Len(body) = 1 THEN f.form ELSE "list"]
Altered(f) ==
    {WithBody(f, [f.body EXCEPT ![1] = p]) :
       p \in {Payload(n, f.body[1].id) : n \in {0, 2, 5}}
             \cup {Payload(f.body[1].node, id) : id \in {"b1", "v2", "x", "none"}}}
Renamed(f) ==
    (IF f.number > 0 THEN {[f EXCEPT !.number = n] : n \in {1, 2}} ELSE {})
      \cup (IF f.of = "none" THEN {} ELSE {[f EXCEPT !.of = id] : id \in {"b1", "b2", "b12", "v1", "x"}})
Repackaged(f) ==
    {[f EXCEPT !.form = "list"], [f EXCEPT !.form = "broken"]}
      \cup {[f EXCEPT !.form = "list", !.body = f.body \o f.body]}
Replaced(f) ==
    CASE f.family \in {"configXml", "ech"} -> {}
      [] f.family \in {"context", "setupKeys"} -> {[f EXCEPT !.form = "broken"]}
      [] OTHER -> Altered(f) \cup Renamed(f) \cup Repackaged(f)

Stray ==
    {File("root", "top", "none", "setupKeys", 0, "one", Some),
     File("D2", "top", "none", "setupKeys", 0, "one", Some),
     File("D2", "context", "none", "onlineKeys", 0, "one", <<Payload(2, "none")>>),
     File("D3", "ballotBoxes", "b2", "shuffle", 1, "one", <<Payload(1, "b2")>>)}
      \cup KeysList("D2", "context") \cup BoxesList("D3") \cup BoxesList("root")

Copies(f, g) == f.family = g.family /\ f.place = g.place /\ f.of = g.of /\ f.number = g.number /\ f.tree = g.tree
Put(S, f) == {g \in S : ~Copies(f, g)} \cup {f}   \* a path has one file
Faulty(S) ==
    {S \ {f} : f \in S} \cup {Put(S, f) : f \in Stray}
      \cup UNION {{Put(S \ {f}, g) : g \in Replaced(f)} : f \in S}

(* Two files of a family have changed places.                              *)
Swapped(S) ==
    UNION {{(S \ {f, g}) \cup {[f EXCEPT !.body = g.body], [g EXCEPT !.body = f.body]} :
              g \in {h \in S : h.form = "one" /\ h.family = f.family /\ h # f}} :
            f \in {h \in S : h.form = "one" /\ h.body # Some}}

MCStores ==
    Honest
      \cup (IF MCFaults THEN UNION {Faulty(S) \cup Swapped(S) : S \in Honest} ELSE {})

(* Every layout but the list of keys is an honest dataset.                 *)
ASSUME HonestLayouts ==
    \A name \in {"exchange", "plain", "fixture", "fixtureKeys", "mixed", "beside"} :
      HonestSetup(LayoutsOf(name)) /\ HonestTally(LayoutsOf(name))

(* The file-name checks are made "where file paths carry ids such as node  *)
(* ids" (DEVELOPMENT_ISSUES.md:46): keys that come in order in one         *)
(* aggregated file, whose path carries none, pass 3.03.                    *)
KeyListAccepted ==
    (store \in Honest /\ \E f \in store : f.family = "onlineKeys" /\ f.number = All) =>
      (Ran("3.03") => Passed("3.03"))
=============================================================================
