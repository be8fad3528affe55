----------------------------- MODULE DatasetLoad -----------------------------
(***************************************************************************)
(* FixtureDataset.__init__: which files of a dataset directory are read,   *)
(* under which labels, and the checks that compare labels with contents    *)
(* (1.01, 3.02, 3.03, 3.05, 3.06 and 6.01, 8.02, 8.03, 8.05, 8.06).        *)
(*                                                                         *)
(* A store is the set of files under the root.  A file has the fields      *)
(*                                                                         *)
(*   tree    "root", "D2" (D2/secure-data-manager-setup) or                *)
(*           "D3" (D3/secure-data-manager-tally)                           *)
(*   place   "top", "context", "tally", or a directory of its own below    *)
(*           "verificationCardSets" or "ballotBoxes"                       *)
(*   of      the name of that directory                                    *)
(*   family  what the file's name says it holds                            *)
(*   number  n for the name with node n's suffix, One for the singular     *)
(*           name without a suffix, All for the plural name                *)
(*   form    "one" payload, a "list" of payloads, or "broken" JSON         *)
(*   body    the payloads, each with its node and the id of its card set   *)
(*           or ballot box                                                 *)
(*                                                                         *)
(* A label is the path with the position in the list, and no two payloads  *)
(* have the same: what is loaded is a set.                                 *)
(***************************************************************************)
EXTENDS Report, Integers, FiniteSets

CONSTANTS Stores,        \* the sets of files
          BallotBoxes,   \* the ballot boxes the election event context lists
          CardSets,      \* the verification card sets it lists
          Occurs(_, _)   \* whether an id is part of the text of a label

All == -1
One == 0
NoIndex == -1     \* a label that is a path
NoNode == 0       \* a payload without a node id
NoId == "none"    \* a payload, or a path, without an id

SetupFamilies == {"context", "setupKeys", "onlineKeys", "tallyData", "configXml"}
OnlineFamilies == {"ballotBox", "shuffle"}
FinalFamilies == {"finalShuffle", "finalVotes"}
TallyFamilies == OnlineFamilies \cup FinalFamilies \cup {"ech"}
Families == SetupFamilies \cup TallyFamilies

IsFile(f) ==
    /\ f.tree \in {"root", "D2", "D3"}
    /\ f.family \in Families /\ f.number \in All..4
    /\ f.place \in {"top", "context", "tally", "verificationCardSets", "ballotBoxes"}
    /\ f.of # NoId <=> f.place \in {"verificationCardSets", "ballotBoxes"}
    /\ f.form \in {"one", "list", "broken"}
    /\ DOMAIN f.body = 1..Len(f.body) /\ Len(f.body) \in Nat
    /\ f.form = "one" => Len(f.body) = 1
    /\ f.family \in {"configXml", "ech"} => f.form = "one"

Path(f) == <<f.tree, f.place, f.of, f.family, f.number>>

(* A directory has finitely many files, each at a path of its own; the XML *)
(* files that have another name than the preferred one share All.          *)
ASSUME StoresAssumption ==
    \A S \in Stores :
      /\ IsFiniteSet(S) /\ \A f \in S : IsFile(f)
      /\ \A f, g \in S : Path(f) = Path(g) /\ f.family \notin {"configXml", "ech"} => f = g
ASSUME IdsAssumption == NoId \notin BallotBoxes \cup CardSets

VARIABLES store,    \* the files, which the verifier never writes
          phase,    \* "config" or "tally", the command
          loaded    \* per family, the payloads with their labels

vars == <<store, phase, loaded, pc, report>>

-----------------------------------------------------------------------------
(* Discovery and the loaders.                                              *)

(* _discover_setup_root, _discover_tally_root.  A mistake: both roots are  *)
(* chosen by the setup's.                                                  *)
SetupRoot ==
    IF \E f \in store : f.tree = "D2" /\ f.place = "context" /\ f.family = "context" /\ f.number = One
    THEN "D2" ELSE "root"
TallyRootBesideSetup == IF SetupRoot = "D2" THEN "D3" ELSE "root"
TallyRoot ==
    IF \E f \in store : f.tree = "D3" /\ f.place \in {"tally", "ballotBoxes"} THEN "D3" ELSE "root"

FilesOf(tree, family, place, numbers) ==
    {f \in store : f.tree = tree /\ f.family = family /\ f.place = place /\ f.number \in numbers}

FirstOf(preferred, others) == IF preferred # {} THEN preferred ELSE others

(* _load_context_json: one file, at the top or else in context.  A         *)
(* mistake: what is not found below the setup root is looked for in root.  *)
ContextFilesOf(tree, family) ==
    FirstOf(FilesOf(tree, family, "top", {One}), FilesOf(tree, family, "context", {One}))
ContextFilesOfAnyTree(family) ==
    FirstOf(ContextFilesOf(SetupRoot, family), ContextFilesOf("root", family))
ContextFiles(family) == ContextFilesOf(SetupRoot, family)

OnlineKeyFiles ==
    FilesOf(SetupRoot, "onlineKeys", "context", 1..4)
      \cup UNION {FilesOf(SetupRoot, "onlineKeys", place, {One, All}) : place \in {"top", "context"}}

TallyDataFiles ==
    FilesOf(SetupRoot, "tallyData", "top", {One, All})
      \cup FilesOf(SetupRoot, "tallyData", "verificationCardSets", {One})

(* _load_tally_payloads.  A mistake: the directories are not looked at     *)
(* when there is an aggregated file.                                       *)
AggregatedOrPerNode(family) ==
    FirstOf(FilesOf(TallyRoot, family, "top", {All}),
            FilesOf(TallyRoot, family, "ballotBoxes", 1..4))
TallyFiles(family) ==
    FilesOf(TallyRoot, family, "top", {All}) \cup FilesOf(TallyRoot, family, "ballotBoxes", 1..4)

(* _load_optional_payloads.                                                *)
FinalFiles(family) ==
    FilesOf(TallyRoot, family, "top", {One}) \cup FilesOf(TallyRoot, family, "ballotBoxes", {One})

(* _find_configuration_xml prefers the anonymized file (number One),       *)
(* _find_ech0222_xml the file named exactly so; otherwise any other.       *)
XmlFiles(tree, family, place) ==
    FirstOf(FirstOf(FilesOf(tree, family, place, {One}), FilesOf(tree, family, "top", {One})),
            FirstOf(FilesOf(tree, family, place, {All}), FilesOf(tree, family, "top", {All})))

Read(family) ==
    [context |-> ContextFiles("context"), setupKeys |-> ContextFiles("setupKeys"),
     onlineKeys |-> OnlineKeyFiles, tallyData |-> TallyDataFiles,
     ballotBox |-> TallyFiles("ballotBox"), shuffle |-> TallyFiles("shuffle"),
     finalShuffle |-> FinalFiles("finalShuffle"), finalVotes |-> FinalFiles("finalVotes"),
     configXml |-> XmlFiles(SetupRoot, "configXml", "context"),
     ech |-> XmlFiles(TallyRoot, "ech", "tally")][family]

(* _label, relative to the root.                                           *)
Label(f, index) == [tree |-> f.tree, place |-> f.place, of |-> f.of, number |-> f.number, index |-> index]
Labelled(f) ==
    {[label |-> Label(f, IF f.form = "list" THEN k - 1 ELSE NoIndex), payload |-> f.body[k]] :
       k \in DOMAIN f.body}

(* A directory's name is part of the paths in it; an id may also be part of *)
(* a longer name, of a file's name or of a list position.                  *)
ASSUME OccursAssumption ==
    \A S \in Stores : \A f \in S : f.of # NoId => Occurs(f.of, Label(f, NoIndex))

HasSlash(label) == label.tree # "root" \/ label.place # "top"

(* The one-digit numbers in the label of a control component's keys.       *)
Digits(label) ==
    (IF label.tree = "D2" THEN {2} ELSE {}) \cup ({label.number, label.index} \cap 1..4)

-----------------------------------------------------------------------------
(* The verdicts.                                                           *)

Missing == {family \in {"context", "setupKeys", "tallyData"} : loaded[family] = {}}
Online == loaded["ballotBox"] \cup loaded["shuffle"]

OncePerNode(items) ==
    \A n \in 1..4 : Cardinality({item \in items : item.payload.node = n}) = 1

(* 6.01 and 8.02: each ballot box has one payload of each node.            *)
FourNodes(family) ==
    \A box \in {item.payload.id : item \in loaded[family]} :
      LET items == {item \in loaded[family] : item.payload.id = box}
      IN  OncePerNode(items) /\ Cardinality(items) = 4
Malformed == {item \in Online : item.payload.node = NoNode \/ item.payload.id = NoId}
TallyComplete ==
    /\ Malformed = {}
    /\ \A family \in OnlineFamilies : loaded[family] # {} /\ FourNodes(family)

(* 3.02, of the online payloads, and 3.03.                                 *)
NodeIdsOk ==
    loaded["onlineKeys"] # {} =>
      /\ OncePerNode(loaded["onlineKeys"])
      /\ \A item \in loaded["onlineKeys"] : item.payload.node \in 1..4
KeyFileNamesOk ==
    \A item \in loaded["onlineKeys"] :
      LET label == item.label
      IN  /\ item.payload.node # NoNode
          /\ IF HasSlash(label) /\ label.number > 0 /\ label.index = NoIndex
             THEN label.number = item.payload.node
             ELSE item.payload.node \in Digits(label)

(* 3.05 and 3.06.  The id is subscripted.                                  *)
CardSetIdMissing == \E item \in loaded["tallyData"] : item.payload.id = NoId
CardSetIdsOk ==
    \A item \in loaded["tallyData"] :
      /\ item.payload.id \in CardSets
      /\ \A other \in loaded["tallyData"] : other.payload.id = item.payload.id => other = item
CardSetFileNamesOk ==
    LET paths == {item \in loaded["tallyData"] :
                    item.label.place = "verificationCardSets" /\ item.label.index = NoIndex}
    IN  /\ \A item \in paths : item.label.of = item.payload.id
        /\ paths # {} => {item.label.of : item \in paths} = CardSets

(* 8.03.                                                                   *)
NodeFileNamesOk ==
    \A item \in Online :
      HasSlash(item.label) =>
        /\ item.payload.node # NoNode
        /\ item.label.number = item.payload.node /\ item.label.index = NoIndex

(* 8.05, and 8.06, which looks for the id anywhere in the path.  A mistake *)
(* of 8.06: only the final payloads' paths.                                *)
TallyItems == UNION {loaded[family] : family \in OnlineFamilies \cup FinalFamilies}
BallotBoxIdsOk == \A item \in TallyItems : item.payload.id \in BallotBoxes
BoxFileNamesOkOf(items) ==
    \A item \in items :
      /\ item.payload.id \in BallotBoxes
      /\ HasSlash(item.label) => Occurs(item.payload.id, item.label)
BoxFileNamesOkOfFinal == BoxFileNamesOkOf(loaded["finalShuffle"] \cup loaded["finalVotes"])
BoxFileNamesOk == BoxFileNamesOkOf(TallyItems)

-----------------------------------------------------------------------------
Order == <<"context", "onlineKeys", "setupKeys", "tallyData", "ballotBox", "shuffle",
           "finalShuffle", "finalVotes", "configXml", "ech">>

Init ==
    /\ store \in Stores /\ phase \in {"config", "tally"}
    /\ loaded = [family \in Families |-> {}]
    /\ ReportInit("context")

(* One assignment of __init__; the last one is followed by the phase.      *)
Load(k) ==
    /\ pc = Order[k] /\ \A f \in Read(pc) : f.form # "broken"
    /\ loaded' = [loaded EXCEPT ![pc] = UNION {Labelled(f) : f \in Read(pc)}]
    /\ pc' = IF k < Len(Order) THEN Order[k + 1] ELSE IF phase = "config" THEN "1.01" ELSE "6.01"
    /\ UNCHANGED <<store, phase, report>>

(* load_json raises on a broken file; an XML file is only parsed later.    *)
LoadRaises(k) ==
    /\ pc = Order[k] /\ \E f \in Read(pc) : f.form = "broken"
    /\ Crash(pc)
    /\ UNCHANGED <<store, phase, loaded>>

Check(id, ok, next) == Record(id, ok, next) /\ UNCHANGED <<store, phase, loaded>>

CheckSetupCompleteness == Check("1.01", Missing = {}, IF Missing = {} THEN "3.02" ELSE "done")
CheckNodeIds == Check("3.02", NodeIdsOk, "3.03")
CheckKeyFileNames == Check("3.03", KeyFileNamesOk, "3.05")
CheckCardSetIds == ~CardSetIdMissing /\ Check("3.05", CardSetIdsOk, "3.06")
CardSetIdsRaise == CardSetIdMissing /\ Crash("3.05") /\ UNCHANGED <<store, phase, loaded>>
CheckCardSetFileNames == Check("3.06", CardSetFileNamesOk, "done")

CheckTallyCompleteness ==
    Check("6.01", TallyComplete,
          IF loaded["ballotBox"] = {} \/ loaded["shuffle"] = {} THEN "done" ELSE "8.02")
CheckTallyNodeIds ==
    /\ Malformed = {}
    /\ Check("8.02", FourNodes("ballotBox") /\ FourNodes("shuffle"), "8.03")
NodeIdsRaise == Malformed # {} /\ Crash("8.02") /\ UNCHANGED <<store, phase, loaded>>
CheckNodeFileNames == Check("8.03", NodeFileNamesOk, "8.05")
CheckBallotBoxIds == Check("8.05", BallotBoxIdsOk, "8.06")
CheckBoxFileNames == Check("8.06", BoxFileNamesOk, "done")

Next ==
    \/ \E k \in DOMAIN Order : Load(k) \/ LoadRaises(k)
    \/ CheckSetupCompleteness \/ CheckNodeIds \/ CheckKeyFileNames
    \/ CheckCardSetIds \/ CardSetIdsRaise \/ CheckCardSetFileNames
    \/ CheckTallyCompleteness \/ CheckTallyNodeIds \/ NodeIdsRaise \/ CheckNodeFileNames
    \/ CheckBallotBoxIds \/ CheckBoxFileNames

Spec == Init /\ [][Next]_vars

-----------------------------------------------------------------------------
(* Properties.                                                             *)

Checks == {"1.01", "3.02", "3.03", "3.05", "3.06", "6.01", "8.02", "8.03", "8.05", "8.06"}

Loaded == pc \in Checks \cup {"done"}
AcceptedAs(command) == phase = command /\ pc = "done" /\ ReportOk

(* The evidence of one node or card set in the tree that is used, in files *)
(* named as the aggregated fixtures or the data exchange layout name them. *)
Evidence(tree, families) ==
    {f \in store : /\ f.tree = tree /\ f.family \in families
                   /\ \/ f.place = "top" /\ f.number = All
                      \/ f.place = "context" /\ f.family = "onlineKeys" /\ f.number # One
                      \/ f.place = "verificationCardSets" /\ f.family = "tallyData" /\ f.number = One
                      \/ f.place = "ballotBoxes" /\ f.family \in OnlineFamilies /\ f.number > 0}
ConfigEvidence == Evidence(SetupRoot, {"onlineKeys", "tallyData"})
TallyEvidence == Evidence(TallyRoot, OnlineFamilies)

(* Accepted evidence has no second copy: no two payloads among the files,  *)
(* aggregated or one by one, are of the same node and ballot box, of the   *)
(* same node's keys or of the same card set.  Nothing compares copies with *)
(* each other: the loaders read all of them and 3.02, 3.05, 6.01 count.    *)
NoTwoIn(files) ==
    \A f, g \in files : \A i \in DOMAIN f.body, k \in DOMAIN g.body :
      f.family = g.family /\ f.body[i].node = g.body[k].node /\ f.body[i].id = g.body[k].id
        => f = g /\ i = k
NoSecondCopy ==
    /\ AcceptedAs("config") => NoTwoIn(ConfigEvidence)
    /\ AcceptedAs("tally") => NoTwoIn(TallyEvidence)

(* The path of f has no listed ballot box's id in it but the directory's,  *)
(* as when the ids are equally long and unlike the fixed names.            *)
Unmistakable(f) == \A id \in BallotBoxes : Occurs(id, Label(f, NoIndex)) => id = f.of

(* The paths of accepted evidence tell the truth: what lies in a card      *)
(* set's directory is its data, what is named after a node is that node's, *)
(* and every card set has its directory if one has (3.03, 3.06, 8.03).     *)
(* What lies in a ballot box's directory is of that ballot box as long as  *)
(* no other listed id is part of the path, for 8.06 accepts any that is.   *)
PathsTruthful ==
    /\ AcceptedAs("config") =>
         /\ \A f \in ConfigEvidence :
              /\ f.form = "one" /\ f.number > 0 => f.body[1].node = f.number
              /\ f.form = "one" /\ f.of # NoId => f.body[1].id = f.of
         /\ LET own == {f \in ConfigEvidence : f.form = "one" /\ f.of # NoId}
            IN  own # {} => {f.of : f \in own} = CardSets
    /\ AcceptedAs("tally") =>
         \A f \in TallyEvidence :
           f.place = "ballotBoxes" =>
             \A k \in DOMAIN f.body :
               f.body[k].node = f.number /\ (Unmistakable(f) => f.body[k].id = f.of)

(* One dataset is verified, never a mixture: whatever lies beside it, the  *)
(* setup files are of one tree and the tally files of one tree, and an     *)
(* incomplete setup is not completed from elsewhere.                       *)
OneTree ==
    Loaded =>
      \A families \in {SetupFamilies, TallyFamilies} :
        \A one, other \in families :
          \A item \in loaded[one], item2 \in loaded[other] : item.label.tree = item2.label.tree

(* Honest datasets, by the layouts of their files.  In the exchange layout *)
(* a payload has a file of its own, which is named after the payload's     *)
(* node (One if it has none) and lies in the directory of its card set or  *)
(* ballot box; in the fixtures a family is one list at the top.            *)
Own(S, tree, family) == {f \in S : f.tree = tree /\ f.family = family}

Filed(f, place) ==
    /\ f.place = place /\ f.form = "one"
    /\ f.number = f.body[1].node /\ f.of = f.body[1].id
OneByOne(family, place, nodes, ids) ==
    /\ \A f \in family : Filed(f, place) /\ f.number \in nodes /\ f.of \in ids
    /\ \A node \in nodes, id \in ids : \E f \in family : f.number = node /\ f.of = id
Aggregated(family, nodes, ids) ==
    \E f \in family :
      /\ family = {f} /\ f.tree = "root" /\ f.place = "top" /\ f.number = All /\ f.form = "list"
      /\ \A k \in DOMAIN f.body : f.body[k].node \in nodes /\ f.body[k].id \in ids
      /\ \A node \in nodes, id \in ids :
           \E k \in DOMAIN f.body : f.body[k].node = node /\ f.body[k].id = id
      /\ \A k, l \in DOMAIN f.body :
           f.body[k].node = f.body[l].node /\ f.body[k].id = f.body[l].id => k = l

(* The setup is below D2, if there is such a directory, the tally below D3 *)
(* if there is; beside them or without them, they are right at the root.   *)
SetupTree(S) == IF \E f \in S : f.tree = "D2" THEN "D2" ELSE "root"
TallyTree(S) == IF \E f \in S : f.tree = "D3" THEN "D3" ELSE "root"

(* An honest setup has the two payloads of the election, each card set's   *)
(* data and, unless they come in the setup keys, those of every component. *)
(* A list of components' keys is not among them: KeyListAccepted.          *)
HonestSetup(S) ==
    LET of(family) == Own(S, SetupTree(S), family)
    IN  /\ \A family \in {"context", "setupKeys"} : \E f \in S :
             /\ of(family) = {f} /\ f.number = One /\ f.form = "one"
             /\ f.place = "context" \/ (f.place = "top" /\ f.tree = "root")
        /\ of("onlineKeys") = {} \/ OneByOne(of("onlineKeys"), "context", 1..4, {NoId})
        /\ CardSets # {}
        /\ \/ OneByOne(of("tallyData"), "verificationCardSets", {NoNode}, CardSets)
           \/ Aggregated(of("tallyData"), {NoNode}, CardSets)

(* An honest tally has the votes and the shuffle of every component for    *)
(* each ballot box; the board's payloads may be missing.                   *)
HonestTally(S) ==
    LET of(family) == Own(S, TallyTree(S), family)
    IN  /\ BallotBoxes # {}
        /\ \A family \in OnlineFamilies :
             \/ OneByOne(of(family), "ballotBoxes", 1..4, BallotBoxes)
             \/ Aggregated(of(family), 1..4, BallotBoxes)
        /\ \A family \in FinalFamilies : \A f \in of(family) :
             Filed(f, "ballotBoxes") /\ f.number = One /\ f.of \in BallotBoxes

(* verify_tally needs the setup as well.                                   *)
HonestDataset ==
    /\ \A f \in store : f.form # "broken"
    /\ HonestSetup(store)
    /\ phase = "tally" => HonestTally(store)

(* An honest dataset is accepted, in each of the layouts, whatever lies in *)
(* the other trees, and all of it is read; of the XML files, the one that  *)
(* is named exactly or anonymized, where there is one.                     *)
HonestDatasetAccepted ==
    HonestDataset =>
      /\ pc # "crashed" /\ ReportOk
      /\ Loaded =>
           /\ \A family \in SetupFamilies \ {"configXml"} :
                loaded[family] = UNION {Labelled(f) : f \in Own(store, SetupTree(store), family)}
           /\ \A f \in Own(store, SetupTree(store), "configXml") :
                f.number = One /\ f.place \in {"top", "context"} =>
                  \A item \in loaded["configXml"] : item.label.number = One
           /\ phase = "tally" =>
                /\ \A family \in TallyFamilies \ {"ech"} :
                     loaded[family] = UNION {Labelled(f) : f \in Own(store, TallyTree(store), family)}
                /\ \A f \in Own(store, TallyTree(store), "ech") :
                     f.number = One /\ f.place \in {"top", "tally"} =>
                       \A item \in loaded["ech"] : item.label.number = One
=============================================================================
