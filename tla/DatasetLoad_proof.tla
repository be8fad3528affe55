------------------------- MODULE DatasetLoad_proof --------------------------
(***************************************************************************)
(* Theorems of DatasetLoad, for all sets of files: what is loaded comes    *)
(* from files of its family, all of them in the tree that was discovered;  *)
(* a loader leaves no file out; and what the checks accept has no second   *)
(* copy and lies where its path says.                                      *)
(***************************************************************************)
EXTENDS DatasetLoad, FiniteSetTheorems, FunctionTheorems, TLAPS

LEMMA OrderType == Order \in [1..10 -> Families]
BY DEF Order, Families, SetupFamilies, TallyFamilies, OnlineFamilies, FinalFamilies

LEMMA OrderDomain == DOMAIN Order = 1..10 /\ Len(Order) = 10
BY DEF Order

(* Which tree a family is of: the setup's or the tally's.                  *)
RootOf(family) == IF family \in SetupFamilies THEN SetupRoot ELSE TallyRoot

(* The loader of a family reads files of the family, below its root.       *)
LEMMA ReadsOwnTree ==
    ASSUME NEW family \in Families, NEW f \in Read(family)
    PROVE  f \in store /\ f.family = family /\ f.tree = RootOf(family)
<1>1. ASSUME NEW tree, NEW place, NEW numbers, NEW name, NEW g \in FilesOf(tree, name, place, numbers)
      PROVE  g \in store /\ g.family = name /\ g.tree = tree
  BY <1>1 DEF FilesOf
<1>2. ASSUME NEW tree, NEW place, NEW name, NEW g \in XmlFiles(tree, name, place)
      PROVE  g \in store /\ g.family = name /\ g.tree = tree
  BY <1>1, <1>2 DEF XmlFiles, FirstOf
<1>3. CASE family \in {"context", "setupKeys"}
  <2>1. Read(family) = ContextFiles(family)
    BY <1>3 DEF Read
  <2> QED BY <1>1, <1>3, <2>1 DEF ContextFiles, ContextFilesOf, FirstOf, RootOf, SetupFamilies
<1>4. CASE family = "onlineKeys"
  <2>1. Read(family) = OnlineKeyFiles
    BY <1>4 DEF Read
  <2>2. \E place, numbers : f \in FilesOf(SetupRoot, "onlineKeys", place, numbers)
    BY <2>1 DEF OnlineKeyFiles
  <2> QED BY <1>1, <1>4, <2>2 DEF RootOf, SetupFamilies
<1>5. CASE family = "tallyData"
  <2>1. Read(family) = TallyDataFiles
    BY <1>5 DEF Read
  <2>2. \E place, numbers : f \in FilesOf(SetupRoot, "tallyData", place, numbers)
    BY <2>1 DEF TallyDataFiles
  <2> QED BY <1>1, <1>5, <2>2 DEF RootOf, SetupFamilies
<1>6. CASE family \in {"ballotBox", "shuffle"}
  <2>1. Read(family) = TallyFiles(family) /\ family \notin SetupFamilies
    BY <1>6 DEF Read, SetupFamilies
  <2> QED BY <1>1, <2>1 DEF TallyFiles, RootOf
<1>7. CASE family \in {"finalShuffle", "finalVotes"}
  <2>1. Read(family) = FinalFiles(family) /\ family \notin SetupFamilies
    BY <1>7 DEF Read, SetupFamilies
  <2> QED BY <1>1, <2>1 DEF FinalFiles, RootOf
<1>8. CASE family = "configXml"
  <2>1. Read(family) = XmlFiles(SetupRoot, family, "context")
    BY <1>8 DEF Read
  <2> QED BY <1>2, <1>8, <2>1 DEF RootOf, SetupFamilies
<1>9. CASE family = "ech"
  <2>1. Read(family) = XmlFiles(TallyRoot, family, "tally") /\ family \notin SetupFamilies
    BY <1>9 DEF Read, SetupFamilies
  <2> QED BY <1>2, <2>1 DEF RootOf
<1> QED BY <1>3, <1>4, <1>5, <1>6, <1>7, <1>8, <1>9
        DEF Families, SetupFamilies, TallyFamilies, OnlineFamilies, FinalFamilies

(* The invariant: loaded payloads are of files that their family's loader  *)
(* reads, and the phases begin when everything is loaded.                  *)
FromRead ==
    \A family \in Families : \A item \in loaded[family] :
      \E f \in Read(family) : item \in Labelled(f)

LoadInv ==
    /\ phase \in {"config", "tally"}
    /\ pc \in Families \cup Checks \cup {"done", "crashed"}
    /\ report \in Seq([id : Checks, ok : BOOLEAN])
    /\ DOMAIN loaded = Families
    /\ FromRead

LEMMA SameFiles ==
    ASSUME store' = store
    PROVE  /\ \A family : Read(family)' = Read(family)
           /\ SetupRoot' = SetupRoot /\ TallyRoot' = TallyRoot
<1>1. SetupRoot' = SetupRoot /\ TallyRoot' = TallyRoot
  BY DEF SetupRoot, TallyRoot
<1>2. \A family : Read(family)' = Read(family)
  BY <1>1 DEF Read, ContextFiles, ContextFilesOf, OnlineKeyFiles, TallyDataFiles, TallyFiles,
     FinalFiles, XmlFiles, FilesOf
<1> QED BY <1>1, <1>2

LEMMA VerdictsAreBooleans ==
    /\ (Missing = {}) \in BOOLEAN /\ NodeIdsOk \in BOOLEAN /\ KeyFileNamesOk \in BOOLEAN
    /\ CardSetIdsOk \in BOOLEAN /\ CardSetFileNamesOk \in BOOLEAN /\ TallyComplete \in BOOLEAN
    /\ (FourNodes("ballotBox") /\ FourNodes("shuffle")) \in BOOLEAN
    /\ NodeFileNamesOk \in BOOLEAN /\ BallotBoxIdsOk \in BOOLEAN /\ BoxFileNamesOk \in BOOLEAN
BY DEF NodeIdsOk, KeyFileNamesOk, CardSetIdsOk, CardSetFileNamesOk, TallyComplete, FourNodes,
   NodeFileNamesOk, BallotBoxIdsOk, BoxFileNamesOk, BoxFileNamesOkOf

LEMMA CheckKeepsInv ==
    ASSUME LoadInv, NEW id \in Checks, NEW ok \in BOOLEAN, NEW next \in Checks \cup {"done"},
           Check(id, ok, next)
    PROVE  LoadInv'
<1>1. /\ UNCHANGED <<store, phase, loaded>> /\ pc' = next
      /\ report' = Append(report, Entry(id, ok))
  BY DEF Check, Record
<1>2. Entry(id, ok) \in [id : Checks, ok : BOOLEAN]
  BY DEF Entry
<1>3. report' \in Seq([id : Checks, ok : BOOLEAN])
  BY <1>1, <1>2 DEF LoadInv
<1>4. FromRead'
  BY <1>1, SameFiles DEF LoadInv, FromRead, Labelled, Label
<1> QED BY <1>1, <1>3, <1>4 DEF LoadInv

LEMMA LoadKeepsInv ==
    ASSUME LoadInv, NEW k \in DOMAIN Order, Load(k)
    PROVE  LoadInv'
<1>1. /\ pc = Order[k] /\ UNCHANGED <<store, phase, report>>
      /\ loaded' = [loaded EXCEPT ![pc] = UNION {Labelled(f) : f \in Read(pc)}]
      /\ pc' = IF k < Len(Order) THEN Order[k + 1] ELSE IF phase = "config" THEN "1.01" ELSE "6.01"
  BY DEF Load
<1>2. pc \in Families
  BY <1>1, OrderType, OrderDomain
<1>3. pc' \in Families \cup Checks
  <2>1. CASE k < Len(Order)
    <3>1. k + 1 \in 1..10
      BY <2>1, OrderDomain
    <3> QED BY <1>1, <2>1, <3>1, OrderType
  <2>2. CASE ~(k < Len(Order))
    BY <1>1, <2>2 DEF Checks
  <2> QED BY <2>1, <2>2
<1>4. DOMAIN loaded' = Families /\ loaded'[pc] = UNION {Labelled(f) : f \in Read(pc)}
      /\ \A family \in Families \ {pc} : loaded'[family] = loaded[family]
  BY <1>1, <1>2 DEF LoadInv
<1>5. FromRead'
  <2>1. \A family \in Families : \A item \in loaded'[family] :
          \E f \in Read(family) : item \in Labelled(f)
    BY <1>4 DEF LoadInv, FromRead
  <2> QED BY <1>1, <2>1, SameFiles DEF FromRead, Labelled, Label
<1> QED BY <1>1, <1>3, <1>4, <1>5 DEF LoadInv

LEMMA StepLoadInv ==
    ASSUME LoadInv, [Next]_vars
    PROVE  LoadInv'
<1>1. ASSUME UNCHANGED <<store, phase, loaded, report>>, pc' \in {pc, "crashed"}
      PROVE  LoadInv'
  <2>1. FromRead'
    BY <1>1, SameFiles DEF LoadInv, FromRead, Labelled, Label
  <2> QED BY <1>1, <2>1 DEF LoadInv
<1>2. CASE \E k \in DOMAIN Order : Load(k) \/ LoadRaises(k)
  BY <1>1, <1>2, LoadKeepsInv DEF LoadRaises, Crash
<1>3. CASE CardSetIdsRaise \/ NodeIdsRaise \/ UNCHANGED vars
  BY <1>1, <1>3 DEF CardSetIdsRaise, NodeIdsRaise, Crash, vars
<1>4. ASSUME NEW id \in Checks, NEW verdict \in BOOLEAN, NEW next \in Checks \cup {"done"},
             Check(id, verdict, next)
      PROVE  LoadInv'
  BY <1>4, CheckKeepsInv
<1>5. CASE CheckSetupCompleteness
  BY <1>4, <1>5, VerdictsAreBooleans DEF CheckSetupCompleteness, Checks
<1>6. CASE CheckNodeIds
  BY <1>4, <1>6, VerdictsAreBooleans DEF CheckNodeIds, Checks
<1>7. CASE CheckKeyFileNames
  BY <1>4, <1>7, VerdictsAreBooleans DEF CheckKeyFileNames, Checks
<1>8. CASE CheckCardSetIds
  BY <1>4, <1>8, VerdictsAreBooleans DEF CheckCardSetIds, Checks
<1>9. CASE CheckCardSetFileNames
  BY <1>4, <1>9, VerdictsAreBooleans DEF CheckCardSetFileNames, Checks
<1>10. CASE CheckTallyCompleteness
  BY <1>4, <1>10, VerdictsAreBooleans DEF CheckTallyCompleteness, Checks
<1>11. CASE CheckTallyNodeIds
  BY <1>4, <1>11, VerdictsAreBooleans DEF CheckTallyNodeIds, Checks
<1>12. CASE CheckNodeFileNames
  BY <1>4, <1>12, VerdictsAreBooleans DEF CheckNodeFileNames, Checks
<1>13. CASE CheckBallotBoxIds
  BY <1>4, <1>13, VerdictsAreBooleans DEF CheckBallotBoxIds, Checks
<1>14. CASE CheckBoxFileNames
  BY <1>4, <1>14, VerdictsAreBooleans DEF CheckBoxFileNames, Checks
<1> QED
  BY <1>2, <1>3, <1>5, <1>6, <1>7, <1>8, <1>9, <1>10, <1>11, <1>12, <1>13, <1>14 DEF Next

LEMMA InitLoadInv == Init => LoadInv
<1> SUFFICES ASSUME Init PROVE LoadInv
  OBVIOUS
<1>1. /\ phase \in {"config", "tally"} /\ loaded = [family \in Families |-> {}]
      /\ pc = "context" /\ report = <<>>
  BY DEF Init, ReportInit
<1>2. "context" \in Families
  BY DEF Families, SetupFamilies
<1>3. FromRead
  BY <1>1 DEF FromRead
<1> QED BY <1>1, <1>2, <1>3 DEF LoadInv

THEOREM Inductive == Spec => []LoadInv
<1>1. LoadInv /\ [Next]_vars => LoadInv'
  BY StepLoadInv
<1> QED BY <1>1, InitLoadInv, PTL DEF Spec

(* Whatever lies beside it, the files of a phase are of one tree.          *)
THEOREM OneDataset == Spec => []OneTree
<1>1. LoadInv => OneTree
  <2> SUFFICES ASSUME LoadInv, NEW families \in {SetupFamilies, TallyFamilies},
                      NEW one \in families, NEW other \in families,
                      NEW item \in loaded[one], NEW item2 \in loaded[other]
               PROVE  item.label.tree = item2.label.tree
    BY DEF OneTree
  <2>1. ASSUME NEW family \in families, NEW x \in loaded[family]
        PROVE  x.label.tree = RootOf(family)
    <3>1. family \in Families
      BY DEF Families
    <3>2. PICK f \in Read(family) : x \in Labelled(f)
      BY <2>1, <3>1 DEF LoadInv, FromRead
    <3>3. f.tree = RootOf(family)
      BY <3>1, ReadsOwnTree
    <3>4. x.label.tree = f.tree
      BY <3>2 DEF Labelled, Label
    <3> QED BY <3>3, <3>4
  <2>2. RootOf(one) = RootOf(other)
    BY DEF RootOf, SetupFamilies, TallyFamilies, OnlineFamilies, FinalFamilies
  <2> QED BY <2>1, <2>2
<1> QED BY <1>1, Inductive, PTL

-----------------------------------------------------------------------------
(* The second invariant: what has been loaded is all of what the loaders   *)
(* read, none of it broken, and as long as no check has failed, those that *)
(* have run found what they looked for.                                    *)

Past(j) == pc \in Checks \cup {"done"} \/ \E k \in 1..10 : pc = Order[k] /\ j < k

LoadedAll ==
    \A j \in 1..10 : Past(j) =>
      /\ loaded[Order[j]] = UNION {Labelled(f) : f \in Read(Order[j])}
      /\ \A f \in Read(Order[j]) : f.form # "broken"

ConfigChecks == {"1.01", "3.02", "3.03", "3.05", "3.06"}
TallyChecks == {"6.01", "8.02", "8.03", "8.05", "8.06"}
InPhase ==
    /\ pc \in ConfigChecks => phase = "config"
    /\ pc \in TallyChecks => phase = "tally"

ConfigFound ==
    phase = "config" /\ ReportOk =>
      /\ pc \in {"3.03", "3.05", "3.06", "done"} => NodeIdsOk
      /\ pc \in {"3.05", "3.06", "done"} => KeyFileNamesOk
      /\ pc \in {"3.06", "done"} => CardSetIdsOk
      /\ pc = "done" => CardSetFileNamesOk
TallyFound ==
    phase = "tally" /\ ReportOk =>
      /\ pc \in {"8.02", "8.03", "8.05", "8.06", "done"} => TallyComplete
      /\ pc \in {"8.05", "8.06", "done"} => NodeFileNamesOk
      /\ pc = "done" => BoxFileNamesOk

FoundInv == LoadedAll /\ InPhase /\ ConfigFound /\ TallyFound /\ store \in Stores

LEMMA OrderApart == \A j, k \in 1..10 : Order[j] = Order[k] => j = k
BY DEF Order

(* No family is the id of a check.                                         *)
LEMMA FamiliesNoChecks ==
    /\ Families \cap (Checks \cup {"done", "crashed"}) = {}
    /\ ConfigChecks \cup TallyChecks = Checks /\ ConfigChecks \cap TallyChecks = {}
    /\ Checks \cap {"done", "crashed"} = {}
BY DEF Families, SetupFamilies, TallyFamilies, OnlineFamilies, FinalFamilies, Checks,
   ConfigChecks, TallyChecks

(* The verdicts are about what is loaded and about nothing else.           *)
LEMMA SameVerdicts ==
    ASSUME loaded' = loaded
    PROVE  /\ NodeIdsOk' = NodeIdsOk /\ KeyFileNamesOk' = KeyFileNamesOk
           /\ CardSetIdsOk' = CardSetIdsOk /\ CardSetFileNamesOk' = CardSetFileNamesOk
           /\ TallyComplete' = TallyComplete /\ NodeFileNamesOk' = NodeFileNamesOk
           /\ BoxFileNamesOk' = BoxFileNamesOk
BY DEF NodeIdsOk, KeyFileNamesOk, CardSetIdsOk, CardSetFileNamesOk, TallyComplete, FourNodes,
   NodeFileNamesOk, BoxFileNamesOk, BoxFileNamesOkOf, Malformed, Online, TallyItems

(* An entry keeps the report free of failures only if it passes.           *)
LEMMA RecordOk ==
    ASSUME LoadInv, NEW id \in Checks, NEW ok \in BOOLEAN, NEW next, Check(id, ok, next), ReportOk'
    PROVE  ReportOk /\ ok
<1>1. report' = Append(report, Entry(id, ok)) /\ report \in Seq([id : Checks, ok : BOOLEAN])
  BY DEF Check, Record, LoadInv
<1>2. \A k \in DOMAIN report' : report'[k].ok
  BY DEF ReportOk, Failing
<1>3. \A k \in DOMAIN report : k \in DOMAIN report' /\ report'[k] = report[k]
  BY <1>1
<1>4. Len(report) + 1 \in DOMAIN report' /\ report'[Len(report) + 1].ok = ok
  BY <1>1 DEF Entry
<1> QED BY <1>2, <1>3, <1>4 DEF ReportOk, Failing

LEMMA SameReadFiles ==
    ASSUME store' = store, loaded' = loaded, \A j \in 1..10 : Past(j)' => Past(j), LoadedAll
    PROVE  LoadedAll'
<1>1. \A family, f : Read(family)' = Read(family) /\ Labelled(f)' = Labelled(f)
  BY SameFiles DEF Labelled, Label
<1> QED BY <1>1 DEF LoadedAll

LEMMA LoadKeepsFound ==
    ASSUME LoadInv, FoundInv, NEW k \in DOMAIN Order, Load(k)
    PROVE  FoundInv'
<1>1. /\ pc = Order[k] /\ UNCHANGED <<store, phase, report>>
      /\ \A f \in Read(pc) : f.form # "broken"
      /\ loaded' = [loaded EXCEPT ![pc] = UNION {Labelled(f) : f \in Read(pc)}]
      /\ pc' = IF k < Len(Order) THEN Order[k + 1] ELSE IF phase = "config" THEN "1.01" ELSE "6.01"
  BY DEF Load
<1>2. k \in 1..10 /\ pc \in Families
  BY <1>1, OrderType, OrderDomain
<1>3. CASE k < 10
  <2>1. pc' = Order[k + 1] /\ pc' \in Families
    BY <1>1, <1>2, <1>3, OrderType, OrderDomain
  <2>2. LoadedAll'
    <3> SUFFICES ASSUME NEW j \in 1..10, Past(j)'
                 PROVE  /\ loaded'[Order[j]] = UNION {Labelled(f) : f \in Read(Order[j])}
                        /\ \A f \in Read(Order[j]) : f.form # "broken"
      BY <1>1, SameFiles DEF LoadedAll, Labelled, Label
    <3>1. j < k + 1
      <4>1. PICK i \in 1..10 : pc' = Order[i] /\ j < i
        BY <2>1, FamiliesNoChecks DEF Past
      <4>2. k + 1 \in 1..10 /\ Order[i] = Order[k + 1]
        BY <2>1, <4>1, <1>2, <1>3
      <4>3. i = k + 1
        BY <4>2, OrderApart
      <4> QED BY <4>1, <4>3
    <3>2. CASE j = k
      BY <1>1, <1>2, <3>2 DEF LoadInv
    <3>3. CASE j < k
      <4>1. Past(j) /\ Order[j] # pc
        BY <1>1, <1>2, <3>3, OrderApart DEF Past
      <4>2. Order[j] \in Families
        BY OrderType
      <4>3. loaded'[Order[j]] = loaded[Order[j]]
        BY <1>1, <4>1, <4>2 DEF LoadInv
      <4> QED BY <4>1, <4>3 DEF FoundInv, LoadedAll
    <3> QED BY <1>2, <3>1, <3>2, <3>3
  <2>3. pc' \notin Checks \cup {"done"}
    BY <2>1, FamiliesNoChecks
  <2> QED BY <1>1, <2>2, <2>3 DEF FoundInv, InPhase, ConfigFound, TallyFound, Checks, ConfigChecks, TallyChecks
<1>4. CASE ~(k < 10)
  <2>1. k = 10 /\ pc' = IF phase = "config" THEN "1.01" ELSE "6.01"
    BY <1>1, <1>2, <1>4, OrderDomain
  <2>2. LoadedAll'
    <3> SUFFICES ASSUME NEW j \in 1..10
                 PROVE  /\ loaded'[Order[j]] = UNION {Labelled(f) : f \in Read(Order[j])}
                        /\ \A f \in Read(Order[j]) : f.form # "broken"
      BY <1>1, SameFiles DEF LoadedAll, Labelled, Label
    <3>1. CASE j = k
      BY <1>1, <1>2, <3>1 DEF LoadInv
    <3>2. CASE j # k
      <4>1. Past(j) /\ Order[j] # pc
        BY <1>1, <1>2, <2>1, <3>2, OrderApart DEF Past
      <4>2. Order[j] \in Families
        BY OrderType
      <4>3. loaded'[Order[j]] = loaded[Order[j]]
        BY <1>1, <4>1, <4>2 DEF LoadInv
      <4> QED BY <4>1, <4>3 DEF FoundInv, LoadedAll
    <3> QED BY <3>1, <3>2
  <2>3. phase' = phase /\ phase \in {"config", "tally"} /\ store' = store
    BY <1>1 DEF LoadInv
  <2> QED BY <2>1, <2>2, <2>3 DEF FoundInv, InPhase, ConfigFound, TallyFound, ConfigChecks, TallyChecks
<1> QED BY <1>3, <1>4

(* A check leaves the files and what is loaded alone.                      *)
LEMMA CheckKeepsLoaded ==
    ASSUME LoadInv, FoundInv, NEW id \in Checks, NEW ok \in BOOLEAN, NEW next \in Checks \cup {"done"},
           Check(id, ok, next)
    PROVE  /\ LoadedAll' /\ store' \in Stores /\ phase' = phase /\ pc = id /\ pc' = next
           /\ ReportOk' => ReportOk /\ ok
           /\ phase = IF id \in ConfigChecks THEN "config" ELSE "tally"
<1>1. /\ UNCHANGED <<store, phase, loaded>> /\ pc = id /\ pc' = next
  BY DEF Check, Record
<1>2. \A j \in 1..10 : Past(j)
  BY <1>1 DEF Past
<1>3. LoadedAll'
  BY <1>1, <1>2, SameReadFiles DEF FoundInv
<1>4. phase = IF id \in ConfigChecks THEN "config" ELSE "tally"
  BY <1>1, FamiliesNoChecks DEF FoundInv, InPhase
<1>5. ReportOk' => ReportOk /\ ok
  BY RecordOk
<1> QED BY <1>1, <1>3, <1>4, <1>5 DEF FoundInv

LEMMA StepFoundInv ==
    ASSUME LoadInv, FoundInv, [Next]_vars
    PROVE  FoundInv'
<1>1. ASSUME UNCHANGED <<store, phase, loaded, report>>, pc' \in {pc, "crashed"}
      PROVE  FoundInv'
  <2>1. \A j \in 1..10 : Past(j)' => Past(j)
    BY <1>1, OrderType, FamiliesNoChecks DEF Past
  <2>2. LoadedAll'
    BY <1>1, <2>1, SameReadFiles DEF FoundInv
  <2>3. ReportOk' = ReportOk
    BY <1>1 DEF ReportOk, Failing
  <2>4. CASE pc' = "crashed"
    BY <1>1, <2>2, <2>4 DEF FoundInv, InPhase, ConfigFound, TallyFound, ConfigChecks, TallyChecks
  <2>5. CASE pc' = pc
    BY <1>1, <2>2, <2>3, <2>5, SameVerdicts DEF FoundInv, InPhase, ConfigFound, TallyFound
  <2> QED BY <1>1, <2>4, <2>5
<1>2. CASE \E k \in DOMAIN Order : Load(k) \/ LoadRaises(k)
  BY <1>1, <1>2, LoadKeepsFound DEF LoadRaises, Crash
<1>3. CASE CardSetIdsRaise \/ NodeIdsRaise \/ UNCHANGED vars
  BY <1>1, <1>3 DEF CardSetIdsRaise, NodeIdsRaise, Crash, vars
<1>4. CASE CheckSetupCompleteness
  <2>1. Check("1.01", Missing = {}, pc') /\ pc' = (IF Missing = {} THEN "3.02" ELSE "done")
    BY <1>4 DEF CheckSetupCompleteness, Check, Record
  <2>2. pc' \in {"3.02", "done"} /\ (Missing = {}) \in BOOLEAN
    BY <2>1
  <2>3. /\ LoadedAll' /\ store' \in Stores /\ phase' = phase
        /\ (ReportOk' => Missing = {}) /\ phase = "config"
    BY <2>1, <2>2, CheckKeepsLoaded DEF Checks, ConfigChecks
  <2> QED BY <2>1, <2>2, <2>3 DEF ConfigChecks, TallyChecks, FoundInv, InPhase, ConfigFound, TallyFound
<1>5. CASE CheckNodeIds
  <2> loaded' = loaded
    BY <1>5 DEF CheckNodeIds, Check
  <2> QED BY <1>5, CheckKeepsLoaded, VerdictsAreBooleans, SameVerdicts
     DEF CheckNodeIds, Checks, ConfigChecks, TallyChecks, FoundInv, InPhase, ConfigFound, TallyFound
<1>6. CASE CheckKeyFileNames
  <2> loaded' = loaded
    BY <1>6 DEF CheckKeyFileNames, Check
  <2> QED BY <1>6, CheckKeepsLoaded, VerdictsAreBooleans, SameVerdicts
     DEF CheckKeyFileNames, Checks, ConfigChecks, TallyChecks, FoundInv, InPhase, ConfigFound, TallyFound
<1>7. CASE CheckCardSetIds
  <2> loaded' = loaded
    BY <1>7 DEF CheckCardSetIds, Check
  <2> QED BY <1>7, CheckKeepsLoaded, VerdictsAreBooleans, SameVerdicts
     DEF CheckCardSetIds, Checks, ConfigChecks, TallyChecks, FoundInv, InPhase, ConfigFound, TallyFound
<1>8. CASE CheckCardSetFileNames
  <2> loaded' = loaded
    BY <1>8 DEF CheckCardSetFileNames, Check
  <2> QED BY <1>8, CheckKeepsLoaded, VerdictsAreBooleans, SameVerdicts
     DEF CheckCardSetFileNames, Checks, ConfigChecks, TallyChecks, FoundInv, InPhase, ConfigFound, TallyFound
<1>9. CASE CheckTallyCompleteness
  <2>1. loaded' = loaded /\ pc' = (IF loaded["ballotBox"] = {} \/ loaded["shuffle"] = {} THEN "done" ELSE "8.02")
        /\ Check("6.01", TallyComplete, pc')
    BY <1>9 DEF CheckTallyCompleteness, Check, Record
  <2>2. TallyComplete /\ pc' = "done" => FALSE
    BY <2>1 DEF TallyComplete, OnlineFamilies
  <2> QED BY <2>1, <2>2, CheckKeepsLoaded, VerdictsAreBooleans, SameVerdicts
     DEF Checks, ConfigChecks, TallyChecks, FoundInv, InPhase, ConfigFound, TallyFound
<1>10. CASE CheckTallyNodeIds
  <2> DEFINE ok == FourNodes("ballotBox") /\ FourNodes("shuffle")
  <2>1. loaded' = loaded /\ Check("8.02", ok, "8.03") /\ pc = "8.02" /\ pc' = "8.03"
    BY <1>10 DEF CheckTallyNodeIds, Check, Record
  <2>2. ok \in BOOLEAN
    BY VerdictsAreBooleans
  <2> HIDE DEF ok
  <2>3. /\ LoadedAll' /\ store' \in Stores /\ phase' = phase
        /\ (ReportOk' => ReportOk) /\ phase = "tally"
    BY <2>1, <2>2, CheckKeepsLoaded DEF Checks, ConfigChecks
  <2> QED BY <2>1, <2>3, SameVerdicts DEF ConfigChecks, TallyChecks, FoundInv, InPhase, ConfigFound, TallyFound
<1>11. CASE CheckNodeFileNames
  <2> loaded' = loaded
    BY <1>11 DEF CheckNodeFileNames, Check
  <2> QED BY <1>11, CheckKeepsLoaded, VerdictsAreBooleans, SameVerdicts
     DEF CheckNodeFileNames, Checks, ConfigChecks, TallyChecks, FoundInv, InPhase, ConfigFound, TallyFound
<1>12. CASE CheckBallotBoxIds
  <2> loaded' = loaded
    BY <1>12 DEF CheckBallotBoxIds, Check
  <2> QED BY <1>12, CheckKeepsLoaded, VerdictsAreBooleans, SameVerdicts
     DEF CheckBallotBoxIds, Checks, ConfigChecks, TallyChecks, FoundInv, InPhase, ConfigFound, TallyFound
<1>13. CASE CheckBoxFileNames
  <2> loaded' = loaded
    BY <1>13 DEF CheckBoxFileNames, Check
  <2> QED BY <1>13, CheckKeepsLoaded, VerdictsAreBooleans, SameVerdicts
     DEF CheckBoxFileNames, Checks, ConfigChecks, TallyChecks, FoundInv, InPhase, ConfigFound, TallyFound
<1> QED
  BY <1>1, <1>2, <1>3, <1>4, <1>5, <1>6, <1>7, <1>8, <1>9, <1>10, <1>11, <1>12, <1>13 DEF Next

LEMMA InitFoundInv == Init => FoundInv
<1> SUFFICES ASSUME Init PROVE FoundInv
  OBVIOUS
<1>1. pc = "context" /\ pc = Order[1] /\ store \in Stores
  BY DEF Init, ReportInit, Order
<1>2. pc \notin Checks \cup {"done"}
  BY <1>1 DEF Checks
<1>3. LoadedAll
  BY <1>1, <1>2, OrderApart DEF LoadedAll, Past
<1> QED BY <1>1, <1>2, <1>3 DEF FoundInv, InPhase, ConfigFound, TallyFound, Checks, ConfigChecks, TallyChecks

(* All that the loaders read is loaded and none of it broken, and what the *)
(* checks that have run found holds as long as none has failed.            *)
THEOREM LoadedIsRead == Spec => []FoundInv
<1>1. LoadInv /\ FoundInv /\ [Next]_vars => FoundInv'
  BY StepFoundInv
<1> QED BY <1>1, InitFoundInv, Inductive, PTL DEF Spec

-----------------------------------------------------------------------------
(* What accepted evidence is.                                              *)

(* The payload at position k of the file f, with its label.                *)
Item(f, k) == [label |-> Label(f, IF f.form = "list" THEN k - 1 ELSE NoIndex), payload |-> f.body[k]]

LEMMA FilesAre ==
    ASSUME store \in Stores
    PROVE  /\ IsFiniteSet(store) /\ \A f \in store : IsFile(f)
           /\ \A f, g \in store : Path(f) = Path(g) /\ f.family \notin {"configXml", "ech"} => f = g
BY StoresAssumption

LEMMA EveryFamilyOrdered == \A family \in Families : \E j \in 1..10 : Order[j] = family
<1>1. /\ Order[1] = "context" /\ Order[2] = "onlineKeys" /\ Order[3] = "setupKeys"
      /\ Order[4] = "tallyData" /\ Order[5] = "ballotBox" /\ Order[6] = "shuffle"
      /\ Order[7] = "finalShuffle" /\ Order[8] = "finalVotes" /\ Order[9] = "configXml"
      /\ Order[10] = "ech"
  BY DEF Order
<1> QED BY <1>1 DEF Families, SetupFamilies, TallyFamilies, OnlineFamilies, FinalFamilies

(* When a run is done, a family holds exactly what its loader reads.       *)
LEMMA LoadedIs ==
    ASSUME FoundInv, pc = "done", NEW family \in Families
    PROVE  /\ loaded[family] = UNION {Labelled(f) : f \in Read(family)}
           /\ \A f \in Read(family) : f \in store /\ f.form # "broken" /\ f.family = family
<1>1. PICK j \in 1..10 : Order[j] = family
  BY EveryFamilyOrdered
<1>2. Past(j)
  BY DEF Past
<1> QED BY <1>1, <1>2, ReadsOwnTree DEF FoundInv, LoadedAll

LEMMA ItemLoaded ==
    ASSUME FoundInv, pc = "done", NEW family \in Families, NEW f \in Read(family), NEW k \in DOMAIN f.body
    PROVE  Item(f, k) \in loaded[family]
<1>1. Item(f, k) \in Labelled(f)
  BY DEF Item, Labelled
<1> QED BY <1>1, LoadedIs

LEMMA LoadedFinite ==
    ASSUME FoundInv, pc = "done", NEW family \in Families
    PROVE  IsFiniteSet(loaded[family])
<1>1. store \in Stores
  BY DEF FoundInv
<1>2. IsFiniteSet(Read(family))
  BY <1>1, FilesAre, LoadedIs, FS_Subset
<1>3. ASSUME NEW f \in Read(family)
      PROVE  IsFiniteSet(Labelled(f))
  <2>1. DOMAIN f.body = 1..Len(f.body) /\ Len(f.body) \in Nat
    BY <1>1, FilesAre, LoadedIs DEF IsFile
  <2>2. IsFiniteSet(DOMAIN f.body)
    BY <2>1, FS_Interval
  <2> DEFINE at == [k \in DOMAIN f.body |-> Item(f, k)]
  <2>3. at \in Surjection(DOMAIN f.body, Labelled(f))
    BY DEF Surjection, Labelled, Item
  <2> QED BY <2>2, <2>3, FS_Surjection
<1> DEFINE all == {Labelled(f) : f \in Read(family)}
           of == [f \in Read(family) |-> Labelled(f)]
<1>4. of \in Surjection(Read(family), all)
  BY DEF Surjection
<1>5. IsFiniteSet(all)
  BY <1>2, <1>4, FS_Surjection
<1>6. \A T \in all : IsFiniteSet(T)
  BY <1>3
<1> QED BY <1>5, <1>6, FS_UNION, LoadedIs

(* A label tells the file and the position in it.                          *)
LEMMA LabelTells ==
    ASSUME store \in Stores, NEW f \in store, NEW g \in store, f.family = g.family,
           f.family \notin {"configXml", "ech"}, f.form # "broken", g.form # "broken",
           NEW i \in DOMAIN f.body, NEW k \in DOMAIN g.body, Item(f, i) = Item(g, k)
    PROVE  f = g /\ i = k
<1>1. Item(f, i).label = Item(g, k).label
  OBVIOUS
<1>2. /\ f.tree = g.tree /\ f.place = g.place /\ f.of = g.of /\ f.number = g.number
      /\ (IF f.form = "list" THEN i - 1 ELSE NoIndex) = (IF g.form = "list" THEN k - 1 ELSE NoIndex)
  BY <1>1 DEF Item, Label
<1>3. f = g
  BY <1>2, FilesAre DEF Path
<1>4. IsFile(f)
  BY FilesAre
<1>5. CASE f.form = "list"
  BY <1>2, <1>3, <1>4, <1>5 DEF IsFile
<1>6. CASE f.form = "one"
  <2>1. DOMAIN f.body = 1..1
    BY <1>4, <1>6 DEF IsFile
  <2> QED BY <1>3, <2>1
<1> QED BY <1>3, <1>4, <1>5, <1>6 DEF IsFile

LEMMA OneOfNode ==
    ASSUME NEW items, IsFiniteSet(items), OncePerNode(items), NEW x \in items, NEW y \in items,
           x.payload.node = y.payload.node, x.payload.node \in 1..4
    PROVE  x = y
<1> DEFINE same == {item \in items : item.payload.node = x.payload.node}
<1>1. IsFiniteSet(same) /\ Cardinality(same) = 1
  BY FS_Subset DEF OncePerNode
<1>2. PICK z : same = {z}
  BY <1>1, FS_Singleton
<1> QED BY <1>2

(* Four payloads, one of each of the four nodes: there is none of another. *)
LEMMA NoFifthNode ==
    ASSUME NEW items, IsFiniteSet(items), OncePerNode(items), Cardinality(items) = 4
    PROVE  \A item \in items : item.payload.node \in 1..4
<1>1. ASSUME NEW n \in 1..4
      PROVE  \E x \in items : x.payload.node = n
  <2> DEFINE same == {item \in items : item.payload.node = n}
  <2>1. Cardinality(same) = 1 /\ IsFiniteSet(same)
    BY FS_Subset DEF OncePerNode
  <2>2. same # {}
    BY <2>1, FS_EmptySet
  <2> QED BY <2>2
<1>2. PICK a \in items : a.payload.node = 1
  BY <1>1
<1>3. PICK b \in items : b.payload.node = 2
  BY <1>1
<1>4. PICK c \in items : c.payload.node = 3
  BY <1>1
<1>5. PICK d \in items : d.payload.node = 4
  BY <1>1
<1>6. a # b /\ a # c /\ a # d /\ b # c /\ b # d /\ c # d
  BY <1>2, <1>3, <1>4, <1>5
<1>7. IsFiniteSet({a}) /\ Cardinality({a}) = 1
  BY FS_Singleton
<1>8. ASSUME NEW S, NEW x, NEW n \in Nat, IsFiniteSet(S), Cardinality(S) = n, x \notin S
      PROVE  IsFiniteSet(S \cup {x}) /\ Cardinality(S \cup {x}) = n + 1
  BY <1>8, FS_AddElement
<1>9. IsFiniteSet({a} \cup {b}) /\ Cardinality({a} \cup {b}) = 2
  BY <1>6, <1>7, <1>8, 1 + 1 = 2
<1>10. IsFiniteSet(({a} \cup {b}) \cup {c}) /\ Cardinality(({a} \cup {b}) \cup {c}) = 3
  <2>1. c \notin {a} \cup {b}
    BY <1>6
  <2> DEFINE two == {a} \cup {b}
  <2> HIDE DEF two
  <2>2. IsFiniteSet(two) /\ Cardinality(two) = 2 /\ c \notin two
    BY <2>1, <1>9 DEF two
  <2>3. IsFiniteSet(two \cup {c}) /\ Cardinality(two \cup {c}) = 3
    BY <2>2, <1>8
  <2> QED BY <2>3 DEF two
<1> DEFINE four == (({a} \cup {b}) \cup {c}) \cup {d}
<1>11. IsFiniteSet(four) /\ Cardinality(four) = 4
  <2>1. d \notin ({a} \cup {b}) \cup {c}
    BY <1>6
  <2> DEFINE three == ({a} \cup {b}) \cup {c}
  <2> HIDE DEF three
  <2>2. IsFiniteSet(three) /\ Cardinality(three) = 3 /\ d \notin three
    BY <2>1, <1>10 DEF three
  <2>3. IsFiniteSet(three \cup {d}) /\ Cardinality(three \cup {d}) = 4
    BY <2>2, <1>8
  <2> QED BY <2>3 DEF three
<1>12. items = four
  <2>1. four \subseteq items
    BY <1>2, <1>3, <1>4, <1>5
  <2> HIDE DEF four
  <2> QED BY <1>11, <2>1, FS_Subset
<1> QED BY <1>2, <1>3, <1>4, <1>5, <1>12

(* The files that hold the evidence of a phase are all read.               *)
LEMMA ConfigEvidenceRead ==
    ASSUME FoundInv, NEW f \in ConfigEvidence
    PROVE  /\ f.family \in {"onlineKeys", "tallyData"} /\ f \in Read(f.family)
<1>1. f \in store /\ f.tree = SetupRoot /\ f.family \in {"onlineKeys", "tallyData"}
  BY DEF ConfigEvidence, Evidence
<1>2. CASE f.family = "onlineKeys"
  <2>1. Read(f.family) = OnlineKeyFiles
    BY <1>2 DEF Read
  <2>2. f.place \in {"top", "context"} /\ f.number \in All..4
    BY <1>1, <1>2, FilesAre DEF ConfigEvidence, Evidence, OnlineFamilies, FoundInv, IsFile
  <2>3. CASE f.number \in 1..4
    <3>1. f.place = "context"
      BY <1>1, <1>2, <2>3 DEF ConfigEvidence, Evidence, OnlineFamilies, All
    <3> QED BY <1>1, <1>2, <2>1, <2>3, <3>1 DEF OnlineKeyFiles, FilesOf
  <2>4. CASE f.number \in {One, All}
    BY <1>1, <1>2, <2>1, <2>2, <2>4 DEF OnlineKeyFiles, FilesOf
  <2> QED BY <2>2, <2>3, <2>4 DEF One, All
<1>3. CASE f.family = "tallyData"
  <2>1. Read(f.family) = TallyDataFiles
    BY <1>3 DEF Read
  <2> QED BY <1>1, <1>3, <2>1 DEF TallyDataFiles, FilesOf, ConfigEvidence, Evidence, OnlineFamilies
<1> QED BY <1>1, <1>2, <1>3

LEMMA TallyEvidenceRead ==
    ASSUME FoundInv, NEW f \in TallyEvidence
    PROVE  /\ f.family \in OnlineFamilies /\ f \in Read(f.family)
<1>1. f \in store /\ f.tree = TallyRoot /\ f.family \in OnlineFamilies /\ f.number \in All..4
  BY FilesAre DEF TallyEvidence, Evidence, FoundInv, IsFile
<1>2. Read(f.family) = TallyFiles(f.family)
  BY <1>1 DEF Read, OnlineFamilies
<1> QED BY <1>1, <1>2 DEF TallyFiles, FilesOf, TallyEvidence, Evidence, OnlineFamilies, All

LEMMA ConfigNoTwo ==
    ASSUME FoundInv, AcceptedAs("config")
    PROVE  NoTwoIn(ConfigEvidence)
<1> SUFFICES ASSUME NEW f \in ConfigEvidence, NEW g \in ConfigEvidence,
                    NEW i \in DOMAIN f.body, NEW k \in DOMAIN g.body,
                    f.family = g.family, f.body[i].node = g.body[k].node, f.body[i].id = g.body[k].id
             PROVE  f = g /\ i = k
  BY DEF NoTwoIn
<1>1. pc = "done" /\ NodeIdsOk /\ CardSetIdsOk
  BY DEF AcceptedAs, FoundInv, ConfigFound
<1>2. /\ f.family \in {"onlineKeys", "tallyData"} /\ f \in Read(f.family) /\ g \in Read(f.family)
      /\ f.family \in Families
  BY ConfigEvidenceRead DEF Families, SetupFamilies
<1>3. Item(f, i) \in loaded[f.family] /\ Item(g, k) \in loaded[f.family]
  BY <1>1, <1>2, ItemLoaded
<1>4. Item(f, i).payload = f.body[i] /\ Item(g, k).payload = g.body[k]
  BY DEF Item
<1>5. Item(f, i) = Item(g, k)
  <2>1. CASE f.family = "onlineKeys"
    <3>1. loaded[f.family] # {}
      BY <1>3
    <3>2. OncePerNode(loaded[f.family]) /\ \A item \in loaded[f.family] : item.payload.node \in 1..4
      BY <1>1, <2>1, <3>1 DEF NodeIdsOk
    <3> QED BY <1>1, <1>2, <1>3, <1>4, <3>2, LoadedFinite, OneOfNode
  <2>2. CASE f.family = "tallyData"
    BY <1>1, <1>3, <1>4, <2>2 DEF CardSetIdsOk
  <2> QED BY <1>2, <2>1, <2>2
<1>6. f.form # "broken" /\ g.form # "broken" /\ f \in store /\ g \in store /\ store \in Stores
  BY <1>1, <1>2, LoadedIs DEF FoundInv
<1> QED BY <1>2, <1>5, <1>6, LabelTells

LEMMA TallyNoTwo ==
    ASSUME FoundInv, AcceptedAs("tally")
    PROVE  NoTwoIn(TallyEvidence)
<1> SUFFICES ASSUME NEW f \in TallyEvidence, NEW g \in TallyEvidence,
                    NEW i \in DOMAIN f.body, NEW k \in DOMAIN g.body,
                    f.family = g.family, f.body[i].node = g.body[k].node, f.body[i].id = g.body[k].id
             PROVE  f = g /\ i = k
  BY DEF NoTwoIn
<1>1. pc = "done" /\ TallyComplete
  BY DEF AcceptedAs, FoundInv, TallyFound
<1>2. /\ f.family \in OnlineFamilies /\ f \in Read(f.family) /\ g \in Read(f.family)
      /\ f.family \in Families /\ f.family \notin {"configXml", "ech"}
  BY TallyEvidenceRead DEF Families, TallyFamilies, OnlineFamilies
<1>3. Item(f, i) \in loaded[f.family] /\ Item(g, k) \in loaded[f.family]
  BY <1>1, <1>2, ItemLoaded
<1>4. Item(f, i).payload = f.body[i] /\ Item(g, k).payload = g.body[k]
  BY DEF Item
<1> DEFINE items == {item \in loaded[f.family] : item.payload.id = f.body[i].id}
<1>5. OncePerNode(items) /\ Cardinality(items) = 4
  BY <1>1, <1>2, <1>3, <1>4 DEF TallyComplete, FourNodes
<1>6. IsFiniteSet(items) /\ Item(f, i) \in items /\ Item(g, k) \in items
  BY <1>1, <1>2, <1>3, <1>4, LoadedFinite, FS_Subset
<1> HIDE DEF items
<1>7. Item(f, i).payload.node \in 1..4
  BY <1>5, <1>6, NoFifthNode
<1>8. Item(f, i) = Item(g, k)
  BY <1>4, <1>5, <1>6, <1>7, OneOfNode
<1>9. f.form # "broken" /\ g.form # "broken" /\ f \in store /\ g \in store /\ store \in Stores
  BY <1>1, <1>2, LoadedIs DEF FoundInv
<1> QED BY <1>2, <1>8, <1>9, LabelTells

(* In evidence that is accepted no payload has a second copy, in whatever  *)
(* mixture of aggregated and single files, for all sets of files.          *)
THEOREM NothingTwice == Spec => []NoSecondCopy
<1>1. FoundInv => NoSecondCopy
  BY ConfigNoTwo, TallyNoTwo DEF NoSecondCopy
<1> QED BY <1>1, LoadedIsRead, PTL

LEMMA ConfigTruthful ==
    ASSUME FoundInv, AcceptedAs("config")
    PROVE  /\ \A f \in ConfigEvidence :
                 /\ f.form = "one" /\ f.number > 0 => f.body[1].node = f.number
                 /\ f.form = "one" /\ f.of # NoId => f.body[1].id = f.of
           /\ LET own == {f \in ConfigEvidence : f.form = "one" /\ f.of # NoId}
              IN  own # {} => {f.of : f \in own} = CardSets
<1>1. pc = "done" /\ KeyFileNamesOk /\ CardSetFileNamesOk
  BY DEF AcceptedAs, FoundInv, ConfigFound
<1>2. ASSUME NEW f \in ConfigEvidence, f.form = "one"
      PROVE  /\ f.family \in {"onlineKeys", "tallyData"} /\ Item(f, 1) \in loaded[f.family]
             /\ Item(f, 1).label = Label(f, NoIndex) /\ Item(f, 1).payload = f.body[1]
  <2>1. f.family \in {"onlineKeys", "tallyData"} /\ f \in Read(f.family) /\ f \in store
    BY ConfigEvidenceRead DEF ConfigEvidence, Evidence
  <2>2. 1 \in DOMAIN f.body
    BY <1>2, <2>1, FilesAre DEF FoundInv, IsFile
  <2>3. f.family \in Families
    BY <2>1 DEF Families, SetupFamilies
  <2> QED BY <1>1, <1>2, <2>1, <2>2, <2>3, ItemLoaded DEF Item
<1>3. ASSUME NEW f \in ConfigEvidence, f.form = "one", f.number > 0
      PROVE  f.body[1].node = f.number
  <2>1. f.family = "onlineKeys" /\ f.place = "context"
    BY <1>2, <1>3 DEF ConfigEvidence, Evidence, OnlineFamilies, One, All
  <2> DEFINE label == Item(f, 1).label
  <2>2. label = Label(f, NoIndex)
    BY <1>2, <1>3
  <2>3. label.place = "context" /\ label.number = f.number /\ label.index = NoIndex
    BY <2>1, <2>2 DEF Label
  <2>4. HasSlash(label)
    BY <2>3 DEF HasSlash
  <2> QED BY <2>3, <2>4, <1>1, <1>2, <1>3, <2>1, <2>2 DEF KeyFileNamesOk
<1> DEFINE paths == {item \in loaded["tallyData"] :
                       item.label.place = "verificationCardSets" /\ item.label.index = NoIndex}
           own == {f \in ConfigEvidence : f.form = "one" /\ f.of # NoId}
<1>4. ASSUME NEW f \in own
      PROVE  Item(f, 1) \in paths /\ Item(f, 1).label.of = f.of /\ f.body[1].id = f.of
  <2>1. f.place \in {"verificationCardSets", "ballotBoxes"} /\ f.family \in {"onlineKeys", "tallyData"}
    BY <1>2, FilesAre DEF ConfigEvidence, Evidence, FoundInv, IsFile
  <2>2. f.family = "tallyData" /\ f.place = "verificationCardSets"
    BY <2>1 DEF ConfigEvidence, Evidence, OnlineFamilies
  <2>3. Item(f, 1).label = Label(f, NoIndex) /\ Item(f, 1) \in loaded["tallyData"]
    BY <1>2, <2>2
  <2>4. Item(f, 1) \in paths /\ Item(f, 1).label.of = f.of
    BY <2>2, <2>3 DEF Label
  <2> QED BY <1>1, <1>2, <2>4 DEF CardSetFileNamesOk
<1>5. ASSUME NEW item \in paths
      PROVE  \E f \in own : item.label.of = f.of
  <2>1. PICK f \in Read("tallyData") : item \in Labelled(f)
    BY <1>1, LoadedIs DEF Families, SetupFamilies
  <2>2. f \in store /\ f.form # "broken" /\ f.family = "tallyData" /\ IsFile(f)
    BY <1>1, <2>1, LoadedIs, FilesAre DEF Families, SetupFamilies, FoundInv
  <2>3. f.place = item.label.place /\ f.of = item.label.of /\ f.form = "one"
    <3>1. PICK k \in DOMAIN f.body : item = Item(f, k)
      BY <2>1 DEF Labelled, Item
    <3>2. item.label = Label(f, IF f.form = "list" THEN k - 1 ELSE NoIndex)
      BY <3>1 DEF Item
    <3>3. k - 1 # NoIndex
      BY <2>2 DEF IsFile, NoIndex
    <3>4. f.form # "list"
      BY <3>2, <3>3 DEF Label
    <3> QED BY <2>2, <3>2, <3>4 DEF Label, IsFile
  <2>4. f \in TallyDataFiles
    BY <2>1 DEF Read
  <2>5. f \in ConfigEvidence
    BY <2>2, <2>3, <2>4 DEF TallyDataFiles, FilesOf, ConfigEvidence, Evidence
  <2> QED BY <2>2, <2>3, <2>5 DEF IsFile
<1>6. own # {} => {f.of : f \in own} = CardSets
  <2> HAVE own # {}
  <2>1. paths # {}
    BY <1>4
  <2>2. {item.label.of : item \in paths} = CardSets
    BY <1>1, <2>1 DEF CardSetFileNamesOk
  <2>3. {item.label.of : item \in paths} = {f.of : f \in own}
    BY <1>4, <1>5
  <2> QED BY <2>2, <2>3
<1> QED BY <1>3, <1>4, <1>6

LEMMA TallyTruthful ==
    ASSUME FoundInv, AcceptedAs("tally"), NEW f \in TallyEvidence, f.place = "ballotBoxes",
           NEW k \in DOMAIN f.body
    PROVE  f.body[k].node = f.number /\ (Unmistakable(f) => f.body[k].id = f.of)
<1>1. pc = "done" /\ NodeFileNamesOk /\ BoxFileNamesOk
  BY DEF AcceptedAs, FoundInv, TallyFound
<1>2. f.family \in OnlineFamilies /\ f \in Read(f.family) /\ f.family \in Families
  BY TallyEvidenceRead DEF Families, TallyFamilies
<1>3. Item(f, k) \in loaded[f.family]
  BY <1>1, <1>2, ItemLoaded
<1>4. Item(f, k) \in Online /\ Item(f, k) \in TallyItems
  BY <1>2, <1>3 DEF Online, TallyItems, OnlineFamilies
<1> DEFINE index == IF f.form = "list" THEN k - 1 ELSE NoIndex
<1>5. /\ Item(f, k).payload = f.body[k] /\ Item(f, k).label = Label(f, index)
      /\ HasSlash(Label(f, index))
      /\ Label(f, index).number = f.number /\ Label(f, index).index = index
  BY DEF Item, Label, HasSlash
<1>6. f.number = f.body[k].node /\ index = NoIndex
  BY <1>1, <1>4, <1>5 DEF NodeFileNamesOk
<1>7. f.body[k].id \in BallotBoxes /\ Occurs(f.body[k].id, Label(f, NoIndex))
  BY <1>1, <1>4, <1>5, <1>6 DEF BoxFileNamesOk, BoxFileNamesOkOf
<1> QED BY <1>6, <1>7 DEF Unmistakable

(* The paths of accepted evidence tell the truth, for all sets of files,   *)
(* ballot boxes and texts in which an id may occur: in a ballot box's      *)
(* directory, where no other listed id is part of the path (PathsTruthful). *)
THEOREM PathsTellTheTruth == Spec => []PathsTruthful
<1>1. FoundInv => PathsTruthful
  BY ConfigTruthful, TallyTruthful DEF PathsTruthful
<1> QED BY <1>1, LoadedIsRead, PTL

-----------------------------------------------------------------------------
(* Honest datasets.                                                        *)

LEMMA SetupTreeFound ==
    ASSUME HonestSetup(store)
    PROVE  SetupRoot = SetupTree(store)
<1>1. PICK f \in store : /\ Own(store, SetupTree(store), "context") = {f} /\ f.number = One
                         /\ f.place = "context" \/ (f.place = "top" /\ f.tree = "root")
  BY DEF HonestSetup
<1>2. f.tree = SetupTree(store) /\ f.family = "context"
  BY <1>1 DEF Own
<1> QED BY <1>1, <1>2 DEF SetupRoot, SetupTree

LEMMA TallyTreeFound ==
    ASSUME HonestTally(store)
    PROVE  TallyRoot = TallyTree(store)
<1> DEFINE of == Own(store, TallyTree(store), "ballotBox")
<1>1. PICK box \in BallotBoxes : TRUE
  BY DEF HonestTally
<1>2. \/ OneByOne(of, "ballotBoxes", 1..4, BallotBoxes)
      \/ Aggregated(of, 1..4, BallotBoxes)
  BY DEF HonestTally, OnlineFamilies
<1>3. CASE OneByOne(of, "ballotBoxes", 1..4, BallotBoxes)
  <2>1. PICK f \in of : f.number = 1 /\ f.of = box /\ f.place = "ballotBoxes"
    BY <1>1, <1>3 DEF OneByOne, Filed
  <2> QED BY <2>1 DEF Own, TallyRoot, TallyTree
<1>4. CASE Aggregated(of, 1..4, BallotBoxes)
  <2>1. PICK f \in of : f.tree = "root"
    BY <1>4 DEF Aggregated
  <2> QED BY <2>1 DEF Own, TallyRoot, TallyTree
<1> QED BY <1>2, <1>3, <1>4

(* The loaders find every file of an honest dataset's tree.                *)
LEMMA SetupRead ==
    ASSUME HonestSetup(store), NEW family \in SetupFamilies \ {"configXml"}
    PROVE  Read(family) = Own(store, SetupTree(store), family)
<1> DEFINE tree == SetupTree(store)
           of == Own(store, tree, family)
<1>1. SetupRoot = tree
  BY SetupTreeFound
<1>2. \A place, numbers :
        FilesOf(tree, family, place, numbers) = {f \in of : f.place = place /\ f.number \in numbers}
  BY DEF FilesOf, Own
<1>3. CASE family \in {"context", "setupKeys"}
  <2>1. PICK f \in store : of = {f} /\ f.number = One /\ f.place \in {"top", "context"}
    BY <1>3 DEF HonestSetup
  <2>2. Read(family) = ContextFilesOf(tree, family)
    BY <1>1, <1>3 DEF Read, ContextFiles
  <2>3. CASE f.place = "top"
    <3>1. FilesOf(tree, family, "top", {One}) = {f}
      BY <1>2, <2>1, <2>3
    <3> QED BY <2>1, <2>2, <3>1 DEF ContextFilesOf, FirstOf
  <2>4. CASE f.place = "context"
    <3>1. FilesOf(tree, family, "top", {One}) = {} /\ FilesOf(tree, family, "context", {One}) = {f}
      BY <1>2, <2>1, <2>4
    <3> QED BY <2>1, <2>2, <3>1 DEF ContextFilesOf, FirstOf
  <2> QED BY <2>1, <2>3, <2>4
<1>4. CASE family = "onlineKeys"
  <2>1. of = {} \/ \A f \in of : f.place = "context" /\ f.number \in 1..4
    BY <1>4 DEF HonestSetup, OneByOne, Filed
  <2>2. Read(family) = FilesOf(tree, family, "context", 1..4)
                         \cup UNION {FilesOf(tree, family, place, {One, All}) : place \in {"top", "context"}}
    BY <1>1, <1>4 DEF Read, OnlineKeyFiles
  <2>3. FilesOf(tree, family, "context", 1..4) = of
    BY <1>2, <2>1
  <2>4. \A place \in {"top", "context"} : FilesOf(tree, family, place, {One, All}) \subseteq of
    BY <1>2
  <2> QED BY <2>2, <2>3, <2>4
<1>5. CASE family = "tallyData"
  <2>1. \A f \in of : \/ f.place = "verificationCardSets" /\ f.number = One
                      \/ f.place = "top" /\ f.number = All
    BY <1>5 DEF HonestSetup, OneByOne, Filed, Aggregated, NoNode, One
  <2>2. Read(family) = FilesOf(tree, family, "top", {One, All})
                         \cup FilesOf(tree, family, "verificationCardSets", {One})
    BY <1>1, <1>5 DEF Read, TallyDataFiles
  <2> QED BY <1>2, <2>1, <2>2
<1> QED BY <1>3, <1>4, <1>5 DEF SetupFamilies

LEMMA TallyRead ==
    ASSUME HonestTally(store), NEW family \in TallyFamilies \ {"ech"}
    PROVE  Read(family) = Own(store, TallyTree(store), family)
<1> DEFINE tree == TallyTree(store)
           of == Own(store, tree, family)
<1>1. TallyRoot = tree
  BY TallyTreeFound
<1>2. \A place, numbers :
        FilesOf(tree, family, place, numbers) = {f \in of : f.place = place /\ f.number \in numbers}
  BY DEF FilesOf, Own
<1>3. CASE family \in OnlineFamilies
  <2>1. \A f \in of : \/ f.place = "ballotBoxes" /\ f.number \in 1..4
                      \/ f.place = "top" /\ f.number = All
    BY <1>3 DEF HonestTally, OneByOne, Filed, Aggregated
  <2>2. Read(family) = FilesOf(tree, family, "top", {All}) \cup FilesOf(tree, family, "ballotBoxes", 1..4)
    BY <1>1, <1>3 DEF Read, TallyFiles, OnlineFamilies
  <2> QED BY <1>2, <2>1, <2>2
<1>4. CASE family \in FinalFamilies
  <2>1. \A f \in of : f.place = "ballotBoxes" /\ f.number = One
    BY <1>4 DEF HonestTally, Filed
  <2>2. Read(family) = FilesOf(tree, family, "top", {One}) \cup FilesOf(tree, family, "ballotBoxes", {One})
    BY <1>1, <1>4 DEF Read, FinalFiles, FinalFamilies
  <2> QED BY <1>2, <2>1, <2>2
<1> QED BY <1>3, <1>4 DEF TallyFamilies

-----------------------------------------------------------------------------
(* What the payloads of a family are: those that are asked for, each once, *)
(* under labels that are either all of files or all of the top's list.     *)

Of(files) == UNION {Labelled(f) : f \in files}
EachOnce(items, nodes, ids) ==
    /\ \A x \in items : x.payload.node \in nodes /\ x.payload.id \in ids
    /\ \A node \in nodes, id \in ids : \E x \in items : x.payload.node = node /\ x.payload.id = id
    /\ \A x, y \in items : x.payload.node = y.payload.node /\ x.payload.id = y.payload.id => x = y
LabelOfFile(x, place) ==
    /\ x.label.place = place /\ x.label.index = NoIndex
    /\ x.label.number = x.payload.node /\ x.label.of = x.payload.id

LEMMA FiledItems ==
    ASSUME store \in Stores, NEW f \in store, NEW place, Filed(f, place)
    PROVE  /\ Labelled(f) = {[label |-> Label(f, NoIndex), payload |-> f.body[1]]}
           /\ \A x \in Labelled(f) : LabelOfFile(x, place) /\ x.payload = f.body[1]
<1>1. f.form = "one" /\ DOMAIN f.body = {1}
  BY FilesAre DEF Filed, IsFile
<1>2. Labelled(f) = {[label |-> Label(f, NoIndex), payload |-> f.body[1]]}
  BY <1>1 DEF Labelled
<1> QED BY <1>2 DEF LabelOfFile, Label, Filed

LEMMA OneByOneOnce ==
    ASSUME store \in Stores, NEW tree, NEW family \in Families \ {"configXml", "ech"},
           NEW place, NEW nodes, NEW ids,
           OneByOne(Own(store, tree, family), place, nodes, ids)
    PROVE  /\ EachOnce(Of(Own(store, tree, family)), nodes, ids)
           /\ \A x \in Of(Own(store, tree, family)) : LabelOfFile(x, place)
<1> DEFINE of == Own(store, tree, family)
<1>1. ASSUME NEW f \in of
      PROVE  /\ f \in store /\ f.tree = tree /\ f.family = family /\ Filed(f, place)
             /\ f.number \in nodes /\ f.of \in ids
             /\ f.number = f.body[1].node /\ f.of = f.body[1].id
             /\ Labelled(f) = {[label |-> Label(f, NoIndex), payload |-> f.body[1]]}
             /\ \A x \in Labelled(f) : LabelOfFile(x, place) /\ x.payload = f.body[1]
  BY FiledItems DEF OneByOne, Own, Filed
<1>2. ASSUME NEW f \in of, NEW g \in of, f.number = g.number, f.of = g.of
      PROVE  f = g
  <2>1. Path(f) = Path(g)
    BY <1>1, <1>2 DEF Path, Filed
  <2> QED BY <1>1, <2>1, FilesAre
<1>3. ASSUME NEW x \in Of(of)
      PROVE  \E f \in of : /\ x \in Labelled(f) /\ x.payload = f.body[1] /\ LabelOfFile(x, place)
                           /\ x.payload.node = f.number /\ x.payload.id = f.of
  BY <1>1 DEF Of
<1>4. ASSUME NEW node \in nodes, NEW id \in ids
      PROVE  \E x \in Of(of) : x.payload.node = node /\ x.payload.id = id
  <2>1. PICK f \in of : f.number = node /\ f.of = id
    BY DEF OneByOne
  <2>2. PICK x \in Labelled(f) : x.payload = f.body[1]
    BY <1>1
  <2> QED BY <1>1, <2>1, <2>2 DEF Of
<1>5. ASSUME NEW x \in Of(of), NEW y \in Of(of), x.payload.node = y.payload.node, x.payload.id = y.payload.id
      PROVE  x = y
  <2>1. PICK f \in of : x \in Labelled(f) /\ x.payload.node = f.number /\ x.payload.id = f.of
    BY <1>3
  <2>2. PICK g \in of : y \in Labelled(g) /\ y.payload.node = g.number /\ y.payload.id = g.of
    BY <1>3
  <2>3. f = g
    BY <1>2, <1>5, <2>1, <2>2
  <2> QED BY <1>1, <2>1, <2>2, <2>3
<1>6. \A x \in Of(of) : x.payload.node \in nodes /\ x.payload.id \in ids
  BY <1>1, <1>3
<1> HIDE DEF of
<1>7. EachOnce(Of(of), nodes, ids)
  BY <1>4, <1>5, <1>6 DEF EachOnce
<1>8. \A x \in Of(of) : LabelOfFile(x, place)
  BY <1>3
<1> QED BY <1>7, <1>8 DEF of

LEMMA AggregatedOnce ==
    ASSUME NEW files, NEW nodes, NEW ids, Aggregated(files, nodes, ids)
    PROVE  /\ EachOnce(Of(files), nodes, ids)
           /\ \A x \in Of(files) : x.label.tree = "root" /\ x.label.place = "top"
<1>1. PICK f \in files :
        /\ files = {f} /\ f.tree = "root" /\ f.place = "top" /\ f.form = "list"
        /\ \A k \in DOMAIN f.body : f.body[k].node \in nodes /\ f.body[k].id \in ids
        /\ \A node \in nodes, id \in ids :
             \E k \in DOMAIN f.body : f.body[k].node = node /\ f.body[k].id = id
        /\ \A k, l \in DOMAIN f.body :
             f.body[k].node = f.body[l].node /\ f.body[k].id = f.body[l].id => k = l
  BY DEF Aggregated
<1>2. Of(files) = Labelled(f)
  BY <1>1 DEF Of
<1>3. \A x : x \in Of(files) <=> \E k \in DOMAIN f.body : x = Item(f, k)
  BY <1>2 DEF Labelled, Item
<1>4. \A k : Item(f, k).payload = f.body[k] /\ Item(f, k).label.tree = "root" /\ Item(f, k).label.place = "top"
  BY <1>1 DEF Item, Label
<1>5. EachOnce(Of(files), nodes, ids)
  <2>1. \A x \in Of(files) : x.payload.node \in nodes /\ x.payload.id \in ids
    <3> SUFFICES ASSUME NEW x \in Of(files) PROVE x.payload.node \in nodes /\ x.payload.id \in ids
      OBVIOUS
    <3>1. PICK k \in DOMAIN f.body : x = Item(f, k)
      BY <1>3
    <3> QED BY <1>1, <1>4, <3>1
  <2>2. \A node \in nodes, id \in ids : \E x \in Of(files) : x.payload.node = node /\ x.payload.id = id
    <3> SUFFICES ASSUME NEW node \in nodes, NEW id \in ids
                 PROVE  \E x \in Of(files) : x.payload.node = node /\ x.payload.id = id
      OBVIOUS
    <3>1. PICK k \in DOMAIN f.body : f.body[k].node = node /\ f.body[k].id = id
      BY <1>1
    <3>2. Item(f, k) \in Of(files)
      BY <1>3
    <3> QED BY <1>4, <3>1, <3>2
  <2>3. \A x, y \in Of(files) :
          x.payload.node = y.payload.node /\ x.payload.id = y.payload.id => x = y
    <3> SUFFICES ASSUME NEW x \in Of(files), NEW y \in Of(files),
                        x.payload.node = y.payload.node, x.payload.id = y.payload.id
                 PROVE  x = y
      OBVIOUS
    <3>1. PICK k \in DOMAIN f.body : x = Item(f, k)
      BY <1>3
    <3>2. PICK l \in DOMAIN f.body : y = Item(f, l)
      BY <1>3
    <3>3. k = l
      BY <1>1, <1>4, <3>1, <3>2
    <3> QED BY <3>1, <3>2, <3>3
  <2> QED BY <2>1, <2>2, <2>3 DEF EachOnce
<1> QED BY <1>3, <1>4, <1>5

(* Each node once for each id is once for every node, four in all.         *)
LEMMA FourOfEachOnce ==
    ASSUME NEW items, NEW ids, EachOnce(items, 1..4, ids), NEW box \in ids
    PROVE  LET its == {x \in items : x.payload.id = box}
           IN  OncePerNode(its) /\ Cardinality(its) = 4
<1> DEFINE its == {x \in items : x.payload.id = box}
<1>1. OncePerNode(its)
  <2> SUFFICES ASSUME NEW n \in 1..4
               PROVE  Cardinality({x \in its : x.payload.node = n}) = 1
    BY DEF OncePerNode
  <2>1. PICK x \in its : x.payload.node = n
    BY DEF EachOnce
  <2>2. {y \in its : y.payload.node = n} = {x}
    BY <2>1 DEF EachOnce
  <2> QED BY <2>2, FS_Singleton
<1> DEFINE of == [x \in its |-> x.payload.node]
<1>2. ExistsBijection(its, 1..4)
  <2>1. of \in [its -> 1..4]
    BY DEF EachOnce
  <2>2. \A x, y \in its : of[x] = of[y] => x = y
    BY DEF EachOnce
  <2>3. \A n \in 1..4 : \E x \in its : of[x] = n
    BY DEF EachOnce
  <2> HIDE DEF of, its
  <2>4. of \in Bijection(its, 1..4)
    BY <2>1, <2>2, <2>3 DEF Bijection, Injection, Surjection, IsInjective
  <2> QED BY <2>4 DEF ExistsBijection
<1>3. IsFiniteSet(1..4) /\ Cardinality(1..4) = 4
  <2>1. \A n \in Nat : IsFiniteSet(1..n) /\ Cardinality(1..n) = n
    BY FS_Interval
  <2>2. 4 \in Nat
    OBVIOUS
  <2> QED BY <2>1, <2>2, Zenon
<1>4. Cardinality(its) = 4
  BY <1>2, <1>3, FS_Bijection, Fun_ExistsBijSymmetric
<1> QED BY <1>1, <1>4

LEMMA AllLoaded ==
    ASSUME FoundInv, Loaded, NEW family \in Families
    PROVE  loaded[family] = Of(Read(family))
<1>1. PICK j \in 1..10 : Order[j] = family
  BY EveryFamilyOrdered
<1>2. Past(j)
  BY DEF Past, Loaded
<1> QED BY <1>1, <1>2 DEF FoundInv, LoadedAll, Of

(* What an honest dataset's families hold when they are loaded.            *)
LEMMA HonestSetupLoaded ==
    ASSUME FoundInv, Loaded, HonestSetup(store)
    PROVE  /\ \A family \in SetupFamilies \ {"configXml"} :
                loaded[family] = Of(Own(store, SetupTree(store), family))
           /\ loaded["context"] # {} /\ loaded["setupKeys"] # {}
           /\ \/ loaded["onlineKeys"] = {}
              \/ /\ EachOnce(loaded["onlineKeys"], 1..4, {NoId})
                 /\ \A x \in loaded["onlineKeys"] : LabelOfFile(x, "context")
           /\ CardSets # {} /\ EachOnce(loaded["tallyData"], {NoNode}, CardSets)
           /\ \/ \A x \in loaded["tallyData"] : LabelOfFile(x, "verificationCardSets")
              \/ \A x \in loaded["tallyData"] : x.label.tree = "root" /\ x.label.place = "top"
<1> DEFINE tree == SetupTree(store)
<1>1. store \in Stores
  BY DEF FoundInv
<1>2. \A family \in SetupFamilies \ {"configXml"} : loaded[family] = Of(Own(store, tree, family))
  BY AllLoaded, SetupRead DEF Families
<1>3. ASSUME NEW family \in {"context", "setupKeys"}
      PROVE  loaded[family] # {}
  <2>1. PICK f \in store : Own(store, tree, family) = {f} /\ f.form = "one"
    BY DEF HonestSetup
  <2>2. 1 \in DOMAIN f.body
    BY <1>1, <2>1, FilesAre DEF IsFile
  <2>3. Item(f, 1) \in Labelled(f)
    BY <2>2 DEF Item, Labelled
  <2>4. Item(f, 1) \in Of(Own(store, tree, family))
    BY <2>1, <2>3 DEF Of
  <2> QED BY <1>2, <2>4 DEF SetupFamilies
<1>4. \/ loaded["onlineKeys"] = {}
      \/ /\ EachOnce(loaded["onlineKeys"], 1..4, {NoId})
         /\ \A x \in loaded["onlineKeys"] : LabelOfFile(x, "context")
  <2> DEFINE of == Own(store, tree, "onlineKeys")
  <2>1. loaded["onlineKeys"] = Of(of)
    BY <1>2 DEF SetupFamilies
  <2>2. of = {} \/ OneByOne(of, "context", 1..4, {NoId})
    BY DEF HonestSetup
  <2>3. "onlineKeys" \in Families \ {"configXml", "ech"}
    BY DEF Families, SetupFamilies
  <2>4. CASE of = {}
    BY <2>1, <2>4 DEF Of
  <2>5. CASE OneByOne(of, "context", 1..4, {NoId})
    BY <1>1, <2>1, <2>3, <2>5, OneByOneOnce
  <2> QED BY <2>2, <2>4, <2>5
<1>5. /\ EachOnce(loaded["tallyData"], {NoNode}, CardSets)
      /\ \/ \A x \in loaded["tallyData"] : LabelOfFile(x, "verificationCardSets")
         \/ \A x \in loaded["tallyData"] : x.label.tree = "root" /\ x.label.place = "top"
  <2> DEFINE of == Own(store, tree, "tallyData")
  <2>1. loaded["tallyData"] = Of(of)
    BY <1>2 DEF SetupFamilies
  <2>2. OneByOne(of, "verificationCardSets", {NoNode}, CardSets) \/ Aggregated(of, {NoNode}, CardSets)
    BY DEF HonestSetup
  <2>3. "tallyData" \in Families \ {"configXml", "ech"}
    BY DEF Families, SetupFamilies
  <2>4. CASE OneByOne(of, "verificationCardSets", {NoNode}, CardSets)
    BY <1>1, <2>1, <2>3, <2>4, OneByOneOnce
  <2>5. CASE Aggregated(of, {NoNode}, CardSets)
    BY <2>1, <2>5, AggregatedOnce
  <2> QED BY <2>2, <2>4, <2>5
<1>6. CardSets # {}
  BY DEF HonestSetup
<1> QED BY <1>2, <1>3, <1>4, <1>5, <1>6

LEMMA HonestTallyLoaded ==
    ASSUME FoundInv, Loaded, HonestTally(store)
    PROVE  /\ \A family \in TallyFamilies \ {"ech"} :
                loaded[family] = Of(Own(store, TallyTree(store), family))
           /\ BallotBoxes # {}
           /\ \A family \in OnlineFamilies :
                /\ EachOnce(loaded[family], 1..4, BallotBoxes)
                /\ \/ \A x \in loaded[family] : LabelOfFile(x, "ballotBoxes")
                   \/ \A x \in loaded[family] : x.label.tree = "root" /\ x.label.place = "top"
           /\ \A family \in FinalFamilies : \A x \in loaded[family] :
                LabelOfFile(x, "ballotBoxes") /\ x.payload.id \in BallotBoxes
<1> DEFINE tree == TallyTree(store)
<1>1. store \in Stores
  BY DEF FoundInv
<1>2. \A family \in TallyFamilies \ {"ech"} : loaded[family] = Of(Own(store, tree, family))
  BY AllLoaded, TallyRead DEF Families
<1>3. ASSUME NEW family \in OnlineFamilies
      PROVE  /\ EachOnce(loaded[family], 1..4, BallotBoxes)
             /\ \/ \A x \in loaded[family] : LabelOfFile(x, "ballotBoxes")
                \/ \A x \in loaded[family] : x.label.tree = "root" /\ x.label.place = "top"
  <2> DEFINE of == Own(store, tree, family)
  <2>1. loaded[family] = Of(of)
    BY <1>2 DEF TallyFamilies, OnlineFamilies
  <2>2. OneByOne(of, "ballotBoxes", 1..4, BallotBoxes) \/ Aggregated(of, 1..4, BallotBoxes)
    BY DEF HonestTally
  <2>3. family \in Families \ {"configXml", "ech"}
    BY DEF Families, TallyFamilies, OnlineFamilies
  <2>4. CASE OneByOne(of, "ballotBoxes", 1..4, BallotBoxes)
    BY <1>1, <2>1, <2>3, <2>4, OneByOneOnce
  <2>5. CASE Aggregated(of, 1..4, BallotBoxes)
    BY <2>1, <2>5, AggregatedOnce
  <2> QED BY <2>2, <2>4, <2>5
<1>4. ASSUME NEW family \in FinalFamilies, NEW x \in loaded[family]
      PROVE  LabelOfFile(x, "ballotBoxes") /\ x.payload.id \in BallotBoxes
  <2>1. loaded[family] = Of(Own(store, tree, family))
    BY <1>2 DEF TallyFamilies, FinalFamilies
  <2>2. PICK f \in Own(store, tree, family) : x \in Labelled(f)
    BY <1>4, <2>1 DEF Of
  <2>3. f \in store /\ Filed(f, "ballotBoxes") /\ f.of \in BallotBoxes
    BY <2>2 DEF HonestTally, Own
  <2>4. LabelOfFile(x, "ballotBoxes") /\ x.payload = f.body[1]
    BY <1>1, <2>2, <2>3, FiledItems
  <2> QED BY <2>3, <2>4 DEF Filed
<1>5. BallotBoxes # {}
  BY DEF HonestTally
<1> QED BY <1>2, <1>3, <1>4, <1>5

-----------------------------------------------------------------------------
(* The verdicts on an honest dataset.                                      *)

LEMMA SetupVerdicts ==
    ASSUME FoundInv, Loaded, HonestSetup(store)
    PROVE  /\ Missing = {} /\ NodeIdsOk /\ KeyFileNamesOk
           /\ ~CardSetIdMissing /\ CardSetIdsOk /\ CardSetFileNamesOk
<1>1. Missing = {}
  <2>1. loaded["tallyData"] # {}
    BY HonestSetupLoaded DEF EachOnce
  <2> QED BY <2>1, HonestSetupLoaded DEF Missing
<1>2. NodeIdsOk
  <2> DEFINE keys == loaded["onlineKeys"]
  <2>1. SUFFICES ASSUME EachOnce(keys, 1..4, {NoId})
                 PROVE  OncePerNode(keys) /\ \A item \in keys : item.payload.node \in 1..4
    BY HonestSetupLoaded DEF NodeIdsOk
  <2>2. {x \in keys : x.payload.id = NoId} = keys
    BY <2>1 DEF EachOnce
  <2>3. OncePerNode(keys)
    BY <2>1, <2>2, FourOfEachOnce
  <2> QED BY <2>1, <2>3 DEF EachOnce
<1>3. KeyFileNamesOk
  <2> SUFFICES ASSUME NEW item \in loaded["onlineKeys"]
               PROVE  /\ item.payload.node # NoNode /\ HasSlash(item.label)
                      /\ item.label.number > 0 /\ item.label.index = NoIndex
                      /\ item.label.number = item.payload.node
    BY DEF KeyFileNamesOk
  <2>1. item.payload.node \in 1..4 /\ LabelOfFile(item, "context")
    BY HonestSetupLoaded DEF EachOnce
  <2> QED BY <2>1 DEF LabelOfFile, HasSlash, NoNode
<1>4. CardSetIdsOk
  <2>1. EachOnce(loaded["tallyData"], {NoNode}, CardSets)
    BY HonestSetupLoaded
  <2> QED BY <2>1 DEF CardSetIdsOk, EachOnce
<1>5. CardSetFileNamesOk
  <2> DEFINE data == loaded["tallyData"]
             paths == {item \in data : item.label.place = "verificationCardSets" /\ item.label.index = NoIndex}
  <2>1. EachOnce(data, {NoNode}, CardSets)
    BY HonestSetupLoaded
  <2>2. CASE \A x \in data : LabelOfFile(x, "verificationCardSets")
    <3>1. paths = data /\ \A x \in data : x.label.of = x.payload.id
      BY <2>2 DEF LabelOfFile
    <3>2. {x.label.of : x \in data} = CardSets
      BY <2>1, <3>1 DEF EachOnce
    <3> QED BY <3>1, <3>2 DEF CardSetFileNamesOk
  <2>3. CASE \A x \in data : x.label.tree = "root" /\ x.label.place = "top"
    <3>1. paths = {}
      BY <2>3
    <3> QED BY <3>1 DEF CardSetFileNamesOk
  <2> QED BY <2>2, <2>3, HonestSetupLoaded
<1>6. ~CardSetIdMissing
  <2>1. EachOnce(loaded["tallyData"], {NoNode}, CardSets)
    BY HonestSetupLoaded
  <2> QED BY <2>1, IdsAssumption DEF CardSetIdMissing, EachOnce
<1> QED BY <1>1, <1>2, <1>3, <1>4, <1>5, <1>6

(* A payload's id is part of the path of the file named after it.          *)
LEMMA FiledIdOccurs ==
    ASSUME FoundInv, Loaded, NEW x \in TallyItems, x.payload.id \in BallotBoxes,
           LabelOfFile(x, "ballotBoxes")
    PROVE  Occurs(x.payload.id, x.label)
<1>1. PICK family \in OnlineFamilies \cup FinalFamilies : x \in loaded[family]
  BY DEF TallyItems
<1>2. family \in Families
  BY DEF Families, TallyFamilies, OnlineFamilies, FinalFamilies
<1>3. PICK f \in Read(family) : x \in Labelled(f) /\ f \in store
  BY <1>1, <1>2, AllLoaded, ReadsOwnTree DEF Of
<1>4. PICK index : x.label = Label(f, index)
  BY <1>3 DEF Labelled
<1>5. x.label = Label(f, NoIndex) /\ f.of = x.payload.id
  BY <1>4 DEF LabelOfFile, Label
<1>6. f.of # NoId /\ store \in Stores
  BY <1>5, IdsAssumption DEF FoundInv
<1> QED BY <1>3, <1>5, <1>6, OccursAssumption

LEMMA TallyVerdicts ==
    ASSUME FoundInv, Loaded, HonestTally(store)
    PROVE  /\ TallyComplete /\ Malformed = {} /\ FourNodes("ballotBox") /\ FourNodes("shuffle")
           /\ loaded["ballotBox"] # {} /\ loaded["shuffle"] # {}
           /\ NodeFileNamesOk /\ BallotBoxIdsOk /\ BoxFileNamesOk
<1>1. ASSUME NEW family \in OnlineFamilies
      PROVE  FourNodes(family) /\ loaded[family] # {}
  <2>1. EachOnce(loaded[family], 1..4, BallotBoxes) /\ BallotBoxes # {}
    BY HonestTallyLoaded
  <2>2. \A box \in {item.payload.id : item \in loaded[family]} : box \in BallotBoxes
    BY <2>1 DEF EachOnce
  <2>3. FourNodes(family)
    BY <2>1, <2>2, FourOfEachOnce DEF FourNodes
  <2> QED BY <2>1, <2>3 DEF EachOnce
<1>2. ASSUME NEW x \in Online
      PROVE  /\ x.payload.node \in 1..4 /\ x.payload.id \in BallotBoxes
             /\ LabelOfFile(x, "ballotBoxes") \/ (x.label.tree = "root" /\ x.label.place = "top")
  <2>1. PICK family \in OnlineFamilies : x \in loaded[family]
    BY DEF Online, OnlineFamilies
  <2> QED BY <2>1, HonestTallyLoaded DEF EachOnce
<1>3. Malformed = {}
  BY <1>2, IdsAssumption DEF Malformed, NoNode
<1>4. ASSUME NEW x \in TallyItems
      PROVE  /\ x.payload.id \in BallotBoxes
             /\ LabelOfFile(x, "ballotBoxes") \/ (x.label.tree = "root" /\ x.label.place = "top")
  <2>1. PICK family \in OnlineFamilies \cup FinalFamilies : x \in loaded[family]
    BY DEF TallyItems
  <2>2. CASE family \in OnlineFamilies
    BY <1>2, <2>1, <2>2 DEF Online, OnlineFamilies
  <2>3. CASE family \in FinalFamilies
    BY <2>1, <2>3, HonestTallyLoaded
  <2> QED BY <2>2, <2>3
<1>5. NodeFileNamesOk
  BY <1>2 DEF NodeFileNamesOk, HasSlash, LabelOfFile, NoNode
<1>6. BallotBoxIdsOk
  BY <1>4 DEF BallotBoxIdsOk
<1>7. ASSUME NEW x \in TallyItems, HasSlash(x.label)
      PROVE  Occurs(x.payload.id, x.label)
  BY <1>4, <1>7, FiledIdOccurs DEF HasSlash
<1>8. BoxFileNamesOk
  BY <1>4, <1>7 DEF BoxFileNamesOk, BoxFileNamesOkOf
<1> QED BY <1>1, <1>3, <1>5, <1>6, <1>8 DEF TallyComplete, OnlineFamilies

(* The XML files that are named exactly, or anonymized, come first.        *)
LEMMA PreferredXml ==
    ASSUME FoundInv, Loaded, NEW tree, NEW family \in Families, NEW place,
           Read(family) = XmlFiles(tree, family, place),
           NEW f \in Own(store, tree, family), f.number = One, f.place \in {"top", place}
    PROVE  \A item \in loaded[family] : item.label.number = One
<1>1. FilesOf(tree, family, place, {One}) # {} \/ FilesOf(tree, family, "top", {One}) # {}
  BY DEF FilesOf, Own
<1>2. \A g \in Read(family) : g.number = One
  BY <1>1 DEF XmlFiles, FirstOf, FilesOf
<1>3. loaded[family] = Of(Read(family))
  BY AllLoaded
<1> QED BY <1>2, <1>3 DEF Of, Labelled, Label

HonestRun == HonestDataset => pc # "crashed" /\ ReportOk

LEMMA HonestIsRead ==
    ASSUME FoundInv, HonestRun
    PROVE  HonestDatasetAccepted
<1> SUFFICES ASSUME HonestDataset, Loaded
             PROVE  /\ \A family \in SetupFamilies \ {"configXml"} :
                         loaded[family] = Of(Own(store, SetupTree(store), family))
                    /\ \A f \in Own(store, SetupTree(store), "configXml") :
                         f.number = One /\ f.place \in {"top", "context"} =>
                           \A item \in loaded["configXml"] : item.label.number = One
                    /\ phase = "tally" =>
                         /\ \A family \in TallyFamilies \ {"ech"} :
                              loaded[family] = Of(Own(store, TallyTree(store), family))
                         /\ \A f \in Own(store, TallyTree(store), "ech") :
                              f.number = One /\ f.place \in {"top", "tally"} =>
                                \A item \in loaded["ech"] : item.label.number = One
  BY DEF HonestRun, HonestDatasetAccepted, Of
<1>1. HonestSetup(store) /\ SetupRoot = SetupTree(store)
  BY SetupTreeFound DEF HonestDataset
<1>2. phase = "tally" => HonestTally(store) /\ TallyRoot = TallyTree(store)
  BY TallyTreeFound DEF HonestDataset
<1>3. /\ Read("configXml") = XmlFiles(SetupRoot, "configXml", "context")
      /\ Read("ech") = XmlFiles(TallyRoot, "ech", "tally")
      /\ {"configXml", "ech"} \subseteq Families
  BY DEF Read, Families, SetupFamilies, TallyFamilies
<1>4. \A family \in SetupFamilies \ {"configXml"} :
        loaded[family] = Of(Own(store, SetupTree(store), family))
  BY <1>1, HonestSetupLoaded
<1>5. \A f \in Own(store, SetupTree(store), "configXml") :
        f.number = One /\ f.place \in {"top", "context"} =>
          \A item \in loaded["configXml"] : item.label.number = One
  BY <1>1, <1>3, PreferredXml
<1>6. ASSUME phase = "tally"
      PROVE  /\ \A family \in TallyFamilies \ {"ech"} :
                  loaded[family] = Of(Own(store, TallyTree(store), family))
             /\ \A f \in Own(store, TallyTree(store), "ech") :
                  f.number = One /\ f.place \in {"top", "tally"} =>
                    \A item \in loaded["ech"] : item.label.number = One
  <2>1. HonestTally(store) /\ TallyRoot = TallyTree(store)
    BY <1>2, <1>6
  <2>2. \A f \in Own(store, TallyTree(store), "ech") :
          f.number = One /\ f.place \in {"top", "tally"} =>
            \A item \in loaded["ech"] : item.label.number = One
    BY <2>1, <1>3, PreferredXml
  <2> QED BY <2>1, <2>2, HonestTallyLoaded
<1> QED BY <1>4, <1>5, <1>6

LEMMA PassingEntry ==
    ASSUME LoadInv, NEW id \in Checks, NEW next \in Checks \cup {"done"}, Check(id, TRUE, next), ReportOk
    PROVE  pc' # "crashed" /\ ReportOk'
<1>1. /\ report' = Append(report, Entry(id, TRUE)) /\ pc' = next
      /\ report \in Seq([id : Checks, ok : BOOLEAN])
  BY DEF Check, Record, LoadInv
<1>2. Len(report') = Len(report) + 1 /\ DOMAIN report' = 1..(Len(report) + 1)
      /\ report'[Len(report) + 1] = Entry(id, TRUE)
      /\ \A k \in 1..Len(report) : report'[k] = report[k]
  BY <1>1 DEF Entry
<1>3. \A k \in DOMAIN report' : report'[k].ok
  BY <1>1, <1>2 DEF ReportOk, Failing, Entry
<1> QED BY <1>1, <1>3, FamiliesNoChecks DEF ReportOk, Failing

LEMMA StepHonestRun ==
    ASSUME LoadInv, FoundInv, HonestRun, [Next]_vars
    PROVE  HonestRun'
<1>1. UNCHANGED <<store, phase>>
  BY DEF Next, Load, LoadRaises, CardSetIdsRaise, NodeIdsRaise, Crash, vars, Check,
         CheckSetupCompleteness, CheckNodeIds, CheckKeyFileNames, CheckCardSetIds,
         CheckCardSetFileNames, CheckTallyCompleteness, CheckTallyNodeIds, CheckNodeFileNames,
         CheckBallotBoxIds, CheckBoxFileNames
<1>2. HonestDataset' = HonestDataset
  BY <1>1 DEF HonestDataset
<1> SUFFICES ASSUME HonestDataset, pc # "crashed", ReportOk
             PROVE  pc' # "crashed" /\ ReportOk'
  BY <1>2 DEF HonestRun
<1>3. HonestSetup(store) /\ \A f \in store : f.form # "broken"
  BY DEF HonestDataset
<1>4. ASSUME NEW id \in Checks, NEW ok \in BOOLEAN, NEW next \in Checks \cup {"done"},
             Check(id, ok, next), Loaded => ok
      PROVE  pc' # "crashed" /\ ReportOk'
  <2>1. pc = id
    BY <1>4 DEF Check, Record
  <2>2. ok = TRUE
    BY <1>4, <2>1 DEF Loaded
  <2> QED BY <1>4, <2>2, PassingEntry
<1>5. ASSUME NEW id \in TallyChecks, pc = id
      PROVE  Loaded /\ HonestTally(store)
  BY <1>5 DEF FoundInv, InPhase, HonestDataset, Loaded, TallyChecks, Checks
<1>6. CASE \E k \in DOMAIN Order : Load(k)
  <2>1. PICK k \in 1..10 : Load(k)
    BY <1>6, OrderDomain
  <2>2. pc' \in Families \cup {"1.01", "6.01"} /\ report' = report
    <3>1. k < 10 => Order[k + 1] \in Families
      BY OrderType
    <3> QED BY <2>1, <3>1, OrderDomain DEF Load
  <2> QED BY <2>2, FamiliesNoChecks DEF ReportOk, Failing
<1>7. ASSUME NEW k \in DOMAIN Order, LoadRaises(k)
      PROVE  FALSE
  <2>1. PICK f \in Read(Order[k]) : f.form = "broken"
    BY <1>7 DEF LoadRaises
  <2> QED BY <1>3, <2>1, OrderType, OrderDomain, ReadsOwnTree
<1>8. CASE NodeIdsRaise
  <2>1. pc = "8.02" /\ Malformed # {}
    BY <1>8 DEF NodeIdsRaise, Crash
  <2> QED BY <1>5, <2>1, TallyVerdicts DEF TallyChecks
<1>9. CASE CheckSetupCompleteness
  <2>1. Check("1.01", Missing = {}, pc') /\ pc' \in {"3.02", "done"}
    BY <1>9 DEF CheckSetupCompleteness, Check, Record
  <2> QED BY <1>3, <1>4, <2>1, SetupVerdicts DEF Checks
<1>10. CASE CheckNodeIds
  BY <1>3, <1>4, <1>10, VerdictsAreBooleans, SetupVerdicts DEF CheckNodeIds, Checks
<1>11. CASE CheckKeyFileNames
  BY <1>3, <1>4, <1>11, VerdictsAreBooleans, SetupVerdicts DEF CheckKeyFileNames, Checks
<1>12. CASE CheckCardSetIds
  BY <1>3, <1>4, <1>12, VerdictsAreBooleans, SetupVerdicts DEF CheckCardSetIds, Checks
<1>13. CASE CheckCardSetFileNames
  BY <1>3, <1>4, <1>13, VerdictsAreBooleans, SetupVerdicts DEF CheckCardSetFileNames, Checks
<1>14. ASSUME NEW id \in TallyChecks, NEW ok \in BOOLEAN, NEW next \in Checks \cup {"done"},
              Check(id, ok, next), HonestTally(store) /\ Loaded => ok
       PROVE  pc' # "crashed" /\ ReportOk'
  <2>1. pc = id /\ id \in Checks
    BY <1>14, FamiliesNoChecks DEF Check, Record
  <2> QED BY <1>4, <1>5, <1>14, <2>1
<1>15. CASE CheckTallyCompleteness
  <2>1. Check("6.01", TallyComplete, pc') /\ pc' \in {"8.02", "done"}
    BY <1>15 DEF CheckTallyCompleteness, Check, Record
  <2> QED BY <1>14, <2>1, VerdictsAreBooleans, TallyVerdicts DEF TallyChecks, Checks
<1>16. CASE CheckTallyNodeIds
  <2> DEFINE ok == FourNodes("ballotBox") /\ FourNodes("shuffle")
  <2>1. Check("8.02", ok, "8.03")
    BY <1>16 DEF CheckTallyNodeIds
  <2>2. ok \in BOOLEAN /\ (HonestTally(store) /\ Loaded => ok)
    BY VerdictsAreBooleans, TallyVerdicts
  <2> HIDE DEF ok
  <2> QED BY <1>14, <2>1, <2>2 DEF TallyChecks, Checks
<1>17. CASE CheckNodeFileNames
  BY <1>14, <1>17, VerdictsAreBooleans, TallyVerdicts DEF CheckNodeFileNames, TallyChecks, Checks
<1>18. CASE CheckBallotBoxIds
  BY <1>14, <1>18, VerdictsAreBooleans, TallyVerdicts DEF CheckBallotBoxIds, TallyChecks, Checks
<1>19. CASE CheckBoxFileNames
  BY <1>14, <1>19, VerdictsAreBooleans, TallyVerdicts DEF CheckBoxFileNames, TallyChecks, Checks
<1>20. CASE UNCHANGED vars
  BY <1>20 DEF vars, ReportOk, Failing
<1>21. CASE CardSetIdsRaise
  <2>1. pc \in Checks /\ CardSetIdMissing
    BY <1>21 DEF CardSetIdsRaise, Crash, Checks
  <2> QED BY <1>3, <2>1, SetupVerdicts DEF Loaded
<1> QED
  BY <1>6, <1>7, <1>8, <1>9, <1>10, <1>11, <1>12, <1>13, <1>15, <1>16, <1>17, <1>18, <1>19,
     <1>20, <1>21 DEF Next

(* Completeness: an honest dataset in any of the layouts is read in full   *)
(* and passes every check of its files, for any ballot boxes and card sets *)
(* and whatever lies in the other trees (HonestDatasetAccepted).           *)
THEOREM HonestLayoutsAccepted == Spec => []HonestDatasetAccepted
<1>1. Init => HonestRun
  BY DEF Init, ReportInit, HonestRun, ReportOk, Failing
<1>2. LoadInv /\ FoundInv /\ HonestRun /\ [Next]_vars => HonestRun'
  BY StepHonestRun
<1>3. FoundInv /\ HonestRun => HonestDatasetAccepted
  BY HonestIsRead
<1> QED BY <1>1, <1>2, <1>3, Inductive, LoadedIsRead, PTL DEF Spec
=============================================================================
