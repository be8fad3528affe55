------------------------- MODULE VerifyConfig_proof -------------------------
(***************************************************************************)
(* The theorems of VerifyConfig, for every set of datasets of the declared *)
(* shape and every derived group modulo a prime: what an accepted          *)
(* configuration says of its voting cards, of the keys its election key is *)
(* made of and of its voting options, and that honest setups are accepted. *)
(***************************************************************************)
EXTENDS VerifyConfig, Numbers_proof, SequenceTheorems

-----------------------------------------------------------------------------
(* The report.                                                             *)

(* The handlers in the order of the program, and the entries of each.      *)
Handlers ==
    <<"1.01", "1.02", "1.03", "2.01", "3.01", "3.02", "3.03", "3.04", "3.05", "3.06", "3.07",
      "3.13", "3.14", "3.08", "3.10", "C.01", "3.11", "5.01", "5.02", "5.03", "5.04", "done">>

Recorded(handler) ==
    IF handler = "3.08" THEN {"3.08", "3.09"}
    ELSE IF handler = "3.11" THEN {"3.11", "3.12"}
    ELSE {handler}

ConfigIds == {Handlers[n] : n \in 1..21} \cup {"3.09", "3.12", "2.02", "2.03", "2.04", "2.05"}
ConfigEntries == Seq([id : ConfigIds, ok : BOOLEAN])

LEMMA HandlersDiffer ==
    ASSUME NEW n \in 1..22, NEW m \in 1..22, Handlers[n] = Handlers[m]
    PROVE  n = m
BY DEF Handlers

LEMMA NoHandlerCrashed ==
    ASSUME NEW n \in 1..22
    PROVE  Handlers[n] # "crashed"
BY DEF Handlers

Refused(id) == \E k \in DOMAIN report : report[k].id = id /\ ~report[k].ok

(* More entries: what has run, what has passed or failed, whether all is   *)
(* well.                                                                   *)
LEMMA EntriesStep ==
    ASSUME report \in ConfigEntries, NEW entries \in ConfigEntries, report' = report \o entries
    PROVE  /\ report' \in ConfigEntries
           /\ \A x : Ran(x)' <=> Ran(x) \/ \E k \in DOMAIN entries : entries[k].id = x
           /\ \A x : Passed(x)' <=>
                Passed(x) \/ \E k \in DOMAIN entries : entries[k].id = x /\ entries[k].ok
           /\ \A x : Refused(x)' <=>
                Refused(x) \/ \E k \in DOMAIN entries : entries[k].id = x /\ ~entries[k].ok
           /\ ReportOk' <=> ReportOk /\ \A k \in DOMAIN entries : entries[k].ok
<1> DEFINE n == Len(report)
           m == Len(entries)
<1>1. /\ n \in Nat /\ DOMAIN report = 1..n
      /\ m \in Nat /\ DOMAIN entries = 1..m
      /\ DOMAIN report' = 1..(n + m)
      /\ \A k \in 1..n : report'[k] = report[k]
      /\ \A k \in 1..m : report'[n + k] = entries[k]
  BY DEF ConfigEntries
<1>2. report' \in ConfigEntries
  BY DEF ConfigEntries
<1> HIDE DEF n, m
<1>3. ASSUME NEW k \in DOMAIN report'
      PROVE  \/ k \in DOMAIN report /\ report'[k] = report[k]
             \/ k - n \in DOMAIN entries /\ report'[k] = entries[k - n]
  <2>1. CASE k \in 1..n
    BY <1>1, <2>1
  <2>2. CASE k \notin 1..n
    <3>1. k - n \in 1..m /\ k = n + (k - n)
      BY <1>1, <2>2
    <3> QED BY <1>1, <3>1
  <2> QED BY <2>1, <2>2
<1>4. /\ \A k \in DOMAIN report : k \in DOMAIN report' /\ report'[k] = report[k]
      /\ \A k \in DOMAIN entries : n + k \in DOMAIN report' /\ report'[n + k] = entries[k]
  BY <1>1
<1>5. \A x : Ran(x)' <=> Ran(x) \/ \E k \in DOMAIN entries : entries[k].id = x
  <2> SUFFICES ASSUME NEW x
               PROVE  Ran(x)' <=> Ran(x) \/ \E k \in DOMAIN entries : entries[k].id = x
    OBVIOUS
  <2>1. ASSUME Ran(x)'
        PROVE  Ran(x) \/ \E k \in DOMAIN entries : entries[k].id = x
    <3>1. PICK k \in DOMAIN report' : report'[k].id = x
      BY <2>1 DEF Ran
    <3> QED BY <1>3, <3>1 DEF Ran
  <2>2. ASSUME Ran(x)
        PROVE  Ran(x)'
    BY <1>4, <2>2 DEF Ran
  <2>3. ASSUME NEW k \in DOMAIN entries, entries[k].id = x
        PROVE  Ran(x)'
    BY <1>4, <2>3 DEF Ran
  <2> QED BY <2>1, <2>2, <2>3
<1>6. \A x : Passed(x)' <=>
        Passed(x) \/ \E k \in DOMAIN entries : entries[k].id = x /\ entries[k].ok
  <2> SUFFICES ASSUME NEW x
               PROVE  Passed(x)' <=>
                        Passed(x) \/ \E k \in DOMAIN entries : entries[k].id = x /\ entries[k].ok
    OBVIOUS
  <2>1. ASSUME Passed(x)'
        PROVE  Passed(x) \/ \E k \in DOMAIN entries : entries[k].id = x /\ entries[k].ok
    <3>1. PICK k \in DOMAIN report' : report'[k].id = x /\ report'[k].ok
      BY <2>1 DEF Passed
    <3> QED BY <1>3, <3>1 DEF Passed
  <2>2. ASSUME Passed(x)
        PROVE  Passed(x)'
    BY <1>4, <2>2 DEF Passed
  <2>3. ASSUME NEW k \in DOMAIN entries, entries[k].id = x, entries[k].ok
        PROVE  Passed(x)'
    BY <1>4, <2>3 DEF Passed
  <2> QED BY <2>1, <2>2, <2>3
<1>8. \A x : Refused(x)' <=>
        Refused(x) \/ \E k \in DOMAIN entries : entries[k].id = x /\ ~entries[k].ok
  <2> SUFFICES ASSUME NEW x
               PROVE  Refused(x)' <=>
                        Refused(x) \/ \E k \in DOMAIN entries : entries[k].id = x /\ ~entries[k].ok
    OBVIOUS
  <2>1. ASSUME Refused(x)'
        PROVE  Refused(x) \/ \E k \in DOMAIN entries : entries[k].id = x /\ ~entries[k].ok
    <3>1. PICK k \in DOMAIN report' : report'[k].id = x /\ ~report'[k].ok
      BY <2>1 DEF Refused
    <3> QED BY <1>3, <3>1 DEF Refused
  <2>2. ASSUME Refused(x)
        PROVE  Refused(x)'
    BY <1>4, <2>2 DEF Refused
  <2>3. ASSUME NEW k \in DOMAIN entries, entries[k].id = x, ~entries[k].ok
        PROVE  Refused(x)'
    BY <1>4, <2>3 DEF Refused
  <2> QED BY <2>1, <2>2, <2>3
<1>7. ReportOk' <=> ReportOk /\ \A k \in DOMAIN entries : entries[k].ok
  <2>1. ReportOk <=> \A k \in DOMAIN report : report[k].ok
    BY DEF ReportOk, Failing
  <2>2. ReportOk' <=> \A k \in DOMAIN report' : report'[k].ok
    BY DEF ReportOk, Failing
  <2> QED BY <1>3, <1>4, <2>1, <2>2
<1> QED BY <1>2, <1>5, <1>6, <1>7, <1>8

(* An ok report has passed every check it has an entry of.                 *)
LEMMA OkHasPassed ==
    ASSUME ReportOk, NEW x, Ran(x)
    PROVE  Passed(x)
BY DEF ReportOk, Failing, Ran, Passed

-----------------------------------------------------------------------------
(* The invariant: the report says of every check what it found, and a      *)
(* report without a failure has an entry of every check the run has gone   *)
(* past.  The early return of 1.01 leaves a failure, the exception of 3.11 *)
(* leaves no report.                                                       *)

Found(id) ==
    /\ id = "1.01" => ~c.missing
    /\ id \in FormIds => id \notin c.badForm
    /\ id = "3.01" => AllEqual(c.groups)
    /\ id = "3.02" => NodeIdsOk
    /\ id = "3.04" => AllEqual(c.events)
    /\ id = "3.05" => CardSetIdsOk
    /\ id = "3.06" => CardSetPathsOk
    /\ id = "3.07" => CardIdsOk
    /\ id = "3.08" => CcrKeysOk
    /\ id = "3.09" => CcmKeysOk
    /\ id = "3.10" => KeyProofsOk
    /\ id = "3.11" => ~CannotCombine /\ ChoiceKeyOk
    /\ id = "3.12" => ~CannotCombine /\ ElectionKeyOk
    /\ id = "3.13" => TablesOk
    /\ id = "3.14" => TotalVotersOk
    /\ id = "C.01" => MembersOk
    /\ id = "5.01" => ParametersOk
    /\ id = "5.02" => SmallPrimesOk
    /\ id = "5.03" => VotingOptionsOk
    /\ id = "5.04" => SchnorrProofsOk

ReportTruthful ==
    \A id \in ConfigIds : (Passed(id) => Found(id)) /\ (Refused(id) => ~Found(id))

NoneSkipped ==
    ReportOk =>
      \A n \in 1..22 : pc = Handlers[n] =>
        \A m \in 1..(n - 1) : \A id \in Recorded(Handlers[m]) : Ran(id)

ConfigInv ==
    /\ c \in Configs
    /\ report \in ConfigEntries
    /\ ReportTruthful
    /\ NoneSkipped
    /\ pc = "crashed" => CannotCombine

(* The checks judge the dataset, which does not change.                    *)
LEMMA SameFindings ==
    ASSUME UNCHANGED c, NEW id
    PROVE  /\ Found(id)' <=> Found(id)
           /\ CannotCombine' <=> CannotCombine
<1>1. /\ NodeIdsOk' <=> NodeIdsOk
      /\ AllEqual(c.groups)' <=> AllEqual(c.groups)
      /\ AllEqual(c.events)' <=> AllEqual(c.events)
      /\ c.missing' = c.missing /\ c.badForm' = c.badForm
  BY DEF NodeIdsOk, AllEqual
<1>2. /\ CardSetIdsOk' <=> CardSetIdsOk
      /\ CardSetPathsOk' <=> CardSetPathsOk
      /\ CardIdsOk' <=> CardIdsOk
      /\ TotalVotersOk' <=> TotalVotersOk
  BY DEF CardSetIdsOk, CardSetPathsOk, CardIdsOk, TotalVotersOk, VcsIds, PathShaped, ByVcs, Voters
<1>3. /\ CcrKeysOk' <=> CcrKeysOk
      /\ CcmKeysOk' <=> CcmKeysOk
      /\ KeyProofsOk' <=> KeyProofsOk
  BY DEF CcrKeysOk, CcmKeysOk, KeyProofsOk, SameField, SameNodes
<1>4. /\ ElectionKeyOk' <=> ElectionKeyOk
      /\ ChoiceKeyOk' <=> ChoiceKeyOk
      /\ CannotCombine' <=> CannotCombine
  BY DEF ElectionKeyOk, ChoiceKeyOk, CannotCombine, Ccm, Ccr, SetupGroup
<1>5. MembersOk' <=> MembersOk
  BY DEF MembersOk, SetupKeys, SetupGroup, Ccr, Ccm
<1>6. ParametersOk' <=> ParametersOk
  BY DEF ParametersOk, ContextGroup
<1>7. /\ TablesOk' <=> TablesOk
      /\ SmallPrimesOk' <=> SmallPrimesOk
  BY DEF TablesOk, Entries, SmallPrimesOk, ContextGroup
<1>8. VotingOptionsOk' <=> VotingOptionsOk
  BY DEF VotingOptionsOk, OptionsArePrefix, EncodedOptions, Entries, LargestPrimes, ContextGroup
<1>9. SchnorrProofsOk' <=> SchnorrProofsOk
  BY DEF SchnorrProofsOk, SetupGroup
<1> QED BY <1>1, <1>2, <1>3, <1>4, <1>5, <1>6, <1>7, <1>8, <1>9 DEF Found

(* A handler that adds its entries and goes on to the next one.            *)
LEMMA HandlerKeepsInv ==
    ASSUME ConfigInv, UNCHANGED c, NEW n \in 1..21, NEW entries \in ConfigEntries,
           RecordAll(Handlers[n], entries, Handlers[n + 1]),
           \A k \in DOMAIN entries : entries[k].ok <=> Found(entries[k].id),
           \A id \in Recorded(Handlers[n]) : \E k \in DOMAIN entries : entries[k].id = id
    PROVE  ConfigInv'
<1>1. pc = Handlers[n] /\ pc' = Handlers[n + 1] /\ report' = report \o entries
  BY DEF RecordAll
<1>2. /\ report' \in ConfigEntries
      /\ \A x : Ran(x)' <=> Ran(x) \/ \E k \in DOMAIN entries : entries[k].id = x
      /\ \A x : Passed(x)' <=>
           Passed(x) \/ \E k \in DOMAIN entries : entries[k].id = x /\ entries[k].ok
      /\ \A x : Refused(x)' <=>
           Refused(x) \/ \E k \in DOMAIN entries : entries[k].id = x /\ ~entries[k].ok
      /\ ReportOk' <=> ReportOk /\ \A k \in DOMAIN entries : entries[k].ok
  BY <1>1, EntriesStep DEF ConfigInv
<1>3. ReportTruthful'
  BY <1>2, SameFindings DEF ReportTruthful, ConfigInv
<1>4. NoneSkipped'
  <2>1. SUFFICES ASSUME ReportOk', NEW o \in 1..22, pc' = Handlers[o], NEW m \in 1..(o - 1),
                        NEW id \in Recorded(Handlers[m])
                 PROVE  Ran(id)'
    BY DEF NoneSkipped
  <2>2. o = n + 1
    <3>1. n + 1 \in 1..22 /\ Handlers[n + 1] = Handlers[o]
      BY <1>1, <2>1
    <3> QED BY <3>1, HandlersDiffer
  <2>3. CASE m = n
    BY <1>2, <2>3
  <2>4. CASE m # n
    <3>1. m \in 1..(n - 1)
      BY <2>2, <2>4
    <3>2. ReportOk /\ n \in 1..22
      BY <1>2, <2>1
    <3>3. \A l \in 1..(n - 1) : \A x \in Recorded(Handlers[l]) : Ran(x)
      BY <1>1, <3>2 DEF NoneSkipped, ConfigInv
    <3>4. Ran(id)
      BY <3>1, <3>3
    <3> QED BY <1>2, <3>4
  <2> QED BY <2>3, <2>4
<1>5. pc' # "crashed"
  <2>1. n + 1 \in 1..22
    OBVIOUS
  <2> QED BY <1>1, <2>1, NoHandlerCrashed
<1> QED BY <1>2, <1>3, <1>4, <1>5 DEF ConfigInv

(* A handler with a single entry.                                          *)
LEMMA CheckKeepsInv ==
    ASSUME ConfigInv, UNCHANGED c, NEW n \in 1..21, NEW ok \in BOOLEAN,
           Recorded(Handlers[n]) = {Handlers[n]},
           Record(Handlers[n], ok, Handlers[n + 1]),
           ok <=> Found(Handlers[n])
    PROVE  ConfigInv'
<1> DEFINE id == Handlers[n]
           entries == <<Entry(id, ok)>>
<1>1. id \in ConfigIds
  BY DEF ConfigIds
<1>2. Entry(id, ok) \in [id : ConfigIds, ok : BOOLEAN]
  BY <1>1 DEF Entry
<1>3. entries \in ConfigEntries /\ DOMAIN entries = {1}
  BY <1>2 DEF ConfigEntries
<1>4. entries[1].id = id /\ entries[1].ok = ok
  BY DEF Entry
<1>5. report' = report \o entries
  <2>1. report' = Append(report, Entry(id, ok)) /\ report \in ConfigEntries
    BY DEF Record, ConfigInv
  <2> DEFINE e == Entry(id, ok)
  <2>2. e \in [id : ConfigIds, ok : BOOLEAN]
    BY <1>2
  <2> HIDE DEF e
  <2>3. Append(report, e) = report \o <<e>>
    BY <2>1, <2>2 DEF ConfigEntries
  <2> QED BY <2>1, <2>3 DEF e
<1>6. RecordAll(id, entries, Handlers[n + 1])
  BY <1>5 DEF Record, RecordAll
<1> HIDE DEF entries
<1>7. /\ \A k \in DOMAIN entries : entries[k].ok <=> Found(entries[k].id)
      /\ \A x \in Recorded(Handlers[n]) : \E k \in DOMAIN entries : entries[k].id = x
  BY <1>3, <1>4
<1> QED BY <1>3, <1>6, <1>7, HandlerKeepsInv

-----------------------------------------------------------------------------
(* Every step keeps the invariant.                                         *)

LEMMA FormKeepsInv ==
    ASSUME ConfigInv,
           CheckForm("1.02", "1.03") \/ CheckForm("1.03", "2.01") \/ CheckForm("3.03", "3.04")
    PROVE  ConfigInv'
<1>1. CASE CheckForm("1.02", "1.03")
  <2>1. PICK ok \in BOOLEAN : ok = ("1.02" \notin c.badForm)
    BY Zenon
  <2>2. Record(Handlers[2], ok, Handlers[3]) /\ UNCHANGED c
    BY <1>1, <2>1 DEF CheckForm, Handlers
  <2>3. ok <=> Found(Handlers[2])
    BY <2>1 DEF Found, Handlers, FormIds
  <2>4. Recorded(Handlers[2]) = {Handlers[2]}
    BY DEF Recorded, Handlers
  <2> QED BY <2>2, <2>3, <2>4, CheckKeepsInv
<1>2. CASE CheckForm("1.03", "2.01")
  <2>1. PICK ok \in BOOLEAN : ok = ("1.03" \notin c.badForm)
    BY Zenon
  <2>2. Record(Handlers[3], ok, Handlers[4]) /\ UNCHANGED c
    BY <1>2, <2>1 DEF CheckForm, Handlers
  <2>3. ok <=> Found(Handlers[3])
    BY <2>1 DEF Found, Handlers, FormIds
  <2>4. Recorded(Handlers[3]) = {Handlers[3]}
    BY DEF Recorded, Handlers
  <2> QED BY <2>2, <2>3, <2>4, CheckKeepsInv
<1>3. CASE CheckForm("3.03", "3.04")
  <2>1. PICK ok \in BOOLEAN : ok = ("3.03" \notin c.badForm)
    BY Zenon
  <2>2. Record(Handlers[7], ok, Handlers[8]) /\ UNCHANGED c
    BY <1>3, <2>1 DEF CheckForm, Handlers
  <2>3. ok <=> Found(Handlers[7])
    BY <2>1 DEF Found, Handlers, FormIds
  <2>4. Recorded(Handlers[7]) = {Handlers[7]}
    BY DEF Recorded, Handlers
  <2> QED BY <2>2, <2>3, <2>4, CheckKeepsInv
<1> QED BY <1>1, <1>2, <1>3

LEMMA ConsistencyKeepsInv ==
    ASSUME ConfigInv,
           CheckGroups \/ CheckNodeIds \/ CheckEvents \/ CheckCardSetIds
    PROVE  ConfigInv'
<1>1. CASE CheckGroups
  <2>1. PICK ok \in BOOLEAN : ok = (AllEqual(c.groups))
    BY Zenon DEF AllEqual
  <2>2. Record(Handlers[5], ok, Handlers[6]) /\ UNCHANGED c
    BY <1>1, <2>1 DEF CheckGroups, Handlers
  <2>3. ok <=> Found(Handlers[5])
    BY <2>1 DEF Found, Handlers, FormIds
  <2>4. Recorded(Handlers[5]) = {Handlers[5]}
    BY DEF Recorded, Handlers
  <2> QED BY <2>2, <2>3, <2>4, CheckKeepsInv
<1>2. CASE CheckNodeIds
  <2>1. PICK ok \in BOOLEAN : ok = (NodeIdsOk)
    BY Zenon DEF NodeIdsOk
  <2>2. Record(Handlers[6], ok, Handlers[7]) /\ UNCHANGED c
    BY <1>2, <2>1 DEF CheckNodeIds, Handlers
  <2>3. ok <=> Found(Handlers[6])
    BY <2>1 DEF Found, Handlers, FormIds
  <2>4. Recorded(Handlers[6]) = {Handlers[6]}
    BY DEF Recorded, Handlers
  <2> QED BY <2>2, <2>3, <2>4, CheckKeepsInv
<1>3. CASE CheckEvents
  <2>1. PICK ok \in BOOLEAN : ok = (AllEqual(c.events))
    BY Zenon DEF AllEqual
  <2>2. Record(Handlers[8], ok, Handlers[9]) /\ UNCHANGED c
    BY <1>3, <2>1 DEF CheckEvents, Handlers
  <2>3. ok <=> Found(Handlers[8])
    BY <2>1 DEF Found, Handlers, FormIds
  <2>4. Recorded(Handlers[8]) = {Handlers[8]}
    BY DEF Recorded, Handlers
  <2> QED BY <2>2, <2>3, <2>4, CheckKeepsInv
<1>4. CASE CheckCardSetIds
  <2>1. PICK ok \in BOOLEAN : ok = (CardSetIdsOk)
    BY Zenon DEF CardSetIdsOk
  <2>2. Record(Handlers[9], ok, Handlers[10]) /\ UNCHANGED c
    BY <1>4, <2>1 DEF CheckCardSetIds, Handlers
  <2>3. ok <=> Found(Handlers[9])
    BY <2>1 DEF Found, Handlers, FormIds
  <2>4. Recorded(Handlers[9]) = {Handlers[9]}
    BY DEF Recorded, Handlers
  <2> QED BY <2>2, <2>3, <2>4, CheckKeepsInv
<1> QED BY <1>1, <1>2, <1>3, <1>4

LEMMA CardsKeepInv ==
    ASSUME ConfigInv,
           CheckCardSetPaths \/ CheckCardIds \/ CheckTables \/ CheckTotalVoters
    PROVE  ConfigInv'
<1>1. CASE CheckCardSetPaths
  <2>1. PICK ok \in BOOLEAN : ok = (CardSetPathsOk)
    BY Zenon DEF CardSetPathsOk
  <2>2. Record(Handlers[10], ok, Handlers[11]) /\ UNCHANGED c
    BY <1>1, <2>1 DEF CheckCardSetPaths, Handlers
  <2>3. ok <=> Found(Handlers[10])
    BY <2>1 DEF Found, Handlers, FormIds
  <2>4. Recorded(Handlers[10]) = {Handlers[10]}
    BY DEF Recorded, Handlers
  <2> QED BY <2>2, <2>3, <2>4, CheckKeepsInv
<1>2. CASE CheckCardIds
  <2>1. PICK ok \in BOOLEAN : ok = (CardIdsOk)
    BY Zenon DEF CardIdsOk
  <2>2. Record(Handlers[11], ok, Handlers[12]) /\ UNCHANGED c
    BY <1>2, <2>1 DEF CheckCardIds, Handlers
  <2>3. ok <=> Found(Handlers[11])
    BY <2>1 DEF Found, Handlers, FormIds
  <2>4. Recorded(Handlers[11]) = {Handlers[11]}
    BY DEF Recorded, Handlers
  <2> QED BY <2>2, <2>3, <2>4, CheckKeepsInv
<1>3. CASE CheckTables
  <2>1. PICK ok \in BOOLEAN : ok = (TablesOk)
    BY Zenon DEF TablesOk
  <2>2. Record(Handlers[12], ok, Handlers[13]) /\ UNCHANGED c
    BY <1>3, <2>1 DEF CheckTables, Handlers
  <2>3. ok <=> Found(Handlers[12])
    BY <2>1 DEF Found, Handlers, FormIds
  <2>4. Recorded(Handlers[12]) = {Handlers[12]}
    BY DEF Recorded, Handlers
  <2> QED BY <2>2, <2>3, <2>4, CheckKeepsInv
<1>4. CASE CheckTotalVoters
  <2>1. PICK ok \in BOOLEAN : ok = (TotalVotersOk)
    BY Zenon DEF TotalVotersOk
  <2>2. Record(Handlers[13], ok, Handlers[14]) /\ UNCHANGED c
    BY <1>4, <2>1 DEF CheckTotalVoters, Handlers
  <2>3. ok <=> Found(Handlers[13])
    BY <2>1 DEF Found, Handlers, FormIds
  <2>4. Recorded(Handlers[13]) = {Handlers[13]}
    BY DEF Recorded, Handlers
  <2> QED BY <2>2, <2>3, <2>4, CheckKeepsInv
<1> QED BY <1>1, <1>2, <1>3, <1>4

LEMMA KeysKeepInv ==
    ASSUME ConfigInv,
           CheckKeyProofs \/ CheckMembers \/ CheckParameters
    PROVE  ConfigInv'
<1>1. CASE CheckKeyProofs
  <2>1. PICK ok \in BOOLEAN : ok = (KeyProofsOk)
    BY Zenon DEF KeyProofsOk
  <2>2. Record(Handlers[15], ok, Handlers[16]) /\ UNCHANGED c
    BY <1>1, <2>1 DEF CheckKeyProofs, Handlers
  <2>3. ok <=> Found(Handlers[15])
    BY <2>1 DEF Found, Handlers, FormIds
  <2>4. Recorded(Handlers[15]) = {Handlers[15]}
    BY DEF Recorded, Handlers
  <2> QED BY <2>2, <2>3, <2>4, CheckKeepsInv
<1>2. CASE CheckMembers
  <2>1. PICK ok \in BOOLEAN : ok = (MembersOk)
    BY Zenon DEF MembersOk
  <2>2. Record(Handlers[16], ok, Handlers[17]) /\ UNCHANGED c
    BY <1>2, <2>1 DEF CheckMembers, Handlers
  <2>3. ok <=> Found(Handlers[16])
    BY <2>1 DEF Found, Handlers, FormIds
  <2>4. Recorded(Handlers[16]) = {Handlers[16]}
    BY DEF Recorded, Handlers
  <2> QED BY <2>2, <2>3, <2>4, CheckKeepsInv
<1>3. CASE CheckParameters
  <2>1. PICK ok \in BOOLEAN : ok = (ParametersOk)
    BY Zenon DEF ParametersOk
  <2>2. Record(Handlers[18], ok, Handlers[19]) /\ UNCHANGED c
    BY <1>3, <2>1 DEF CheckParameters, Handlers
  <2>3. ok <=> Found(Handlers[18])
    BY <2>1 DEF Found, Handlers, FormIds
  <2>4. Recorded(Handlers[18]) = {Handlers[18]}
    BY DEF Recorded, Handlers
  <2> QED BY <2>2, <2>3, <2>4, CheckKeepsInv
<1> QED BY <1>1, <1>2, <1>3

LEMMA OptionsKeepInv ==
    ASSUME ConfigInv,
           CheckSmallPrimes \/ CheckVotingOptions \/ CheckSchnorrProofs
    PROVE  ConfigInv'
<1>1. CASE CheckSmallPrimes
  <2>1. PICK ok \in BOOLEAN : ok = (SmallPrimesOk)
    BY Zenon DEF SmallPrimesOk
  <2>2. Record(Handlers[19], ok, Handlers[20]) /\ UNCHANGED c
    BY <1>1, <2>1 DEF CheckSmallPrimes, Handlers
  <2>3. ok <=> Found(Handlers[19])
    BY <2>1 DEF Found, Handlers, FormIds
  <2>4. Recorded(Handlers[19]) = {Handlers[19]}
    BY DEF Recorded, Handlers
  <2> QED BY <2>2, <2>3, <2>4, CheckKeepsInv
<1>2. CASE CheckVotingOptions
  <2>1. PICK ok \in BOOLEAN : ok = (VotingOptionsOk)
    BY Zenon DEF VotingOptionsOk
  <2>2. Record(Handlers[20], ok, Handlers[21]) /\ UNCHANGED c
    BY <1>2, <2>1 DEF CheckVotingOptions, Handlers
  <2>3. ok <=> Found(Handlers[20])
    BY <2>1 DEF Found, Handlers, FormIds
  <2>4. Recorded(Handlers[20]) = {Handlers[20]}
    BY DEF Recorded, Handlers
  <2> QED BY <2>2, <2>3, <2>4, CheckKeepsInv
<1>3. CASE CheckSchnorrProofs
  <2>1. PICK ok \in BOOLEAN : ok = (SchnorrProofsOk)
    BY Zenon DEF SchnorrProofsOk
  <2>2. Record(Handlers[21], ok, Handlers[22]) /\ UNCHANGED c
    BY <1>3, <2>1 DEF CheckSchnorrProofs, Handlers
  <2>3. ok <=> Found(Handlers[21])
    BY <2>1 DEF Found, Handlers, FormIds
  <2>4. Recorded(Handlers[21]) = {Handlers[21]}
    BY DEF Recorded, Handlers
  <2> QED BY <2>2, <2>3, <2>4, CheckKeepsInv
<1> QED BY <1>1, <1>2, <1>3

(* The handlers with several entries.                                      *)
LEMMA SignaturesKeepInv ==
    ASSUME ConfigInv, CheckSignatures
    PROVE  ConfigInv'
<1> DEFINE names == <<"2.01", "2.02", "2.03", "2.04", "2.05">>
           entries == [i \in 1..5 |-> Entry(names[i], TRUE)]
<1>1. \A i \in 1..5 : names[i] \in ConfigIds /\ (i = 1 => names[i] = Handlers[4])
  <2>1. Handlers[4] = "2.01"
    BY DEF Handlers
  <2>2. "2.01" \in ConfigIds
    BY <2>1 DEF ConfigIds
  <2> QED BY <2>1, <2>2 DEF ConfigIds
<1>2. \A i \in 1..5 : Found(names[i])
  BY DEF Found, FormIds
<1>3. RecordAll(Handlers[4], entries, Handlers[5]) /\ UNCHANGED c
  BY DEF CheckSignatures, Handlers
<1>4. Recorded(Handlers[4]) = {Handlers[4]}
  BY DEF Recorded, Handlers
<1> HIDE DEF names
<1>5. \A i \in 1..5 : /\ entries[i].id = names[i] /\ entries[i].ok
                      /\ entries[i] \in [id : ConfigIds, ok : BOOLEAN]
  BY <1>1 DEF Entry
<1>6. entries \in ConfigEntries /\ DOMAIN entries = 1..5
  <2> DEFINE E == [id : ConfigIds, ok : BOOLEAN]
  <2> HIDE DEF E
  <2>1. entries \in [1..5 -> E]
    BY <1>5 DEF E
  <2>2. \A f \in [1..5 -> E] : f \in Seq(E) /\ DOMAIN f = 1..5
    BY SeqDef
  <2> HIDE DEF entries
  <2> QED BY <2>1, <2>2 DEF ConfigEntries, E
<1> HIDE DEF entries
<1>7. /\ \A k \in DOMAIN entries : entries[k].ok <=> Found(entries[k].id)
      /\ \A x \in Recorded(Handlers[4]) : \E k \in DOMAIN entries : entries[k].id = x
  BY <1>1, <1>2, <1>4, <1>5, <1>6
<1> QED BY <1>3, <1>6, <1>7, HandlerKeepsInv

LEMMA PairKeepsInv ==
    ASSUME ConfigInv, UNCHANGED c, NEW n \in 1..21, NEW other \in ConfigIds,
           NEW one \in BOOLEAN, NEW two \in BOOLEAN,
           Recorded(Handlers[n]) = {Handlers[n], other},
           RecordAll(Handlers[n], <<Entry(Handlers[n], one), Entry(other, two)>>, Handlers[n + 1]),
           one <=> Found(Handlers[n]), two <=> Found(other)
    PROVE  ConfigInv'
<1> DEFINE entries == <<Entry(Handlers[n], one), Entry(other, two)>>
<1>1. Handlers[n] \in ConfigIds
  BY DEF ConfigIds
<1>2. entries \in ConfigEntries /\ DOMAIN entries = {1, 2}
  BY <1>1 DEF ConfigEntries, Entry
<1>3. /\ entries[1].id = Handlers[n] /\ entries[1].ok = one
      /\ entries[2].id = other /\ entries[2].ok = two
  BY DEF Entry
<1>4. RecordAll(Handlers[n], entries, Handlers[n + 1])
  OBVIOUS
<1> HIDE DEF entries
<1>5. /\ \A k \in DOMAIN entries : entries[k].ok <=> Found(entries[k].id)
      /\ \A x \in Recorded(Handlers[n]) : \E k \in DOMAIN entries : entries[k].id = x
  BY <1>2, <1>3
<1> QED BY <1>2, <1>4, <1>5, HandlerKeepsInv

LEMMA OnlineKeysKeepInv ==
    ASSUME ConfigInv, CheckOnlineKeys
    PROVE  ConfigInv'
<1>1. PICK one \in BOOLEAN : one = CcrKeysOk
  BY Zenon DEF CcrKeysOk, SameField
<1>2. PICK two \in BOOLEAN : two = CcmKeysOk
  BY Zenon DEF CcmKeysOk, SameField
<1>3. /\ RecordAll("3.08", <<Entry("3.08", one), Entry("3.09", two)>>, "3.10")
      /\ UNCHANGED c
  BY <1>1, <1>2 DEF CheckOnlineKeys
<1>4. /\ Handlers[14] = "3.08" /\ Handlers[15] = "3.10"
      /\ Recorded("3.08") = {"3.08", "3.09"} /\ "3.09" \in ConfigIds
  BY DEF Handlers, Recorded, ConfigIds
<1>5. (one <=> Found("3.08")) /\ (two <=> Found("3.09"))
  BY <1>1, <1>2 DEF Found, FormIds
<1> QED BY <1>3, <1>4, <1>5, PairKeepsInv

LEMMA CombinedKeysKeepInv ==
    ASSUME ConfigInv, CheckCombinedKeys
    PROVE  ConfigInv'
<1>1. PICK one \in BOOLEAN : one = ChoiceKeyOk
  BY Zenon DEF ChoiceKeyOk
<1>2. PICK two \in BOOLEAN : two = ElectionKeyOk
  BY Zenon DEF ElectionKeyOk
<1>3. /\ RecordAll("3.11", <<Entry("3.11", one), Entry("3.12", two)>>, "5.01")
      /\ UNCHANGED c /\ ~CannotCombine
  BY <1>1, <1>2 DEF CheckCombinedKeys
<1>4. /\ Handlers[17] = "3.11" /\ Handlers[18] = "5.01"
      /\ Recorded("3.11") = {"3.11", "3.12"} /\ "3.12" \in ConfigIds
  BY DEF Handlers, Recorded, ConfigIds
<1>5. (one <=> Found("3.11")) /\ (two <=> Found("3.12"))
  BY <1>1, <1>2, <1>3 DEF Found, FormIds
<1> QED BY <1>3, <1>4, <1>5, PairKeepsInv

(* 1.01: with both files the run goes on, without them it ends with a      *)
(* failure.                                                                *)
LEMMA CompletenessKeepsInv ==
    ASSUME ConfigInv, CheckSetupCompleteness
    PROVE  ConfigInv'
<1>1. c \in Configs /\ IsConfig(c)
  BY ConfigsAssumption DEF ConfigInv
<1>2. PICK ok \in BOOLEAN : ok = ~c.missing
  BY <1>1 DEF IsConfig
<1>3. Handlers[1] = "1.01" /\ Handlers[2] = "1.02" /\ Recorded("1.01") = {"1.01"}
  BY DEF Handlers, Recorded
<1>4. CASE ok
  <2>1. Record(Handlers[1], ok, Handlers[2]) /\ UNCHANGED c
    BY <1>2, <1>3, <1>4 DEF CheckSetupCompleteness
  <2>2. ok <=> Found(Handlers[1])
    BY <1>2, <1>3, <1>4 DEF Found, FormIds
  <2> QED BY <1>3, <2>1, <2>2, CheckKeepsInv
<1>5. CASE ~ok
  <2>1. Record("1.01", FALSE, "done") /\ UNCHANGED c
    BY <1>2, <1>5 DEF CheckSetupCompleteness
  <2> DEFINE e == Entry("1.01", FALSE)
  <2>2. "1.01" \in ConfigIds
    BY <1>3 DEF ConfigIds
  <2>3. e \in [id : ConfigIds, ok : BOOLEAN] /\ e.id = "1.01" /\ e.ok = FALSE
    BY <2>2 DEF Entry
  <2>4. report' = Append(report, e) /\ report \in ConfigEntries
    BY <2>1 DEF Record, ConfigInv
  <2> HIDE DEF e
  <2>5. report' = report \o <<e>>
    BY <2>3, <2>4 DEF ConfigEntries
  <2>6. <<e>> \in ConfigEntries /\ DOMAIN <<e>> = {1} /\ <<e>>[1] = e
    BY <2>3 DEF ConfigEntries
  <2>7. /\ report' \in ConfigEntries
        /\ \A x : Passed(x)' <=>
             Passed(x) \/ \E k \in DOMAIN <<e>> : <<e>>[k].id = x /\ <<e>>[k].ok
        /\ \A x : Refused(x)' <=>
             Refused(x) \/ \E k \in DOMAIN <<e>> : <<e>>[k].id = x /\ ~<<e>>[k].ok
        /\ ReportOk' <=> ReportOk /\ \A k \in DOMAIN <<e>> : <<e>>[k].ok
    BY <2>4, <2>5, <2>6, EntriesStep
  <2>8. ReportTruthful'
    <3>1. \A x : (Passed(x)' => Passed(x)) /\ (Refused(x)' => Refused(x) \/ x = "1.01")
      BY <2>3, <2>6, <2>7
    <3>2. ~Found("1.01")
      BY <1>2, <1>5 DEF Found
    <3> QED BY <2>1, <3>1, <3>2, SameFindings DEF ReportTruthful, ConfigInv
  <2>9. ~ReportOk'
    BY <2>3, <2>6, <2>7
  <2>10. pc' # "crashed"
    BY <2>1 DEF Record
  <2> QED BY <2>1, <2>7, <2>8, <2>9, <2>10 DEF ConfigInv, NoneSkipped
<1> QED BY <1>2, <1>4, <1>5

LEMMA RaisingKeepsInv ==
    ASSUME ConfigInv, CombiningRaises
    PROVE  ConfigInv'
<1>1. pc' = "crashed" /\ report' = report /\ UNCHANGED c
  BY DEF CombiningRaises, Crash
<1>2. ReportTruthful'
  BY <1>1, SameFindings DEF ReportTruthful, Passed, Refused, ConfigInv
<1>3. NoneSkipped'
  BY <1>1, NoHandlerCrashed DEF NoneSkipped
<1>4. CannotCombine'
  BY <1>1, SameFindings DEF CombiningRaises
<1> QED BY <1>1, <1>2, <1>3, <1>4 DEF ConfigInv

LEMMA StutteringKeepsInv ==
    ASSUME ConfigInv, UNCHANGED vars
    PROVE  ConfigInv'
<1>1. pc' = pc /\ report' = report /\ UNCHANGED c
  BY DEF vars
<1>2. ReportTruthful'
  BY <1>1, SameFindings DEF ReportTruthful, Passed, Refused, ConfigInv
<1>3. NoneSkipped'
  BY <1>1 DEF NoneSkipped, ReportOk, Failing, Ran, ConfigInv
<1>4. pc' = "crashed" => CannotCombine'
  BY <1>1, SameFindings DEF ConfigInv
<1> QED BY <1>1, <1>2, <1>3, <1>4 DEF ConfigInv

(* The report tells what every check found, and nothing before the current *)
(* check is missing from a report without a failure (verify_config_phase   *)
(* and its early return).                                                  *)
THEOREM ConfigInvariant == Spec => []ConfigInv
<1>1. Init => ConfigInv
  <2> SUFFICES ASSUME Init PROVE ConfigInv
    OBVIOUS
  <2>1. pc = "1.01" /\ report = <<>> /\ c \in Configs
    BY DEF Init, ReportInit
  <2>2. report \in ConfigEntries /\ DOMAIN report = {}
    BY <2>1 DEF ConfigEntries
  <2>3. ReportTruthful
    BY <2>2 DEF ReportTruthful, Passed, Refused
  <2>4. NoneSkipped
    <3>1. Handlers[1] = "1.01"
      BY DEF Handlers
    <3>2. \A n \in 1..22 : pc = Handlers[n] => n = 1
      BY <2>1, <3>1, HandlersDiffer
    <3> QED BY <3>2 DEF NoneSkipped
  <2> QED BY <2>1, <2>2, <2>3, <2>4 DEF ConfigInv
<1>2. ConfigInv /\ [Next]_vars => ConfigInv'
  BY FormKeepsInv, ConsistencyKeepsInv, CardsKeepInv, KeysKeepInv, OptionsKeepInv,
     SignaturesKeepInv, OnlineKeysKeepInv, CombinedKeysKeepInv, CompletenessKeepsInv,
     RaisingKeepsInv, StutteringKeepsInv DEF Next
<1> QED BY <1>1, <1>2, PTL DEF Spec

(* An accepted setup has passed all the checks, so each found what it      *)
(* looks for.                                                              *)
LEMMA AcceptedFound ==
    ASSUME ConfigInv, Accepted
    PROVE  /\ AllEqual(c.groups) /\ NodeIdsOk /\ CardSetIdsOk /\ CardSetPathsOk /\ CardIdsOk
           /\ TablesOk /\ TotalVotersOk /\ CcmKeysOk /\ MembersOk
           /\ ~CannotCombine /\ ElectionKeyOk
           /\ ParametersOk /\ SmallPrimesOk /\ VotingOptionsOk
<1>1. ReportOk /\ pc = Handlers[22]
  BY DEF Accepted, Handlers
<1>2. \A m \in 1..21 : \A id \in Recorded(Handlers[m]) : Ran(id)
  BY <1>1 DEF ConfigInv, NoneSkipped
<1>3. \A m \in 1..21 : \A id \in Recorded(Handlers[m]) : id \in ConfigIds => Found(id)
  BY <1>1, <1>2, OkHasPassed DEF ConfigInv, ReportTruthful
<1>4. \A m \in 1..21 : Recorded(Handlers[m]) \subseteq ConfigIds
  BY DEF Recorded, ConfigIds
<1>5. \A m \in 1..21 : \A id \in Recorded(Handlers[m]) : Found(id)
  BY <1>3, <1>4
<1>6. /\ "3.01" \in Recorded(Handlers[5]) /\ "3.02" \in Recorded(Handlers[6])
      /\ "3.05" \in Recorded(Handlers[9]) /\ "3.06" \in Recorded(Handlers[10])
      /\ "3.07" \in Recorded(Handlers[11]) /\ "3.13" \in Recorded(Handlers[12])
      /\ "3.14" \in Recorded(Handlers[13])
  BY DEF Recorded, Handlers
<1>7. /\ "3.09" \in Recorded(Handlers[14]) /\ "C.01" \in Recorded(Handlers[16])
      /\ "3.12" \in Recorded(Handlers[17]) /\ "5.01" \in Recorded(Handlers[18])
      /\ "5.02" \in Recorded(Handlers[19]) /\ "5.03" \in Recorded(Handlers[20])
  BY DEF Recorded, Handlers
<1>8. /\ Found("3.01") /\ Found("3.02") /\ Found("3.05") /\ Found("3.06") /\ Found("3.07")
      /\ Found("3.13") /\ Found("3.14")
  BY <1>5, <1>6
<1>9. /\ Found("3.09") /\ Found("C.01") /\ Found("3.12") /\ Found("5.01") /\ Found("5.02")
      /\ Found("5.03")
  BY <1>5, <1>7
<1> QED BY <1>8, <1>9 DEF Found

-----------------------------------------------------------------------------
(* The voting cards.                                                       *)

AllPathShaped == PathShaped = DOMAIN c.tallyData
ContextsDiffer == ~Duplicated([i \in DOMAIN c.contexts |-> c.contexts[i].vcs])
Cards == UNION {ToSet(c.tallyData[i].cards) : i \in DOMAIN c.tallyData}

LEMMA Undoubled ==
    ASSUME NEW s, NEW n \in Nat, DOMAIN s = 1..n, ~Duplicated(s), NEW i \in 1..n, NEW k \in 1..n,
           s[i] = s[k]
    PROVE  i = k
<1>1. ~(i < k) /\ ~(k < i)
  BY DEF Duplicated
<1> QED BY <1>1

LEMMA EmptyIfNoPlaces ==
    ASSUME NEW s, IsListed(s)
    PROVE  /\ Len(s) \in Nat /\ DOMAIN s = 1..Len(s)
           /\ DOMAIN s = {} => s = <<>>
<1>1. PICK n \in Nat : n = Len(s)
  BY DEF IsListed
<1>2. s = [i \in 1..n |-> s[i]]
  BY <1>1 DEF IsListed
<1>3. DOMAIN s = 1..n
  <2> DEFINE f == [i \in 1..n |-> s[i]]
  <2>1. DOMAIN f = 1..n
    OBVIOUS
  <2>2. s = f
    BY <1>2
  <2> HIDE DEF f
  <2> QED BY <2>1, <2>2
<1>4. ASSUME DOMAIN s = {}
      PROVE  s = <<>>
  <2>1. n = 0
    BY <1>3, <1>4
  <2>2. [i \in 1..0 |-> s[i]] = <<>>
    OBVIOUS
  <2> QED BY <1>2, <2>1, <2>2
<1> QED BY <1>1, <1>3, <1>4

(* Finitely many lists are finitely many places.                           *)
LEMMA PairsFinite ==
    ASSUME NEW n \in Nat, NEW lengths \in [1..n -> Nat]
    PROVE  IsFiniteSet(UNION {{i} \X (1..lengths[i]) : i \in 1..n})
<1> DEFINE Of(i) == {i} \X (1..lengths[i])
           All == {Of(i) : i \in 1..n}
<1>1. ASSUME NEW i \in 1..n
      PROVE  IsFiniteSet(Of(i))
  <2>1. \A m \in Nat : IsFiniteSet(1..m)
    BY FS_Interval
  <2>2. IsFiniteSet(1..lengths[i]) /\ IsFiniteSet({i})
    BY <2>1, FS_Singleton
  <2> QED BY <2>2, FS_Product
<1>2. IsFiniteSet(1..n)
  BY FS_Interval
<1>3. IsFiniteSet(All)
  <2> HIDE DEF Of
  <2> DEFINE f == [i \in 1..n |-> Of(i)]
  <2>1. f \in Surjection(1..n, All)
    BY DEF Surjection
  <2> HIDE DEF All, f
  <2> QED BY <1>2, <2>1, FS_Surjection
<1>4. \A S \in All : IsFiniteSet(S)
  BY <1>1
<1>5. IsFiniteSet(UNION All)
  <2> HIDE DEF All
  <2> QED BY <1>3, <1>4, FS_UNION
<1> QED BY <1>5

(* Finitely many contexts, finitely many voters of each.                   *)
LEMMA VotersFinite ==
    ASSUME IsConfig(c)
    PROVE  IsFiniteSet(Voters)
<1> DEFINE lengths == [i \in 1..Len(c.contexts) |-> c.contexts[i].eligible]
<1>1. DOMAIN c.contexts = 1..Len(c.contexts) /\ Len(c.contexts) \in Nat
  BY EmptyIfNoPlaces DEF IsConfig
<1>2. lengths \in [1..Len(c.contexts) -> Nat]
  BY <1>1 DEF IsConfig
<1>3. Voters = UNION {{i} \X (1..lengths[i]) : i \in 1..Len(c.contexts)}
  BY <1>1 DEF Voters
<1> HIDE DEF lengths
<1> QED BY <1>1, <1>2, <1>3, PairsFinite

(* Each card set has one payload, with a card for each of its voters.      *)
OnePayloadEach ==
    /\ \A x \in DOMAIN c.contexts : \E i \in DOMAIN c.tallyData :
         c.tallyData[i].vcs = c.contexts[x].vcs
    /\ \A i \in DOMAIN c.tallyData : \E x \in DOMAIN c.contexts :
         c.tallyData[i].vcs = c.contexts[x].vcs
    /\ \A x, y \in DOMAIN c.contexts : c.contexts[x].vcs = c.contexts[y].vcs => x = y
    /\ \A i, j \in DOMAIN c.tallyData : c.tallyData[i].vcs = c.tallyData[j].vcs => i = j
    /\ \A i \in DOMAIN c.tallyData : \A x \in DOMAIN c.contexts :
         c.tallyData[i].vcs = c.contexts[x].vcs =>
           DOMAIN c.tallyData[i].cards = 1..c.contexts[x].eligible

LEMMA PayloadsOfContexts ==
    ASSUME IsConfig(c), CardSetIdsOk, CardSetPathsOk, CardIdsOk, AllPathShaped, ContextsDiffer,
           DOMAIN c.tallyData # {}
    PROVE  OnePayloadEach
<1>1. /\ DOMAIN c.contexts = 1..Len(c.contexts) /\ Len(c.contexts) \in Nat
      /\ DOMAIN c.tallyData = 1..Len(c.tallyData) /\ Len(c.tallyData) \in Nat
      /\ \A i \in DOMAIN c.tallyData :
           DOMAIN c.tallyData[i].cards = 1..Len(c.tallyData[i].cards)
  BY EmptyIfNoPlaces DEF IsConfig
<1>2. \A x, y \in DOMAIN c.contexts : c.contexts[x].vcs = c.contexts[y].vcs => x = y
  <2> SUFFICES ASSUME NEW x \in DOMAIN c.contexts, NEW y \in DOMAIN c.contexts,
                      c.contexts[x].vcs = c.contexts[y].vcs
               PROVE  x = y
    OBVIOUS
  <2>1. ~(x < y) /\ ~(y < x)
    BY DEF ContextsDiffer, Duplicated
  <2> QED BY <1>1, <2>1
<1>3. \A i, j \in DOMAIN c.tallyData : c.tallyData[i].vcs = c.tallyData[j].vcs => i = j
  <2> SUFFICES ASSUME NEW i \in DOMAIN c.tallyData, NEW j \in DOMAIN c.tallyData,
                      c.tallyData[i].vcs = c.tallyData[j].vcs
               PROVE  i = j
    OBVIOUS
  <2>1. ~(i < j) /\ ~(j < i)
    BY DEF CardSetIdsOk, Duplicated
  <2> QED BY <1>1, <2>1
<1>4. \A i \in DOMAIN c.tallyData : \E x \in DOMAIN c.contexts :
        c.tallyData[i].vcs = c.contexts[x].vcs
  BY DEF CardIdsOk, VcsIds
<1>5. \A x \in DOMAIN c.contexts : \E i \in DOMAIN c.tallyData :
        c.tallyData[i].vcs = c.contexts[x].vcs
  <2>1. PathShaped # {}
    BY DEF AllPathShaped
  <2>2. {c.tallyData[i].path : i \in PathShaped} = VcsIds
    BY <2>1 DEF CardSetPathsOk
  <2>3. \A i \in PathShaped : c.tallyData[i].path = c.tallyData[i].vcs
    BY DEF CardSetPathsOk
  <2> QED BY <2>2, <2>3 DEF VcsIds, AllPathShaped
<1>6. ASSUME NEW i \in DOMAIN c.tallyData, NEW x \in DOMAIN c.contexts,
             c.tallyData[i].vcs = c.contexts[x].vcs
      PROVE  DOMAIN c.tallyData[i].cards = 1..c.contexts[x].eligible
  <2> DEFINE Is(y) == /\ c.contexts[y].vcs = c.tallyData[i].vcs
                      /\ \A k \in DOMAIN c.contexts :
                           c.contexts[k].vcs = c.tallyData[i].vcs => k <= y
  <2>1. Is(x)
    BY <1>1, <1>2, <1>6
  <2>2. \A y \in DOMAIN c.contexts : Is(y) => y = x
    BY <1>2, <1>6
  <2>3. (CHOOSE y \in DOMAIN c.contexts : Is(y)) = x
    <3> HIDE DEF Is
    <3> QED BY <2>1, <2>2
  <2>4. ByVcs(c.tallyData[i].vcs) = c.contexts[x]
    BY <2>3 DEF ByVcs
  <2>5. Len(c.tallyData[i].cards) = c.contexts[x].eligible
    BY <2>4 DEF CardIdsOk
  <2> QED BY <1>1, <2>5
<1> QED BY <1>2, <1>3, <1>4, <1>5, <1>6 DEF OnePayloadEach

(* The cards are as many as the voters: the k-th card of a payload belongs *)
(* to the k-th voter of the context of its card set.                       *)
LEMMA CardOfVoter ==
    ASSUME IsConfig(c), CardIdsOk, OnePayloadEach
    PROVE  Cardinality(Cards) = Cardinality(Voters)
<1> DEFINE Payload(x) == CHOOSE i \in DOMAIN c.tallyData :
                           c.tallyData[i].vcs = c.contexts[x].vcs
           Card(v) == c.tallyData[Payload(v[1])].cards[v[2]]
           card == [v \in Voters |-> Card(v)]
<1>1. \A x \in DOMAIN c.contexts :
        Payload(x) \in DOMAIN c.tallyData /\ c.tallyData[Payload(x)].vcs = c.contexts[x].vcs
  BY DEF OnePayloadEach
<1> HIDE DEF Payload
<1>2. \A v \in Voters : /\ v[1] \in DOMAIN c.contexts
                        /\ v[2] \in 1..c.contexts[v[1]].eligible
                        /\ v = <<v[1], v[2]>>
  BY DEF Voters
<1>3. \A x \in DOMAIN c.contexts : \A k \in 1..c.contexts[x].eligible : <<x, k>> \in Voters
  BY DEF Voters
<1>4. \A v \in Voters : v[2] \in DOMAIN c.tallyData[Payload(v[1])].cards
  <2> SUFFICES ASSUME NEW v \in Voters
               PROVE  v[2] \in DOMAIN c.tallyData[Payload(v[1])].cards
    OBVIOUS
  <2>1. DOMAIN c.tallyData[Payload(v[1])].cards = 1..c.contexts[v[1]].eligible
    BY <1>1, <1>2 DEF OnePayloadEach
  <2> QED BY <1>2, <2>1
<1>5. card \in [Voters -> Cards]
  <2>1. ASSUME NEW v \in Voters
        PROVE  Card(v) \in Cards
    <3>1. Card(v) \in ToSet(c.tallyData[Payload(v[1])].cards)
      BY <1>4 DEF ToSet
    <3> QED BY <1>1, <1>2, <3>1 DEF Cards
  <2> HIDE DEF Card
  <2> QED BY <2>1
<1>6. ASSUME NEW v \in Voters, NEW w \in Voters, Card(v) = Card(w)
      PROVE  v = w
  <2>1. <<Payload(v[1]), v[2]>> = <<Payload(w[1]), w[2]>>
    BY <1>1, <1>2, <1>4, <1>6 DEF CardIdsOk
  <2>2. Payload(v[1]) = Payload(w[1]) /\ v[2] = w[2]
    BY <2>1
  <2>3. c.contexts[v[1]].vcs = c.contexts[w[1]].vcs
    BY <1>1, <1>2, <2>2
  <2>4. v[1] = w[1]
    BY <1>2, <2>3 DEF OnePayloadEach
  <2> QED BY <1>2, <2>2, <2>4
<1>7. ASSUME NEW a \in Cards
      PROVE  \E v \in Voters : Card(v) = a
  <2>1. PICK i \in DOMAIN c.tallyData : a \in ToSet(c.tallyData[i].cards)
    BY DEF Cards
  <2>2. PICK k \in DOMAIN c.tallyData[i].cards : c.tallyData[i].cards[k] = a
    BY <2>1 DEF ToSet
  <2>3. PICK x \in DOMAIN c.contexts : c.tallyData[i].vcs = c.contexts[x].vcs
    BY DEF OnePayloadEach
  <2>4. Payload(x) = i
    BY <1>1, <2>3 DEF OnePayloadEach
  <2>5. k \in 1..c.contexts[x].eligible
    BY <2>2, <2>3 DEF OnePayloadEach
  <2>6. <<x, k>> \in Voters /\ Card(<<x, k>>) = a
    BY <1>3, <2>2, <2>4, <2>5
  <2> QED BY <2>6
<1> HIDE DEF Card
<1>8. card \in Injection(Voters, Cards)
  <2>1. \A v, w \in Voters : card[v] = card[w] => v = w
    <3>1. \A v \in Voters : card[v] = Card(v)
      OBVIOUS
    <3> HIDE DEF card
    <3> QED BY <1>6, <3>1
  <2> HIDE DEF card
  <2> QED BY <1>5, <2>1 DEF Injection, IsInjective
<1>9. card \in Surjection(Voters, Cards)
  BY <1>5, <1>7 DEF Surjection
<1>10. card \in Bijection(Voters, Cards)
  BY <1>8, <1>9 DEF Bijection
<1> HIDE DEF card
<1>11. IsFiniteSet(Voters)
  BY VotersFinite
<1> QED BY <1>10, <1>11, FS_Bijection DEF ExistsBijection

(* An accepted setup has as many voting cards as the configuration has     *)
(* voters, and no card in two card sets (checks 3.05, 3.06, 3.07, 3.14).   *)
THEOREM CardsMatchVoters == Spec => []CardsCountVoters
<1>1. ConfigInv => CardsCountVoters
  <2> SUFFICES ASSUME ConfigInv, Accepted, c.xml.present, PathShaped = DOMAIN c.tallyData,
                      c.tallyData # <<>>,
                      ~Duplicated([i \in DOMAIN c.contexts |-> c.contexts[i].vcs])
               PROVE  Cardinality(Cards) = c.xml.total
    BY Zenon DEF CardsCountVoters, Cards
  <2>1. IsConfig(c)
    BY ConfigsAssumption DEF ConfigInv
  <2>2. CardSetIdsOk /\ CardSetPathsOk /\ CardIdsOk /\ TotalVotersOk
    BY AcceptedFound
  <2>3. DOMAIN c.tallyData # {}
    BY <2>1, EmptyIfNoPlaces DEF IsConfig
  <2>4. Cardinality(Cards) = Cardinality(Voters)
    BY <2>1, <2>2, <2>3, PayloadsOfContexts, CardOfVoter DEF AllPathShaped, ContextsDiffer
  <2> QED BY <2>2, <2>4 DEF TotalVotersOk
<1> QED BY <1>1, ConfigInvariant, PTL

-----------------------------------------------------------------------------
(* Products modulo p.                                                      *)

(* Factors may be reduced before they are multiplied, and come in any      *)
(* order.                                                                  *)
LEMMA TimesOfProduct ==
    ASSUME NEW p \in Nat \ {0}, NEW a \in Nat, NEW b \in Nat
    PROVE  /\ Times(p, a, b) \in Nat
           /\ \A x \in Nat : Times(p, Times(p, a, b), x) = (a * b * x) % p
           /\ \A x \in Nat : Times(p, x, Times(p, a, b)) = (x * a * b) % p
<1>1. PICK y \in Nat : y = a * b
  OBVIOUS
<1>2. Times(p, a, b) = y % p /\ y % p \in Nat
  BY <1>1, Division DEF Times
<1>3. ASSUME NEW x \in Nat
      PROVE  /\ Times(p, Times(p, a, b), x) = (a * b * x) % p
             /\ Times(p, x, Times(p, a, b)) = (x * a * b) % p
  <2>1. ((y % p) * x) % p = (y * x) % p
    BY Reduced
  <2>2. (y % p) * x = x * (y % p) /\ y * x = a * b * x /\ y * x = x * a * b
    BY <1>1, <1>2
  <2> QED BY <1>2, <2>1, <2>2 DEF Times
<1> QED BY <1>2, <1>3

LEMMA Permuted ==
    ASSUME NEW v \in [1..4 -> Nat], NEW h \in 1..4, NEW i \in 1..4, NEW j \in 1..4, NEW k \in 1..4,
           h # i, h # j, h # k, i # j, i # k, j # k
    PROVE  v[h] * v[i] * v[j] * v[k] = v[1] * v[2] * v[3] * v[4]
<1>1. PICK x \in Nat, y \in Nat, z \in Nat, t \in Nat : x = v[1] /\ y = v[2] /\ z = v[3] /\ t = v[4]
  OBVIOUS
<1>2. h \in {1, 2, 3, 4} /\ i \in {1, 2, 3, 4} /\ j \in {1, 2, 3, 4} /\ k \in {1, 2, 3, 4}
  OBVIOUS
<1>3. CASE h = 1
  BY <1>1, <1>2, <1>3
<1>4. CASE h = 2
  BY <1>1, <1>2, <1>4
<1>5. CASE h = 3
  BY <1>1, <1>2, <1>5
<1>6. CASE h = 4
  BY <1>1, <1>2, <1>6
<1> QED BY <1>2, <1>3, <1>4, <1>5, <1>6

(* combine_public_keys multiplies one key after another.                   *)
StepByStep(f, p, keys, i) ==
    /\ f[0] = 1
    /\ \A n \in 1..Len(keys) : f[n] = Times(p, f[n - 1], keys[n][i])
    /\ ProductAt(p, keys, i) = f[Len(keys)]

LEMMA ProductSteps ==
    ASSUME NEW p, NEW keys, Len(keys) \in Nat, NEW i
    PROVE  \E f : StepByStep(f, p, keys, i)
<1> DEFINE Step(f, n) == IF n = 0 THEN 1 ELSE Times(p, f[n - 1], keys[n][i])
           Is(n, f) == f = [m \in 0..n |-> Step(f, m)]
           L == {n \in Nat : ~\E f : Is(n, f)}
<1>1. L = {}
  <2> SUFFICES ASSUME L # {} PROVE FALSE
    OBVIOUS
  <2>1. PICK n \in L : \A m \in L : n <= m
    BY LeastNatural
  <2>2. n # 0
    <3> DEFINE g == [m \in 0..0 |-> 1]
    <3>1. Is(0, g)
      OBVIOUS
    <3> QED BY <2>1, <3>1
  <2>3. n - 1 \in Nat /\ n - 1 \notin L
    BY <2>1, <2>2
  <2>4. PICK f : Is(n - 1, f)
    BY <2>3
  <2> DEFINE g == [m \in 0..n |-> IF m = n THEN Step(f, n) ELSE f[m]]
  <2>5. \A m \in 0..n : g[m] = Step(g, m)
    <3> SUFFICES ASSUME NEW m \in 0..n PROVE g[m] = Step(g, m)
      OBVIOUS
    <3>1. CASE m = n
      BY <2>2, <2>3, <3>1
    <3>2. CASE m # n
      <4>1. m \in 0..(n - 1) /\ (m = 0 \/ m - 1 \in 0..(n - 1))
        BY <3>2
      <4>2. g[m] = f[m] /\ (m = 0 \/ g[m - 1] = f[m - 1])
        BY <2>3, <3>2, <4>1
      <4>3. f[m] = Step(f, m)
        BY <2>4, <4>1
      <4> HIDE DEF g
      <4> QED BY <4>1, <4>2, <4>3
    <3> QED BY <3>1, <3>2
  <2>6. g = [m \in 0..n |-> g[m]]
    OBVIOUS
  <2>7. Is(n, g)
    <3> HIDE DEF g, Step
    <3> QED BY <2>5, <2>6
  <2> QED BY <2>1, <2>7
<1> DEFINE l == Len(keys)
           f == CHOOSE h : Is(l, h)
<1>2. Is(l, f)
  <2> HIDE DEF Is
  <2> QED BY <1>1
<1>3. ProductAt(p, keys, i) = f[l]
  BY DEF ProductAt
<1> HIDE DEF f
<1>4. \A n \in 0..l : f[n] = Step(f, n)
  BY <1>2
<1>5. f[0] = 1 /\ \A n \in 1..l : f[n] = Times(p, f[n - 1], keys[n][i])
  BY <1>4
<1> QED BY <1>3, <1>5 DEF StepByStep

LEMMA FiveTimes ==
    ASSUME NEW p \in Nat \ {0}, NEW t \in Nat, NEW u \in Nat, NEW x \in Nat, NEW y \in Nat,
           NEW z \in Nat
    PROVE  Times(p, Times(p, Times(p, Times(p, t, u), x), y), z) = (t * u * x * y * z) % p
<1>1. PICK m \in Nat : m = t * u
  OBVIOUS
<1>2. PICK n \in Nat : n = t * u * x
  <2>1. m * x \in Nat
    OBVIOUS
  <2> QED BY <1>1, <2>1
<1>3. Times(p, Times(p, t, u), x) = Times(p, m, x)
  BY <1>1, TimesOfProduct DEF Times
<1>4. Times(p, Times(p, m, x), y) = Times(p, n, y)
  BY <1>1, <1>2, TimesOfProduct DEF Times
<1>5. Times(p, Times(p, n, y), z) = (n * y * z) % p
  BY TimesOfProduct
<1> QED BY <1>2, <1>3, <1>4, <1>5

LEMMA ProductOfFour ==
    ASSUME NEW p \in Nat \ {0}, NEW keys, Len(keys) = 4, NEW i,
           \A n \in 1..4 : keys[n][i] \in Nat
    PROVE  ProductAt(p, keys, i) = (keys[1][i] * keys[2][i] * keys[3][i] * keys[4][i]) % p
<1>1. PICK f : /\ f[0] = 1
               /\ \A n \in 1..4 : f[n] = Times(p, f[n - 1], keys[n][i])
               /\ ProductAt(p, keys, i) = f[4]
  <2>1. Len(keys) \in Nat
    OBVIOUS
  <2>2. PICK f : StepByStep(f, p, keys, i)
    BY <2>1, ProductSteps
  <2>3. f[0] = 1 /\ (\A n \in 1..4 : f[n] = Times(p, f[n - 1], keys[n][i]))
        /\ ProductAt(p, keys, i) = f[4]
    BY <2>2 DEF StepByStep
  <2> QED BY <2>3
<1>2. PICK u \in Nat, x \in Nat, y \in Nat, z \in Nat :
        u = keys[1][i] /\ x = keys[2][i] /\ y = keys[3][i] /\ z = keys[4][i]
  OBVIOUS
<1>3. f[4] = Times(p, Times(p, Times(p, Times(p, 1, u), x), y), z)
  <2>1. f[1] = Times(p, 1, u) /\ f[2] = Times(p, f[1], x) /\ f[3] = Times(p, f[2], y)
        /\ f[4] = Times(p, f[3], z)
    BY <1>1, <1>2
  <2> QED BY <2>1
<1>4. f[4] = (1 * u * x * y * z) % p
  BY <1>3, FiveTimes
<1>5. 1 * u * x * y * z = u * x * y * z
  OBVIOUS
<1> QED BY <1>1, <1>2, <1>4, <1>5

LEMMA ProductOfTwo ==
    ASSUME NEW p \in Nat \ {0}, NEW keys, Len(keys) = 2, NEW i, keys[1][i] \in Nat
    PROVE  ProductAt(p, keys, i) = Times(p, Times(p, 1, keys[1][i]), keys[2][i])
<1>1. PICK f : /\ f[0] = 1
               /\ \A n \in 1..2 : f[n] = Times(p, f[n - 1], keys[n][i])
               /\ ProductAt(p, keys, i) = f[2]
  <2>1. Len(keys) \in Nat
    OBVIOUS
  <2>2. PICK f : StepByStep(f, p, keys, i)
    BY <2>1, ProductSteps
  <2>3. f[0] = 1 /\ (\A n \in 1..2 : f[n] = Times(p, f[n - 1], keys[n][i]))
        /\ ProductAt(p, keys, i) = f[2]
    BY <2>2 DEF StepByStep
  <2> QED BY <2>3
<1> QED BY <1>1

-----------------------------------------------------------------------------
(* The keys.                                                               *)

SetupNodesDiffer == ~Duplicated([i \in DOMAIN c.setup.components |-> c.setup.components[i].node])

(* Of components whose nodes differ, ByNode finds the one of the node.     *)
LEMMA OnlyOfNode ==
    ASSUME NEW components, IsListed(components),
           ~Duplicated([i \in DOMAIN components |-> components[i].node]),
           NEW k \in DOMAIN components, NEW node, components[k].node = node
    PROVE  /\ ByNode(components, node) = components[k]
           /\ (CHOOSE i \in DOMAIN components : components[i].node = node) = k
<1> DEFINE Is(i) == /\ components[i].node = node
                    /\ \A l \in DOMAIN components : components[l].node = node => l <= i
<1>1. PICK n \in Nat : DOMAIN components = 1..n
  BY EmptyIfNoPlaces
<1>2. \A i \in DOMAIN components : components[i].node = node => i = k
  <2> SUFFICES ASSUME NEW i \in DOMAIN components, components[i].node = node
               PROVE  i = k
    OBVIOUS
  <2>1. ~(i < k) /\ ~(k < i)
    BY DEF Duplicated
  <2> QED BY <1>1, <2>1
<1>3. Is(k)
  BY <1>1, <1>2
<1>4. \A i \in DOMAIN components : Is(i) => i = k
  BY <1>2
<1>5. (CHOOSE i \in DOMAIN components : Is(i)) = k
  <2> HIDE DEF Is
  <2> QED BY <1>3, <1>4
<1>6. ByNode(components, node) = components[k]
  BY <1>5 DEF ByNode
<1>7. (CHOOSE i \in DOMAIN components : components[i].node = node) = k
  BY <1>2
<1> QED BY <1>6, <1>7

(* Four nodes, none of them twice, take four places.                       *)
LEMMA FourPlaces ==
    ASSUME NEW n \in Nat, NEW s, DOMAIN s = 1..n, ~Duplicated(s), ToSet(s) = 1..4
    PROVE  n = 4
<1>1. \A i, k \in 1..n : s[i] = s[k] => i = k
  BY Undoubled
<1>2. \A m \in 1..4 : \E i \in 1..n : s[i] = m
  BY DEF ToSet
<1>3. \A i \in 1..n : s[i] \in 1..4
  BY DEF ToSet
<1> DEFINE f == [i \in 1..n |-> s[i]]
<1>4. f \in [1..n -> 1..4] /\ \A i \in 1..n : f[i] = s[i]
  BY <1>3
<1> HIDE DEF f
<1>5. f \in Injection(1..n, 1..4)
  BY <1>1, <1>4 DEF Injection, IsInjective
<1>6. f \in Surjection(1..n, 1..4)
  BY <1>2, <1>4 DEF Surjection
<1>7. ExistsBijection(1..n, 1..4)
  BY <1>5, <1>6 DEF Bijection, ExistsBijection
<1>8. Cardinality(1..4) = n
  BY <1>7, FS_CountingElements
<1>9. Cardinality(1..4) = 4
  <2>1. \A b \in Nat : Cardinality(1..b) = b
    BY FS_Interval
  <2>2. 4 \in Nat
    OBVIOUS
  <2> QED BY <2>1, <2>2, Zenon
<1> QED BY <1>8, <1>9

(* Four different nodes in the control components' own payloads.           *)
LEMMA FourNodes ==
    ASSUME IsListed(c.online), c.online # <<>>, NodeIdsOk, SameNodes
    PROVE  /\ {c.online[i].node : i \in DOMAIN c.online} = 1..4
           /\ Len(c.online) = 4
<1> DEFINE ids == [i \in DOMAIN c.online |-> c.online[i].node]
<1>1. PICK n \in Nat : n = Len(c.online) /\ DOMAIN c.online = 1..n
  BY EmptyIfNoPlaces
<1>2. n # 0
  BY <1>1, EmptyIfNoPlaces
<1>3. DOMAIN ids = 1..n /\ \A i \in 1..n : ids[i] = c.online[i].node
  BY <1>1
<1>4. ids # <<>>
  BY <1>2, <1>3
<1>5. ToSet(ids) = 1..4 /\ ~Duplicated(ids)
  BY <1>4 DEF NodeIdsOk, SameNodes
<1> HIDE DEF ids
<1>6. n = 4
  BY <1>3, <1>5, FourPlaces
<1>7. {c.online[i].node : i \in DOMAIN c.online} = ToSet(ids)
  BY <1>1, <1>3 DEF ToSet
<1> QED BY <1>1, <1>5, <1>6, <1>7

(* The setup's keys of a node are the published ones.                      *)
LEMMA PublishedOfSetup ==
    ASSUME IsConfig(c), c.online # <<>>, SetupNodesDiffer, CcmKeysOk,
           NEW k \in DOMAIN c.setup.components
    PROVE  \E i \in DOMAIN c.online :
             /\ c.online[i].node = c.setup.components[k].node
             /\ c.online[i].ccm = c.setup.components[k].ccm
             /\ PublishedCcm(c.setup.components[k].node) = c.setup.components[k].ccm
<1> DEFINE node == c.setup.components[k].node
<1>1. IsListed(c.online) /\ IsListed(c.setup.components)
  BY DEF IsConfig
<1>2. /\ SameNodes
      /\ \A m \in Nodes(c.online) :
           ByNode(c.online, m)["ccm"] = ByNode(c.setup.components, m)["ccm"]
  BY DEF CcmKeysOk, SameField
<1>3. node # NoNode
  BY DEF IsConfig
<1>4. node \in Nodes(c.online)
  BY <1>2, <1>3 DEF SameNodes, Nodes
<1>5. PICK i \in DOMAIN c.online : c.online[i].node = node
  BY <1>4 DEF Nodes
<1>6. ~Duplicated([l \in DOMAIN c.online |-> c.online[l].node])
  BY <1>2 DEF SameNodes
<1>7. /\ ByNode(c.online, node) = c.online[i]
      /\ (CHOOSE l \in DOMAIN c.online : c.online[l].node = node) = i
  <2> DEFINE n == node
  <2>1. c.online[i].node = n
    BY <1>5
  <2> HIDE DEF n
  <2>2. /\ ByNode(c.online, n) = c.online[i]
        /\ (CHOOSE l \in DOMAIN c.online : c.online[l].node = n) = i
    BY <1>1, <1>6, <2>1, OnlyOfNode
  <2> QED BY <2>2 DEF n
<1>8. ByNode(c.setup.components, node) = c.setup.components[k]
  <2>1. ~Duplicated([l \in DOMAIN c.setup.components |-> c.setup.components[l].node])
    BY DEF SetupNodesDiffer
  <2> DEFINE n == node
             s == c.setup.components
  <2>2. s[k].node = n /\ k \in DOMAIN s /\ IsListed(s)
        /\ ~Duplicated([l \in DOMAIN s |-> s[l].node])
    BY <1>1, <2>1
  <2> HIDE DEF n, s
  <2>3. ByNode(s, n) = s[k]
    BY <2>2, OnlyOfNode
  <2> QED BY <2>3 DEF n, s
<1>9. c.online[i]["ccm"] = c.setup.components[k]["ccm"]
  BY <1>2, <1>4, <1>7, <1>8
<1>10. c.online[i].ccm = c.setup.components[k].ccm
  BY <1>9
<1>11. PublishedCcm(node) = c.online[i].ccm
  BY <1>7 DEF PublishedCcm, OfNode
<1> QED BY <1>5, <1>10, <1>11

(* The length of what is listed.                                           *)
LEMMA ListedLength ==
    ASSUME NEW n \in Nat, NEW s, s = [i \in 1..n |-> s[i]]
    PROVE  Len(s) = n /\ DOMAIN s = 1..n
<1> DEFINE T == {s[i] : i \in 1..n}
           f == [i \in 1..n |-> s[i]]
<1>1. f \in [1..n -> T] /\ s = f
  OBVIOUS
<1> HIDE DEF T, f
<1>2. s \in Seq(T) /\ DOMAIN s = 1..n
  BY <1>1, SeqDef
<1> QED BY <1>2, LenProperties

(* Elements of the group are naturals.                                     *)
LEMMA MembersNatural ==
    ASSUME NEW v, GroupMember(Derived, v)
    PROVE  v \in Nat /\ Derived.p \in Nat \ {0}
<1>1. PICK p \in Nat \ {0}, q \in Nat : p = Derived.p /\ q = Derived.q
  BY DerivedAssumption DEF IsGroup
<1>2. PICK u \in 1..q : v = (u * u) % p
  BY <1>1 DEF GroupMember
<1>3. PICK w \in Nat : w = u * u
  <2>1. u \in Nat
    BY <1>1
  <2> QED BY <2>1
<1> QED BY <1>1, <1>2, <1>3, Division

(* combine_public_keys of the four components' keys and of the board's.    *)
LEMMA ElectionKeyAt ==
    ASSUME IsConfig(c), MembersOk, ~CannotCombine, ElectionKeyOk, SetupGroup = Derived,
           DOMAIN c.setup.components = 1..4
    PROVE  /\ Len(c.setup.election) = Len(c.setup.eb)
           /\ \A k \in DOMAIN c.setup.election :
                /\ c.setup.eb[k] \in Nat /\ \A i \in 1..4 : Ccm[i][k] \in Nat
                /\ c.setup.election[k]
                     = (c.setup.eb[k] * Ccm[1][k] * Ccm[2][k] * Ccm[3][k] * Ccm[4][k]) % Derived.p
<1> DEFINE eb == c.setup.eb
           p == Derived.p
           ccm == CombinePublicKeys(Derived, Ccm)
           two == <<eb, ccm>>
<1>1. DOMAIN Ccm = 1..4 /\ \A i \in 1..4 : Ccm[i] = c.setup.components[i].ccm
  BY DEF Ccm
<1>2. Len(Ccm) = 4
  <2>1. Ccm = [i \in 1..4 |-> Ccm[i]]
    BY <1>1 DEF Ccm
  <2> QED BY <2>1, ListedLength
<1>3. \A i \in 1..4 : Len(Ccm[i]) \in Nat /\ DOMAIN Ccm[i] = 1..Len(Ccm[i])
  BY <1>1, EmptyIfNoPlaces DEF IsConfig
<1>4. Len(eb) \in Nat /\ DOMAIN eb = 1..Len(eb)
  BY EmptyIfNoPlaces DEF IsConfig
<1>5. PICK m \in Nat : \A i \in 1..4 : Len(Ccm[i]) = m /\ DOMAIN Ccm[i] = 1..m
  <2>1. \A i, k \in 1..4 : Len(Ccm[i]) = Len(Ccm[k])
    BY <1>1 DEF CannotCombine, Unequal
  <2> QED BY <1>3, <2>1
<1>6. ccm = [k \in 1..m |-> ProductAt(p, Ccm, k)]
  <2>1. Ccm # <<>>
    BY <1>1
  <2> QED BY <1>5, <2>1 DEF CombinePublicKeys
<1>7. Len(ccm) = m /\ \A k \in 1..m : ccm[k] = ProductAt(p, Ccm, k)
  <2> DEFINE f == [k \in 1..m |-> ProductAt(p, Ccm, k)]
  <2>1. f = [k \in 1..m |-> f[k]] /\ \A k \in 1..m : f[k] = ProductAt(p, Ccm, k)
    OBVIOUS
  <2>2. ccm = f
    BY <1>6
  <2> HIDE DEF f, ccm
  <2>3. Len(f) = m
    BY <2>1, ListedLength
  <2> QED BY <2>1, <2>2, <2>3
<1>8. Len(eb) = m
  <2>1. ~Unequal(two)
    BY DEF CannotCombine
  <2> HIDE DEF ccm, eb
  <2>2. DOMAIN two = 1..2 /\ two[1] = eb /\ two[2] = ccm
    OBVIOUS
  <2> HIDE DEF two
  <2> QED BY <1>7, <2>1, <2>2 DEF Unequal
<1>9. c.setup.election = [k \in 1..m |-> ProductAt(p, two, k)]
  <2>1. c.setup.election = CombinePublicKeys(Derived, two)
    BY DEF ElectionKeyOk
  <2> HIDE DEF ccm, eb
  <2>2. two # <<>> /\ two[1] = eb
    OBVIOUS
  <2> HIDE DEF two
  <2> QED BY <1>4, <1>8, <2>1, <2>2 DEF CombinePublicKeys
<1>10. Len(c.setup.election) = m /\ DOMAIN c.setup.election = 1..m
       /\ \A k \in 1..m : c.setup.election[k] = ProductAt(p, two, k)
  <2> DEFINE f == [k \in 1..m |-> ProductAt(p, two, k)]
  <2>1. f = [k \in 1..m |-> f[k]] /\ \A k \in 1..m : f[k] = ProductAt(p, two, k)
    OBVIOUS
  <2>2. c.setup.election = f
    BY <1>9
  <2> HIDE DEF f, two
  <2>3. Len(f) = m /\ DOMAIN f = 1..m
    BY <2>1, ListedLength
  <2> QED BY <2>1, <2>2, <2>3
<1>11. ASSUME NEW k \in 1..m
       PROVE  /\ eb[k] \in Nat /\ \A i \in 1..4 : Ccm[i][k] \in Nat
              /\ ProductAt(p, two, k)
                   = (eb[k] * Ccm[1][k] * Ccm[2][k] * Ccm[3][k] * Ccm[4][k]) % p
  <2>1. eb[k] \in SetupKeys /\ \A i \in 1..4 : Ccm[i][k] \in SetupKeys
    BY <1>4, <1>5, <1>8 DEF SetupKeys, ToSet
  <2>2. eb[k] \in Nat /\ p \in Nat \ {0} /\ \A i \in 1..4 : Ccm[i][k] \in Nat
    BY <2>1, MembersNatural DEF MembersOk
  <2>3. ccm[k] = (Ccm[1][k] * Ccm[2][k] * Ccm[3][k] * Ccm[4][k]) % p
    BY <1>2, <1>7, <2>2, ProductOfFour
  <2> HIDE DEF eb, ccm, p
  <2>4. ProductAt(p, two, k) = Times(p, Times(p, 1, eb[k]), ccm[k])
    <3>1. Len(two) = 2 /\ two[1][k] = eb[k] /\ two[2][k] = ccm[k]
      OBVIOUS
    <3> HIDE DEF two
    <3> QED BY <2>2, <3>1, ProductOfTwo
  <2>5. PICK t \in Nat, u \in Nat, x \in Nat, y \in Nat, z \in Nat :
          /\ t = eb[k] /\ u = Ccm[1][k] /\ x = Ccm[2][k] /\ y = Ccm[3][k] /\ z = Ccm[4][k]
    <3>1. /\ Ccm[1][k] \in Nat /\ Ccm[2][k] \in Nat /\ Ccm[3][k] \in Nat /\ Ccm[4][k] \in Nat
      BY <2>2
    <3> QED BY <2>2, <3>1, Zenon
  <2>6. PICK v \in Nat : v = u * x * y
    <3>1. u * x \in Nat
      OBVIOUS
    <3>2. (u * x) * y \in Nat
      BY <3>1
    <3> QED BY <3>2
  <2>7. ccm[k] = Times(p, v, z) /\ Times(p, v, z) \in Nat
    BY <2>2, <2>3, <2>5, <2>6, TimesOfProduct DEF Times
  <2>8. Times(p, Times(p, 1, t), ccm[k]) = (1 * t * ccm[k]) % p
    BY <2>2, <2>7, TimesOfProduct
  <2>9. Times(p, t, ccm[k]) = (t * v * z) % p
    BY <2>2, <2>7, TimesOfProduct
  <2>10. 1 * t * ccm[k] = t * ccm[k] /\ t * v * z = t * u * x * y * z
    BY <2>6, <2>7
  <2>11. ProductAt(p, two, k) = (t * u * x * y * z) % p
    BY <2>4, <2>5, <2>8, <2>9, <2>10 DEF Times
  <2> QED BY <2>2, <2>5, <2>11
<1> QED BY <1>8, <1>10, <1>11

(* The election key of an accepted setup is the product of the keys that   *)
(* the four control components published and the board's, in the group of  *)
(* the seed, and all of them are elements of it (3.01, 3.02, 3.09, 3.12,   *)
(* C.01, 5.01).                                                            *)
THEOREM ElectionKeyOfPublished == Spec => []KeysGenuine
<1>1. ConfigInv => KeysGenuine
  <2> SUFFICES ASSUME ConfigInv, Accepted, c.online # <<>>, SetupNodesDiffer
               PROVE  KeysGenuine
    BY DEF KeysGenuine, SetupNodesDiffer
  <2>1. IsConfig(c)
    BY ConfigsAssumption DEF ConfigInv
  <2>2. /\ AllEqual(c.groups) /\ NodeIdsOk /\ CcmKeysOk /\ ElectionKeyOk /\ MembersOk
        /\ ~CannotCombine /\ ParametersOk
    BY AcceptedFound
  <2>3. SameNodes /\ IsListed(c.online)
    BY <2>1, <2>2 DEF CcmKeysOk, SameField, IsConfig
  <2>4. SetupGroup = Derived
    <3>1. 2 \in DOMAIN c.groups
      BY <2>1, EmptyIfNoPlaces DEF IsConfig
    <3> QED BY <2>2, <3>1 DEF AllEqual, ParametersOk, ContextGroup, SetupGroup
  <2>5. {c.online[i].node : i \in DOMAIN c.online} = 1..4 /\ Len(c.online) = 4
    BY <2>2, <2>3, FourNodes
  <2>6. {c.setup.components[k].node : k \in DOMAIN c.setup.components} = 1..4
    <3>1. Nodes(c.online) = 1..4
      <4>1. Nodes(c.online) = 1..4 \ {NoNode}
        BY <2>5, Zenon DEF Nodes
      <4> QED BY <4>1 DEF NoNode
    <3>2. \A k \in DOMAIN c.setup.components : c.setup.components[k].node # NoNode
      BY <2>1 DEF IsConfig
    <3> QED BY <2>3, <3>1, <3>2 DEF SameNodes, Nodes
  <2>7. \A k \in DOMAIN c.setup.components : Ccm[k] = PublishedCcm(c.setup.components[k].node)
    BY <2>1, <2>2, PublishedOfSetup DEF Ccm
  <2>8. DOMAIN c.setup.components = 1..4
    <3> DEFINE ids == [i \in DOMAIN c.setup.components |-> c.setup.components[i].node]
    <3>1. PICK n \in Nat : DOMAIN c.setup.components = 1..n
      BY <2>1, EmptyIfNoPlaces DEF IsConfig
    <3>2. DOMAIN ids = 1..n /\ ~Duplicated(ids) /\ ToSet(ids) = 1..4
      BY <2>6, <3>1 DEF ToSet, SetupNodesDiffer
    <3> HIDE DEF ids
    <3>3. n = 4
      BY <3>2, FourPlaces
    <3> QED BY <3>1, <3>3
  <2>9. ASSUME NEW i \in DOMAIN c.online,
               NEW key \in ToSet(c.online[i].ccm) \cup ToSet(c.setup.eb)
        PROVE  GroupMember(Derived, key)
    <3>1. PICK k \in DOMAIN c.setup.components : c.setup.components[k].node = c.online[i].node
      BY <2>5, <2>6
    <3>2. PICK j \in DOMAIN c.online : /\ c.online[j].node = c.setup.components[k].node
                                      /\ c.online[j].ccm = c.setup.components[k].ccm
      BY <2>1, <2>2, PublishedOfSetup
    <3>3. j = i
      <4>1. PICK n \in Nat : DOMAIN c.online = 1..n
        BY <2>3, EmptyIfNoPlaces
      <4>2. ~(i < j) /\ ~(j < i)
        BY <2>3, <3>1, <3>2 DEF SameNodes, Duplicated
      <4> QED BY <4>1, <4>2
    <3>4. key \in ToSet(Ccm[k]) \cup ToSet(c.setup.eb)
      BY <3>2, <3>3 DEF Ccm
    <3>5. key \in SetupKeys
      BY <3>4 DEF SetupKeys
    <3> QED BY <2>2, <2>4, <3>5 DEF MembersOk
  <2>10. Len(c.setup.election) = Len(c.setup.eb)
    BY <2>1, <2>2, <2>4, <2>8, ElectionKeyAt
  <2>11. ASSUME NEW k \in DOMAIN c.setup.election
         PROVE  c.setup.election[k]
                  = Times(Derived.p, Times(Derived.p, Times(Derived.p, Times(Derived.p, c.setup.eb[k],
                      PublishedCcm(1)[k]), PublishedCcm(2)[k]), PublishedCcm(3)[k]), PublishedCcm(4)[k])
    <3> DEFINE p == Derived.p
               v == [node \in 1..4 |-> PublishedCcm(node)[k]]
               at(i) == c.setup.components[i].node
    <3>1. /\ c.setup.eb[k] \in Nat /\ \A i \in 1..4 : Ccm[i][k] \in Nat
          /\ c.setup.election[k]
               = (c.setup.eb[k] * Ccm[1][k] * Ccm[2][k] * Ccm[3][k] * Ccm[4][k]) % p
      BY <2>1, <2>2, <2>4, <2>8, ElectionKeyAt
    <3>2. p \in Nat \ {0}
      BY DerivedAssumption DEF IsGroup
    <3>3. \A i \in 1..4 : at(i) \in 1..4 /\ Ccm[i][k] = v[at(i)]
      BY <2>6, <2>7, <2>8
    <3>4. \A i, j \in 1..4 : at(i) = at(j) => i = j
      <4> DEFINE ids == [i \in DOMAIN c.setup.components |-> c.setup.components[i].node]
      <4>1. DOMAIN ids = 1..4 /\ ~Duplicated(ids) /\ \A i \in 1..4 : ids[i] = at(i)
        BY <2>8 DEF SetupNodesDiffer
      <4> HIDE DEF ids, at
      <4> QED BY <4>1, Undoubled
    <3>5. \A node \in 1..4 : \E i \in 1..4 : at(i) = node
      BY <2>6, <2>8
    <3>6. v \in [1..4 -> Nat]
      <4>1. \A node \in 1..4 : v[node] \in Nat
        <5> SUFFICES ASSUME NEW node \in 1..4 PROVE v[node] \in Nat
          OBVIOUS
        <5>1. PICK i \in 1..4 : at(i) = node
          BY <3>5
        <5> HIDE DEF v, at
        <5> QED BY <3>1, <3>3, <5>1
      <4> QED BY <4>1
    <3>7. v[1] = PublishedCcm(1)[k] /\ v[2] = PublishedCcm(2)[k] /\ v[3] = PublishedCcm(3)[k]
          /\ v[4] = PublishedCcm(4)[k]
      OBVIOUS
    <3> HIDE DEF v, at, p
    <3>8. PICK h \in 1..4, i \in 1..4, j \in 1..4, l \in 1..4 :
            /\ at(1) = h /\ at(2) = i /\ at(3) = j /\ at(4) = l
            /\ h # i /\ h # j /\ h # l /\ i # j /\ i # l /\ j # l
      <4>1. at(1) \in 1..4 /\ at(2) \in 1..4 /\ at(3) \in 1..4 /\ at(4) \in 1..4
        BY <3>3
      <4>2. /\ at(1) # at(2) /\ at(1) # at(3) /\ at(1) # at(4) /\ at(2) # at(3)
            /\ at(2) # at(4) /\ at(3) # at(4)
        BY <3>4
      <4> QED BY <4>1, <4>2
    <3>9. v[h] * v[i] * v[j] * v[l] = v[1] * v[2] * v[3] * v[4]
      <4>1. h # i /\ h # j /\ h # l /\ i # j /\ i # l /\ j # l
        BY <3>8
      <4> QED BY <3>6, <4>1, Permuted, Zenon
    <3>10. PICK t \in Nat, u \in Nat, x \in Nat, y \in Nat, z \in Nat :
             t = c.setup.eb[k] /\ u = v[1] /\ x = v[2] /\ y = v[3] /\ z = v[4]
      <4>1. v[1] \in Nat /\ v[2] \in Nat /\ v[3] \in Nat /\ v[4] \in Nat
        BY <3>6
      <4> QED BY <3>1, <4>1, Zenon
    <3>11. PICK m \in Nat, n \in Nat, o \in Nat, q \in Nat :
             m = v[h] /\ n = v[i] /\ o = v[j] /\ q = v[l]
      BY <3>6
    <3>12. c.setup.election[k] = (t * m * n * o * q) % p
      BY <3>1, <3>3, <3>8, <3>10, <3>11
    <3>13. t * m * n * o * q = t * (m * n * o * q) /\ t * u * x * y * z = t * (u * x * y * z)
      OBVIOUS
    <3>14. c.setup.election[k] = (t * u * x * y * z) % p
      BY <3>9, <3>10, <3>11, <3>12, <3>13
    <3>15. c.setup.election[k] = Times(p, Times(p, Times(p, Times(p, t, u), x), y), z)
      BY <3>2, <3>14, FiveTimes
    <3> QED BY <3>7, <3>10, <3>15 DEF p
  <2> QED BY <2>5, <2>9, <2>10, <2>11 DEF KeysGenuine
<1> QED BY <1>1, ConfigInvariant, PTL

-----------------------------------------------------------------------------
(* The tables.                                                             *)

(* The list of small primes that 5.02 compares with is one of different    *)
(* primes in ascending order.                                              *)
LEMMA SmallPrimesAscend ==
    ASSUME IsConfig(c), SmallPrimesOk, ParametersOk
    PROVE  /\ DifferentPrimes(c.primes) /\ DOMAIN c.primes = 1..Len(c.primes)
           /\ \A i, j \in 1..Len(c.primes) : i < j => c.primes[i] <= c.primes[j]
<1> DEFINE M == {n \in 5..(Derived.p - 1) : n % 2 = 1 /\ IsPrime(n) /\ GroupMember(Derived, n)}
           A == Ascending(M)
           l == Len(c.primes)
<1>1. c.primes \in Seq(Nat) /\ l \in Nat /\ DOMAIN c.primes = 1..l
  BY LenProperties DEF IsConfig
<1>2. M \subseteq Nat /\ IsFiniteSet(M)
  <2>1. PICK n \in Nat : n = Derived.p
    BY DerivedAssumption DEF IsGroup
  <2>2. IsFiniteSet(5..(n - 1))
    <3>1. \A b \in Int : IsFiniteSet(5..b)
      BY FS_Interval
    <3> QED BY <3>1
  <2>3. M \in SUBSET (5..(n - 1)) /\ 5..(n - 1) \subseteq Nat
    BY <2>1
  <2> HIDE DEF M
  <2> QED BY <2>2, <2>3, FS_Subset
<1>3. \A n \in M : IsPrime(n) /\ n > 0
  OBVIOUS
<1>4. c.primes = SubSeq(A, 1, l) /\ ~(Cardinality(M) < l)
  <2>1. /\ SmallPrimeGroupMembers(Derived, l) # <<>>
        /\ c.primes = SmallPrimeGroupMembers(Derived, l)
    BY Zenon DEF SmallPrimesOk, ParametersOk
  <2> DEFINE Few == Cardinality(M) < l
             In == PrimeCounts
  <2>3. SmallPrimeGroupMembers(Derived, l)
          = IF Derived.g \notin {2, 3} \/ l \notin In \/ Few THEN <<>> ELSE SubSeq(A, 1, l)
    BY Zenon DEF SmallPrimeGroupMembers
  <2> HIDE DEF M, A, l, Few, In
  <2>4. ~Few /\ c.primes = SubSeq(A, 1, l)
    BY <2>1, <2>3
  <2> QED BY <2>4, Zenon DEF Few
<1> HIDE DEF M
<1>5. /\ Cardinality(M) \in Nat
      /\ A \in Bijection(1..Cardinality(M), M)
      /\ \A i \in 1..Cardinality(M) : Cardinality({k \in M : k < A[i]}) = i - 1
  BY <1>2, AscendingLists
<1>6. /\ A \in [1..Cardinality(M) -> M]
      /\ \A i, j \in 1..Cardinality(M) : A[i] = A[j] => i = j
  BY <1>5, Fun_BijectionProperties
<1>7. 1..l \subseteq 1..Cardinality(M)
  BY <1>1, <1>4, <1>5
<1>8. \A i \in 1..l : c.primes[i] = A[i] /\ A[i] \in M
  <2> HIDE DEF A, l
  <2>1. \A i \in 1..l : A[i] \in M
    BY <1>6, <1>7
  <2>2. \A i \in 1..l - 1 + 1 : SubSeq(A, 1, l)[i] = A[1 + i - 1]
    BY <1>1, <2>1, SubSeqProperties
  <2> QED BY <1>1, <1>4, <2>1, <2>2
<1>9. ASSUME NEW i \in 1..l, NEW j \in 1..l, i < j
      PROVE  A[i] <= A[j]
  <2>1. i \in 1..Cardinality(M) /\ j \in 1..Cardinality(M) /\ A[i] \in M /\ A[j] \in M
        /\ A[i] \in Nat /\ A[j] \in Nat
    BY <1>2, <1>7, <1>8
  <2>2. ~(A[j] < A[i])
    <3> SUFFICES ASSUME A[j] < A[i] PROVE FALSE
      OBVIOUS
    <3>1. Cardinality({k \in M : k < A[j]}) < Cardinality({k \in M : k < A[i]})
      BY <1>2, <2>1, RanksDiffer
    <3> QED BY <1>5, <1>9, <2>1, <3>1
  <2> QED BY <2>1, <2>2
<1>10. Positive(c.primes)
  BY <1>1, <1>2, <1>3, <1>8 DEF Positive
<1>11. DifferentPrimes(c.primes)
  BY <1>3, <1>6, <1>7, <1>8, <1>10 DEF DifferentPrimes
<1> QED BY <1>1, <1>8, <1>9, <1>11

(* Every option of a table has its code among the small primes.            *)
LEMMA CodesAreSmallPrimes ==
    ASSUME IsConfig(c), OptionsArePrefix, DOMAIN c.primes = 1..Len(c.primes),
           NEW entry \in Entries
    PROVE  \E j \in 1..Len(c.primes) : c.primes[j] = entry.enc
<1> DEFINE n == Len(c.contexts)
           lengths == [i \in 1..n |-> Len(c.contexts[i].table)]
           Places == UNION {{i} \X (1..lengths[i]) : i \in 1..n}
           E == {e.enc : e \in Entries}
           f == [x \in Places |-> c.contexts[x[1]].table[x[2]].enc]
           l == Len(c.primes)
<1>1. n \in Nat /\ DOMAIN c.contexts = 1..n
  BY EmptyIfNoPlaces DEF IsConfig
<1>2. \A i \in 1..n : /\ Len(c.contexts[i].table) \in Nat
                      /\ DOMAIN c.contexts[i].table = 1..Len(c.contexts[i].table)
  BY <1>1, EmptyIfNoPlaces DEF IsConfig
<1>3. IsFiniteSet(Places)
  <2>1. lengths \in [1..n -> Nat]
    BY <1>2
  <2> HIDE DEF lengths, n
  <2> QED BY <1>1, <2>1, PairsFinite
<1>4. \A x \in Places : /\ x[1] \in 1..n /\ x[2] \in DOMAIN c.contexts[x[1]].table
  <2> SUFFICES ASSUME NEW x \in Places
               PROVE  x[1] \in 1..n /\ x[2] \in DOMAIN c.contexts[x[1]].table
    OBVIOUS
  <2>1. PICK i \in 1..n : x \in {i} \X (1..lengths[i])
    OBVIOUS
  <2>2. x[1] = i /\ x[2] \in 1..lengths[i] /\ lengths[i] = Len(c.contexts[i].table)
    BY <2>1
  <2> HIDE DEF Places, lengths
  <2> QED BY <1>2, <2>2
<1>5. \A i \in 1..n : \A k \in DOMAIN c.contexts[i].table : <<i, k>> \in Places
  <2> SUFFICES ASSUME NEW i \in 1..n, NEW k \in DOMAIN c.contexts[i].table
               PROVE  <<i, k>> \in Places
    OBVIOUS
  <2>1. k \in 1..lengths[i]
    BY <1>2
  <2> HIDE DEF lengths
  <2> QED BY <2>1
<1>6. \A e \in Entries : \E i \in 1..n : \E k \in DOMAIN c.contexts[i].table :
        e = c.contexts[i].table[k]
  BY <1>1 DEF Entries, ToSet
<1>7. \A i \in 1..n : \A k \in DOMAIN c.contexts[i].table :
        c.contexts[i].table[k] \in Entries /\ c.contexts[i].table[k].enc \in Nat
  BY <1>1 DEF Entries, ToSet, IsConfig
<1> HIDE DEF Places
<1>8. E \subseteq Nat
  BY <1>6, <1>7
<1>9. f \in Surjection(Places, E)
  <2>1. \A x \in Places : f[x] \in E
    BY <1>4, <1>7
  <2>2. \A t \in E : \E x \in Places : f[x] = t
    <3> SUFFICES ASSUME NEW e \in Entries
                 PROVE  \E x \in Places : f[x] = e.enc
      OBVIOUS
    <3>1. PICK i \in 1..n : \E k \in DOMAIN c.contexts[i].table : e = c.contexts[i].table[k]
      BY <1>6
    <3>2. PICK k \in DOMAIN c.contexts[i].table : e = c.contexts[i].table[k]
      BY <3>1
    <3>3. <<i, k>> \in Places
      BY <1>5
    <3>4. f[<<i, k>>] = e.enc
      BY <3>2, <3>3
    <3> QED BY <3>3, <3>4
  <2>3. f \in [Places -> E]
    BY <2>1
  <2> HIDE DEF E, f
  <2> QED BY <2>2, <2>3 DEF Surjection
<1>10. IsFiniteSet(E)
  <2> HIDE DEF E, f
  <2> QED BY <1>3, <1>9, FS_Surjection
<1> DEFINE A == Ascending(E)
<1>11. Cardinality(E) \in Nat /\ A \in Bijection(1..Cardinality(E), E)
  <2> HIDE DEF E
  <2> QED BY <1>8, <1>10, AscendingLists
<1>12. /\ A \in [1..Cardinality(E) -> E]
       /\ \A t \in E : \E i \in 1..Cardinality(E) : A[i] = t
  <2> HIDE DEF E, A
  <2> QED BY <1>11, Fun_BijectionProperties
<1>13. IsPrefix(A, c.primes)
  BY DEF OptionsArePrefix, EncodedOptions
<1>14. Len(A) = Cardinality(E)
  <2> HIDE DEF E, A
  <2>1. A \in Seq(E)
    BY <1>11, <1>12, SeqDef
  <2>2. DOMAIN A = 1..Cardinality(E) /\ DOMAIN A = 1..Len(A) /\ Len(A) \in Nat
    BY <1>12, <2>1, LenProperties
  <2> QED BY <1>11, <2>2
<1>15. entry.enc \in E
  OBVIOUS
<1> HIDE DEF E, A, l
<1>16. PICK i \in 1..Cardinality(E) : A[i] = entry.enc
  BY <1>12, <1>15
<1>17. l \in Nat
  BY LenProperties DEF IsConfig, l
<1> DEFINE m == Cardinality(E)
<1>18. m <= l /\ SubSeq(A, 1, m) = SubSeq(c.primes, 1, m)
  BY <1>13, <1>14 DEF IsPrefix, l
<1> HIDE DEF m
<1>19. m \in Nat /\ i \in 1..m
  BY <1>11, <1>16 DEF m
<1>20. \A k \in 1..m : A[k] \in Nat /\ c.primes[k] \in Nat
  <2>1. \A k \in 1..m : A[k] \in Nat
    BY <1>8, <1>12 DEF m
  <2>2. 1..m \subseteq 1..l
    BY <1>17, <1>18, <1>19
  <2>3. \A k \in 1..l : c.primes[k] \in Nat
    BY ElementOfSeq DEF IsConfig, l
  <2> QED BY <2>1, <2>2, <2>3
<1>21. /\ \A k \in 1..m - 1 + 1 : SubSeq(A, 1, m)[k] = A[1 + k - 1]
       /\ \A k \in 1..m - 1 + 1 : SubSeq(c.primes, 1, m)[k] = c.primes[1 + k - 1]
  BY <1>19, <1>20, SubSeqProperties
<1>22. A[i] = c.primes[i]
  BY <1>18, <1>19, <1>21
<1>23. i \in 1..l
  BY <1>17, <1>18, <1>19
<1> QED BY <1>16, <1>22, <1>23 DEF l

(* A choice of options is a choice of primes, with the same product.       *)
LEMMA ChosenPrimes ==
    ASSUME NEW numbers, Positive(numbers), NEW primes, Positive(primes),
           NEW at \in [1..Len(numbers) -> 1..Len(primes)],
           \A k \in 1..Len(numbers) : primes[at[k]] = numbers[k],
           \A i, k \in 1..Len(numbers) : at[i] = at[k] => i = k,
           NEW S \in SUBSET (1..Len(numbers))
    PROVE  Product(numbers, S) = Product(primes, {at[k] : k \in S})
<1> DEFINE l == Len(numbers)
           At(V) == {at[k] : k \in V}
           Same(V) == Product(numbers, V) = Product(primes, At(V))
           T == {n \in 0..l : \A V \in SUBSET (1..n) : Same(V)}
<1>1. l \in Nat
  BY DEF Positive
<1>2. 0 \in T
  <2>1. Same({})
    <3>1. At({}) = {}
      OBVIOUS
    <3> QED BY <3>1, EmptyProduct
  <2>2. \A V \in SUBSET (1..0) : V = {}
    OBVIOUS
  <2> HIDE DEF Same
  <2>3. \A V \in SUBSET (1..0) : Same(V)
    BY <2>1, <2>2, Zenon
  <2> QED BY <1>1, <2>3
<1>3. ASSUME NEW n \in 1..l, n - 1 \in T, NEW V \in SUBSET (1..n)
      PROVE  Same(V)
  <2>1. CASE n \notin V
    <3>1. V \in SUBSET (1..(n - 1))
      BY <1>1, <2>1
    <3> QED BY <1>3, <3>1
  <2>2. CASE n \in V
    <3> DEFINE W == V \ {n}
    <3>1. W \in SUBSET (1..(n - 1)) /\ W \in SUBSET (1..l) /\ V = W \cup {n} /\ n \notin W
      BY <1>1, <2>2
    <3> HIDE DEF W
    <3>2. Same(W)
      BY <1>3, <3>1
    <3>3. At(V) = At(W) \cup {at[n]} /\ at[n] \notin At(W) /\ at[n] \in 1..Len(primes)
      <4>1. At(V) = At(W) \cup {at[n]}
        BY <3>1
      <4>2. at[n] \notin At(W)
        BY <3>1
      <4> QED BY <4>1, <4>2
    <3>4. Product(numbers, V) = Product(numbers, W) * numbers[n]
      BY <3>1, OneMoreFactor
    <3>5. Product(primes, At(V)) = Product(primes, At(W)) * primes[at[n]]
      <4> HIDE DEF At
      <4> QED BY <3>3, OneMoreFactor
    <3> QED BY <3>2, <3>4, <3>5
  <2> QED BY <2>1, <2>2
<1>4. l \in 0..l /\ 0..l \subseteq T
  <2>1. \A n \in 1..l : n - 1 \in T => n \in T
    <3> HIDE DEF Same
    <3> QED BY <1>1, <1>3
  <2>2. l \in 0..l
    BY <1>1
  <2> HIDE DEF T, l
  <2> QED BY <1>1, <1>2, <2>1, <2>2, UpTo
<1>5. Same(S)
  <2> HIDE DEF Same
  <2> QED BY <1>4
<1> QED BY <1>5

(* As many of the small primes as voters may choose have a product below   *)
(* p when the largest ones have (5.03).                                    *)
LEMMA SelectionBelowP ==
    ASSUME IsConfig(c), SmallPrimesOk, ParametersOk, VotingOptionsOk,
           NEW T \in SUBSET (1..Len(c.primes)), Cardinality(T) <= c.psiMax
    PROVE  Product(c.primes, T) < Derived.p
<1> DEFINE l == Len(c.primes)
           W == LargestPrimes
<1>1. /\ DifferentPrimes(c.primes) /\ DOMAIN c.primes = 1..l /\ l \in Nat
      /\ \A i, j \in 1..l : i < j => c.primes[i] <= c.primes[j]
  BY SmallPrimesAscend DEF DifferentPrimes, Positive
<1>2. c.psiMax \in Nat /\ \A a, b \in Int : IsFiniteSet(a..b)
  BY FS_Interval DEF IsConfig
<1>3. IsFiniteSet(T) /\ Cardinality(T) \in Nat /\ Cardinality(T) <= l
  <2>1. IsFiniteSet(1..l)
    BY <1>1, <1>2
  <2>2. Cardinality(1..l) = l
    BY <1>1, FS_Interval
  <2> QED BY <2>1, <2>2, FS_Subset, FS_CardinalityType
<1>4. /\ W \in SUBSET (1..l)
      /\ \A i \in (1..l) \ W, j \in W : i < j
      /\ Cardinality(T) <= Cardinality(W)
  <2>1. CASE c.psiMax \in 1..l
    <3>1. W = (l - c.psiMax + 1)..l
      BY <2>1 DEF LargestPrimes
    <3>2. Cardinality(W) = c.psiMax
      <4>1. \A a, b \in Int : Cardinality(a..b) = IF a > b THEN 0 ELSE b - a + 1
        BY FS_Interval
      <4>2. l - c.psiMax + 1 \in Int /\ l \in Int /\ ~(l - c.psiMax + 1 > l)
            /\ l - (l - c.psiMax + 1) + 1 = c.psiMax
        BY <1>1, <1>2, <2>1
      <4> HIDE DEF W, l
      <4> QED BY <3>1, <4>1, <4>2
    <3>3. W \in SUBSET (1..l) /\ \A i \in (1..l) \ W, j \in W : i < j
      <4> HIDE DEF l
      <4> QED BY <1>1, <1>2, <2>1, <3>1
    <3> QED BY <3>2, <3>3
  <2>2. CASE c.psiMax \notin 1..l
    <3>1. W = 1..l
      BY <1>1, <2>2 DEF LargestPrimes
    <3>2. Cardinality(W) = l
      BY <1>1, <3>1, FS_Interval
    <3> HIDE DEF W
    <3> QED BY <1>3, <3>1, <3>2
  <2> QED BY <2>1, <2>2
<1>5. Product(c.primes, T) <= Product(c.primes, W)
  <2> HIDE DEF W
  <2> QED BY <1>1, <1>4, LargestProduct DEF DifferentPrimes
<1>6. Product(c.primes, W) < Derived.p
  BY DEF VotingOptionsOk, ParametersOk
<1>7. /\ Product(c.primes, T) \in Nat /\ Product(c.primes, W) \in Nat /\ Derived.p \in Nat
  BY <1>1, ProductPositive, DerivedAssumption DEF DifferentPrimes, IsGroup
<1> HIDE DEF W
<1> QED BY <1>5, <1>6, <1>7

(* The tables of an accepted setup can be decoded: every choice that the   *)
(* event allows has a product below p, and no two of a table have the same *)
(* one (3.13, 5.01, 5.02, 5.03).                                           *)
THEOREM AcceptedTablesDecode == Spec => []TablesDecodable
<1>1. ASSUME ConfigInv, Accepted, NEW i \in DOMAIN c.contexts
      PROVE  LET table == c.contexts[i].table
                 Selections == {S \in SUBSET DOMAIN table : Cardinality(S) <= c.psiMax}
                 Encoded(S) == Product([k \in DOMAIN table |-> table[k].enc], S)
             IN  /\ \A S \in Selections : Encoded(S) < Derived.p
                 /\ \A S, T \in Selections : Encoded(S) = Encoded(T) => S = T
                 /\ \A k, l \in DOMAIN table : table[k].actual = table[l].actual => k = l
  <2> DEFINE table == c.contexts[i].table
             numbers == [k \in DOMAIN table |-> table[k].enc]
             l == Len(c.primes)
  <2>1. IsConfig(c) /\ TablesOk /\ ParametersOk /\ SmallPrimesOk /\ VotingOptionsOk
    BY <1>1, AcceptedFound, ConfigsAssumption DEF ConfigInv
  <2>2. PICK n \in Nat : DOMAIN table = 1..n /\ n = Len(table)
    BY <2>1, EmptyIfNoPlaces DEF IsConfig
  <2>3. Len(numbers) = n /\ DOMAIN numbers = 1..n /\ \A k \in 1..n : numbers[k] = table[k].enc
    <3>1. numbers = [k \in 1..n |-> numbers[k]]
      BY <2>2
    <3>2. \A k \in 1..n : numbers[k] = table[k].enc
      BY <2>2
    <3> HIDE DEF numbers
    <3> QED BY <3>1, <3>2, ListedLength
  <2>4. /\ DifferentPrimes(c.primes) /\ Positive(c.primes) /\ DOMAIN c.primes = 1..l /\ l \in Nat
    BY <2>1, SmallPrimesAscend DEF DifferentPrimes, Positive
  <2>5. \A k \in 1..n : \E j \in 1..l : c.primes[j] = numbers[k]
    <3> SUFFICES ASSUME NEW k \in 1..n PROVE \E j \in 1..l : c.primes[j] = numbers[k]
      OBVIOUS
    <3>1. table[k] \in Entries
      BY <2>2 DEF Entries, ToSet
    <3>2. OptionsArePrefix
      BY <2>1 DEF VotingOptionsOk
    <3>3. \E j \in 1..l : c.primes[j] = table[k].enc
      BY <2>1, <2>4, <3>1, <3>2, CodesAreSmallPrimes
    <3> QED BY <2>3, <3>3
  <2>6. \A k, m \in 1..n : numbers[k] = numbers[m] => k = m
    <3>1. ~Duplicated(numbers)
      BY <2>1 DEF TablesOk
    <3> HIDE DEF numbers
    <3> QED BY <2>3, <3>1, Undoubled
  <2>7. \A k, m \in DOMAIN table : table[k].actual = table[m].actual => k = m
    <3> DEFINE actuals == [k \in DOMAIN table |-> table[k].actual]
    <3>1. ~Duplicated(actuals)
      BY <2>1 DEF TablesOk
    <3>2. DOMAIN actuals = 1..n /\ \A k \in 1..n : actuals[k] = table[k].actual
      BY <2>2
    <3> HIDE DEF actuals, table
    <3> QED BY <2>2, <3>1, <3>2, Undoubled
  <2> HIDE DEF numbers, table, l
  <2> DEFINE at == [k \in 1..n |-> CHOOSE j \in 1..l : c.primes[j] = numbers[k]]
  <2>8. at \in [1..n -> 1..l] /\ \A k \in 1..n : c.primes[at[k]] = numbers[k]
    BY <2>5
  <2> HIDE DEF at
  <2>9. \A k, m \in 1..n : at[k] = at[m] => k = m
    BY <2>6, <2>8
  <2>10. Positive(numbers)
    <3>1. \A k \in 1..n : numbers[k] \in Nat \ {0}
      BY <2>4, <2>8 DEF Positive, l
    <3> QED BY <2>3, <3>1 DEF Positive
  <2> DEFINE Codes(S) == {at[k] : k \in S}
  <2>11. ASSUME NEW S \in SUBSET (1..n), Cardinality(S) <= c.psiMax
         PROVE  /\ Codes(S) \in SUBSET (1..l)
                /\ Product(numbers, S) = Product(c.primes, Codes(S))
                /\ Product(numbers, S) < Derived.p
    <3>1. Codes(S) \in SUBSET (1..l)
      BY <2>8
    <3>2. Product(numbers, S) = Product(c.primes, Codes(S))
      <4>1. at \in [1..Len(numbers) -> 1..Len(c.primes)] /\ S \in SUBSET (1..Len(numbers))
        BY <2>3, <2>8 DEF l
      <4>2. /\ \A k \in 1..Len(numbers) : c.primes[at[k]] = numbers[k]
            /\ \A k, m \in 1..Len(numbers) : at[k] = at[m] => k = m
        BY <2>3, <2>8, <2>9
      <4> QED BY <2>4, <2>10, <4>1, <4>2, ChosenPrimes
    <3>3. IsFiniteSet(S) /\ Cardinality(S) \in Nat
      <4>1. IsFiniteSet(1..n)
        BY FS_Interval
      <4> QED BY <4>1, FS_Subset, FS_CardinalityType
    <3>4. IsFiniteSet(Codes(S)) /\ Cardinality(Codes(S)) <= Cardinality(S)
      <4> DEFINE f == [k \in S |-> at[k]]
      <4>1. f \in Surjection(S, Codes(S))
        BY DEF Surjection
      <4> HIDE DEF f, Codes
      <4> QED BY <3>3, <4>1, FS_Surjection
    <3>5. Cardinality(Codes(S)) <= c.psiMax
      <4>1. Cardinality(Codes(S)) \in Nat /\ c.psiMax \in Nat
        BY <2>1, <3>4, FS_CardinalityType DEF IsConfig
      <4> HIDE DEF Codes
      <4> QED BY <2>11, <3>3, <3>4, <4>1
    <3> HIDE DEF Codes
    <3>6. Product(c.primes, Codes(S)) < Derived.p
      BY <2>1, <3>1, <3>5, SelectionBelowP DEF l
    <3> QED BY <3>1, <3>2, <3>6
  <2>12. ASSUME NEW S \in SUBSET (1..n), Cardinality(S) <= c.psiMax,
                NEW T \in SUBSET (1..n), Cardinality(T) <= c.psiMax,
                Product(numbers, S) = Product(numbers, T)
         PROVE  S = T
    <3>1. Product(c.primes, Codes(S)) = Product(c.primes, Codes(T))
          /\ Codes(S) \in SUBSET (1..l) /\ Codes(T) \in SUBSET (1..l)
      BY <2>11, <2>12
    <3>2. Codes(S) = Codes(T)
      <4> HIDE DEF Codes
      <4>1. Codes(S) \subseteq Codes(T) /\ Codes(T) \subseteq Codes(S)
        BY <2>4, <3>1, FactorIsPlace DEF l
      <4> QED BY <4>1
    <3>3. \A k \in 1..n : (k \in S <=> at[k] \in Codes(S)) /\ (k \in T <=> at[k] \in Codes(T))
      BY <2>9
    <3> HIDE DEF Codes
    <3> QED BY <3>2, <3>3
  <2> QED BY <2>2, <2>7, <2>11, <2>12 DEF numbers, table
<1>2. ConfigInv => TablesDecodable
  BY <1>1 DEF TablesDecodable
<1> QED BY <1>2, ConfigInvariant, PTL

-----------------------------------------------------------------------------
(* Honest setups are accepted.                                             *)

(* When every check finds what it looks for, none fails and none raises.   *)
LEMMA AllFoundAccepted ==
    ASSUME ConfigInv, ~CannotCombine, \A id \in ConfigIds : Found(id)
    PROVE  ReportOk /\ pc # "crashed"
<1>1. ASSUME NEW k \in DOMAIN report
      PROVE  report[k].ok
  <2>1. report[k] \in [id : ConfigIds, ok : BOOLEAN]
    <3>1. report \in Seq([id : ConfigIds, ok : BOOLEAN])
      BY DEF ConfigInv, ConfigEntries
    <3>2. k \in 1..Len(report)
      BY <3>1
    <3> QED BY <3>1, <3>2, ElementOfSeq
  <2>2. report[k].id \in ConfigIds /\ report[k].ok \in BOOLEAN
    BY <2>1
  <2>3. ~Refused(report[k].id)
    BY <2>2 DEF ConfigInv, ReportTruthful
  <2> QED BY <2>2, <2>3 DEF Refused
<1> QED BY <1>1 DEF ReportOk, Failing, ConfigInv

LEMMA PayloadsFound ==
    ASSUME IsConfig(c), HonestPayloads(c)
    PROVE  /\ AllEqual(c.groups) /\ AllEqual(c.events) /\ ParametersOk
           /\ ~c.missing /\ c.badForm = {}
           /\ SetupGroup = Derived /\ ContextGroup = Derived
<1>1. /\ DOMAIN c.groups = 1..Len(c.groups) /\ Len(c.groups) \in Nat /\ Len(c.groups) >= 2
      /\ DOMAIN c.events = 1..Len(c.events) /\ Len(c.events) \in Nat
      /\ (DOMAIN c.events = {} => c.events = <<>>) /\ c.events # <<>>
  BY EmptyIfNoPlaces DEF IsConfig
<1>2. 1 \in DOMAIN c.groups /\ 2 \in DOMAIN c.groups /\ 1 \in DOMAIN c.events
  BY <1>1
<1>3. /\ \A i \in DOMAIN c.groups : c.groups[i] = Derived
      /\ \A i, k \in DOMAIN c.events : c.events[i] = c.events[k]
      /\ ~c.missing /\ c.seedOk /\ c.badForm = {}
  BY DEF HonestPayloads
<1> QED BY <1>2, <1>3 DEF AllEqual, ParametersOk, SetupGroup, ContextGroup

(* Four lists places, of which each of four nodes takes one.               *)
LEMMA FourTaken ==
    ASSUME NEW s, DOMAIN s = 1..4, \A m \in 1..4 : \E i \in 1..4 : s[i] = m
    PROVE  /\ \A i, k \in 1..4 : s[i] = s[k] => i = k
           /\ \A i \in 1..4 : s[i] \in 1..4
<1>0. 1 \in 1..4 /\ 2 \in 1..4 /\ 3 \in 1..4 /\ 4 \in 1..4
  OBVIOUS
<1>4. PICK h \in 1..4 : s[h] = 1
  BY <1>0
<1>5. PICK i \in 1..4 : s[i] = 2
  BY <1>0
<1>6. PICK j \in 1..4 : s[j] = 3
  BY <1>0
<1>7. PICK l \in 1..4 : s[l] = 4
  BY <1>0
<1>1. s[h] = 1 /\ s[i] = 2 /\ s[j] = 3 /\ s[l] = 4
  BY <1>4, <1>5, <1>6, <1>7
<1>2. h # i /\ h # j /\ h # l /\ i # j /\ i # l /\ j # l
  BY <1>1
<1>3. \A k \in 1..4 : k = h \/ k = i \/ k = j \/ k = l
  BY <1>2
<1> QED BY <1>1, <1>3

LEMMA FourDiffer ==
    ASSUME NEW components, IsListed(components), AreFour(components)
    PROVE  /\ DOMAIN components = 1..4
           /\ \A i \in 1..4 : components[i].node \in 1..4
           /\ \A i, k \in 1..4 : components[i].node = components[k].node => i = k
           /\ \A node \in 1..4 : \E i \in 1..4 : components[i].node = node
           /\ ~Duplicated([i \in DOMAIN components |-> components[i].node])
<1> DEFINE ids == [i \in DOMAIN components |-> components[i].node]
<1>1. DOMAIN components = 1..4
  BY EmptyIfNoPlaces DEF AreFour
<1>2. \A node \in 1..4 : \E i \in 1..4 : components[i].node = node
  BY <1>1 DEF AreFour
<1>3. DOMAIN ids = 1..4 /\ \A i \in 1..4 : ids[i] = components[i].node
  BY <1>1
<1> HIDE DEF ids
<1>4. \A m \in 1..4 : \E i \in 1..4 : ids[i] = m
  BY <1>2, <1>3
<1>5. /\ \A i, k \in 1..4 : ids[i] = ids[k] => i = k
      /\ \A i \in 1..4 : ids[i] \in 1..4
  BY <1>3, <1>4, FourTaken
<1>6. ~Duplicated(ids)
  BY <1>3, <1>5 DEF Duplicated
<1> QED BY <1>1, <1>2, <1>3, <1>5, <1>6 DEF ids

(* The component of a node, found in three ways.                           *)
LEMMA FoundByNode ==
    ASSUME NEW components, IsListed(components), AreFour(components), NEW i \in 1..4
    PROVE  /\ ByNode(components, components[i].node) = components[i]
           /\ OfNode(components, components[i].node) = components[i]
<1>1. /\ DOMAIN components = 1..4
      /\ ~Duplicated([k \in DOMAIN components |-> components[k].node])
  BY FourDiffer
<1> DEFINE n == components[i].node
<1>2. components[i].node = n /\ i \in DOMAIN components
  BY <1>1
<1> HIDE DEF n
<1>3. /\ ByNode(components, n) = components[i]
      /\ (CHOOSE k \in DOMAIN components : components[k].node = n) = i
  BY <1>1, <1>2, OnlyOfNode
<1> QED BY <1>3 DEF n, OfNode

(* The control components' own payloads, in any order.                     *)
LEMMA OwnPayloadsFound ==
    ASSUME IsConfig(c), HonestKeys(c)
    PROVE  NodeIdsOk /\ CcrKeysOk /\ CcmKeysOk /\ KeyProofsOk
<1> DEFINE own == c.setup.components
           ids == [i \in DOMAIN c.online |-> c.online[i].node]
           setupIds == [i \in DOMAIN own |-> own[i].node]
<1>1. /\ IsListed(own) /\ AreFour(own) /\ IsListed(c.online)
      /\ c.online = <<>> \/ (/\ AreFour(c.online)
                             /\ \A i \in DOMAIN c.online : \E k \in DOMAIN own : c.online[i] = own[k])
  BY DEF IsConfig, HonestKeys
<1> HIDE DEF own
<1>2. /\ DOMAIN own = 1..4 /\ ~Duplicated(setupIds)
      /\ \A i \in 1..4 : own[i].node \in 1..4
      /\ \A node \in 1..4 : \E i \in 1..4 : own[i].node = node
  BY <1>1, FourDiffer
<1>3. ToSet(setupIds) = 1..4
  BY <1>2 DEF ToSet
<1>4. CASE c.online = <<>>
  <2>1. ids = <<>>
    BY <1>4
  <2>2. NodeIdsOk
    BY <1>2, <1>3, <2>1 DEF NodeIdsOk, own
  <2> QED BY <1>4, <2>2 DEF CcrKeysOk, CcmKeysOk, KeyProofsOk, SameField
<1>5. CASE c.online # <<>>
  <2>1. AreFour(c.online) /\ \A i \in DOMAIN c.online : \E k \in DOMAIN own : c.online[i] = own[k]
    BY <1>1, <1>5
  <2>2. /\ DOMAIN c.online = 1..4 /\ ~Duplicated(ids)
        /\ \A i \in 1..4 : c.online[i].node \in 1..4
        /\ \A node \in 1..4 : \E i \in 1..4 : c.online[i].node = node
    BY <1>1, <2>1, FourDiffer
  <2>3. ToSet(ids) = 1..4 /\ ids # <<>>
    BY <2>2 DEF ToSet
  <2>4. NodeIdsOk
    BY <2>2, <2>3 DEF NodeIdsOk
  <2>5. Nodes(c.online) = 1..4 /\ Nodes(own) = 1..4
    BY <1>2, <2>2 DEF Nodes, NoNode
  <2>6. SameNodes
    BY <2>2, <2>5 DEF SameNodes, NoNode, own
  <2>7. ASSUME NEW node \in 1..4
        PROVE  ByNode(c.online, node) = ByNode(own, node)
    <3>1. PICK i \in 1..4 : c.online[i].node = node
      BY <2>2
    <3>2. PICK k \in 1..4 : c.online[i] = own[k]
      BY <1>2, <2>1, <2>2
    <3>3. ByNode(c.online, c.online[i].node) = c.online[i]
      BY <1>1, <2>1, FoundByNode
    <3>4. ByNode(own, own[k].node) = own[k]
      BY <1>1, FoundByNode
    <3> QED BY <3>1, <3>2, <3>3, <3>4
  <2>8. \A field : SameField(field)
    BY <2>5, <2>6, <2>7 DEF SameField, own
  <2> QED BY <2>4, <2>8 DEF CcrKeysOk, CcmKeysOk, KeyProofsOk
<1> QED BY <1>4, <1>5

(* Numbers that differ by a multiple of p have one remainder.              *)
LEMMA AddedMultiple ==
    ASSUME NEW p \in Nat \ {0}, NEW g \in Nat, NEW h \in Nat, NEW d \in Nat, g = p * d + h
    PROVE  g % p = h % p
<1>1. PICK i \in Nat, r \in Nat : r = g % p /\ g = p * i + r
  BY Division
<1>2. PICK j \in Nat, s \in Nat : s = h % p /\ h = p * j + s
  BY Division
<1>3. r < p /\ s < p
  BY <1>1, <1>2, Division
<1>4. p * i + r = p * (d + j) + s
  <2>1. p * (d + j) = p * d + p * j
    OBVIOUS
  <2> QED BY <1>1, <1>2, <2>1
<1>5. d + j \in Nat
  OBVIOUS
<1>6. r = s
  BY <1>3, <1>4, <1>5, OneRemainder
<1> QED BY <1>1, <1>2, <1>6

(* The product of two elements of the group is one: the root of a product  *)
(* is the product of the roots or its opposite, because p is prime.        *)
LEMMA TimesMember ==
    ASSUME NEW a, NEW b, GroupMember(Derived, a), GroupMember(Derived, b)
    PROVE  GroupMember(Derived, Times(Derived.p, a, b))
<1>1. PICK p \in Nat \ {0}, q \in Nat :
        p = Derived.p /\ q = Derived.q /\ p = 2 * q + 1 /\ IsPrime(p)
  BY DerivedAssumption DEF IsGroup
<1>2. PICK u \in 1..q : a = (u * u) % p
  BY <1>1 DEF GroupMember
<1>3. PICK v \in 1..q : b = (v * v) % p
  BY <1>1 DEF GroupMember
<1>4. u \in Nat \ {0} /\ v \in Nat \ {0} /\ u < p /\ v < p
  BY <1>1
<1>5. PICK x \in Nat, y \in Nat, z \in Nat \ {0} : x = u * u /\ y = v * v /\ z = u * v
  <2>1. u * u \in Nat /\ v * v \in Nat /\ u * v \in Nat \ {0}
    BY <1>4
  <2> QED BY <2>1
<1>6. a \in Nat /\ b \in Nat /\ a = x % p /\ b = y % p
  BY <1>1, <1>2, <1>3, <1>5, Division
<1>7. (a * b) % p = (z * z) % p
  <2>1. (a * b) % p = (x * b) % p
    BY <1>1, <1>6, Reduced
  <2>2. ((y % p) * x) % p = (y * x) % p
    BY Reduced
  <2>3. x * b = b * x /\ y * x = z * z
    BY <1>4, <1>5, <1>6
  <2> QED BY <1>6, <2>1, <2>2, <2>3
<1>8. PICK t \in Nat : t = z % p /\ t < p
  BY Division
<1>9. (z * z) % p = (t * t) % p
  <2>1. (t * z) % p = (z * z) % p
    BY <1>8, Reduced
  <2>2. (t * t) % p = (z * t) % p
    BY <1>8, Reduced
  <2>3. z * t = t * z
    OBVIOUS
  <2> QED BY <2>1, <2>2, <2>3
<1>10. t # 0
  <2> SUFFICES ASSUME t = 0 PROVE FALSE
    OBVIOUS
  <2>1. Divides(p, z)
    BY <1>8, NoRemainder
  <2>2. Divides(p, u * v)
    BY <1>5, <2>1
  <2>3. Divides(p, u) \/ Divides(p, v)
    BY <1>1, <1>4, <2>2, PrimeOfFactor
  <2>4. \A w \in Nat \ {0} : w < p => ~Divides(p, w)
    <3> SUFFICES ASSUME NEW w \in Nat \ {0}, w < p, Divides(p, w) PROVE FALSE
      OBVIOUS
    <3>1. PICK d \in Nat : w = p * d
      BY DEF Divides
    <3>2. d = 0 \/ p * d >= p
      OBVIOUS
    <3>3. p * 0 = 0
      OBVIOUS
    <3> QED BY <3>1, <3>2, <3>3
  <2> QED BY <1>4, <2>3, <2>4
<1>11. \E w \in 1..q : (w * w) % p = (t * t) % p
  <2>1. CASE t <= q
    BY <1>10, <2>1
  <2>2. CASE t > q
    <3>1. PICK w \in 1..q, d \in Nat : w = p - t /\ d = 2 * t - p
      BY <1>1, <1>8, <2>2
    <3>2. t * t = p * d + w * w
      <4>1. t * t = p * (2 * t - p) + (p - t) * (p - t)
        OBVIOUS
      <4> QED BY <3>1, <4>1
    <3>3. PICK g \in Nat, h \in Nat : g = t * t /\ h = w * w
      <4>1. t * t \in Nat /\ w * w \in Nat
        OBVIOUS
      <4> QED BY <4>1
    <3>4. g % p = h % p
      BY <3>2, <3>3, AddedMultiple
    <3> QED BY <3>3, <3>4
  <2> QED BY <2>1, <2>2
<1>12. PICK w \in 1..q : Times(p, a, b) = (w * w) % p
  BY <1>7, <1>9, <1>11 DEF Times
<1> QED BY <1>1, <1>12 DEF GroupMember

LEMMA ThreeTimes ==
    ASSUME NEW p \in Nat \ {0}, NEW u \in Nat, NEW x \in Nat, NEW y \in Nat, NEW z \in Nat
    PROVE  Times(p, Times(p, Times(p, u, x), y), z) = (u * x * y * z) % p
<1>1. PICK m \in Nat : m = u * x
  OBVIOUS
<1>2. Times(p, Times(p, u, x), y) = Times(p, m, y)
  <2>1. Times(p, Times(p, u, x), y) = (u * x * y) % p
    BY TimesOfProduct
  <2>2. u * x * y = m * y
    BY <1>1
  <2> QED BY <2>1, <2>2 DEF Times
<1>3. Times(p, Times(p, m, y), z) = (m * y * z) % p
  BY TimesOfProduct
<1> QED BY <1>1, <1>2, <1>3

(* combine_public_keys of the keys of four components, listed in any       *)
(* order, is the product in the order of the nodes.                        *)
LEMMA CombinedOfFour ==
    ASSUME NEW own, IsListed(own), AreFour(own), NEW keys, Len(keys) = 4, NEW of,
           \A i \in 1..4 : of[own[i].node] = keys[i], NEW k,
           \A i \in 1..4 : GroupMember(Derived, keys[i][k])
    PROVE  /\ ProductAt(Derived.p, keys, k) = Combined(of, k)
           /\ GroupMember(Derived, Combined(of, k))
<1> DEFINE at(i) == own[i].node
           v == [node \in 1..4 |-> of[node][k]]
<1>1. PICK p \in Nat \ {0} : p = Derived.p
  BY DerivedAssumption DEF IsGroup
<1>2. /\ \A i \in 1..4 : at(i) \in 1..4
      /\ \A i, j \in 1..4 : at(i) = at(j) => i = j
      /\ \A node \in 1..4 : \E i \in 1..4 : at(i) = node
  BY FourDiffer
<1>3. \A i \in 1..4 : keys[i][k] \in Nat
  BY MembersNatural
<1>4. \A i \in 1..4 : keys[i][k] = v[at(i)]
  BY <1>2
<1>5. \A node \in 1..4 : v[node] \in Nat /\ GroupMember(Derived, v[node])
  <2> SUFFICES ASSUME NEW node \in 1..4
               PROVE  v[node] \in Nat /\ GroupMember(Derived, v[node])
    OBVIOUS
  <2>1. PICK i \in 1..4 : at(i) = node
    BY <1>2
  <2> HIDE DEF v, at
  <2> QED BY <1>3, <1>4, <2>1
<1>6. v \in [1..4 -> Nat]
  BY <1>5
<1>7. v[1] = of[1][k] /\ v[2] = of[2][k] /\ v[3] = of[3][k] /\ v[4] = of[4][k]
  OBVIOUS
<1> HIDE DEF v, at
<1>8. PICK h \in 1..4, i \in 1..4, j \in 1..4, l \in 1..4 :
        /\ at(1) = h /\ at(2) = i /\ at(3) = j /\ at(4) = l
        /\ h # i /\ h # j /\ h # l /\ i # j /\ i # l /\ j # l
  <2>1. at(1) \in 1..4 /\ at(2) \in 1..4 /\ at(3) \in 1..4 /\ at(4) \in 1..4
    BY <1>2
  <2>2. /\ at(1) # at(2) /\ at(1) # at(3) /\ at(1) # at(4) /\ at(2) # at(3)
        /\ at(2) # at(4) /\ at(3) # at(4)
    BY <1>2
  <2> QED BY <2>1, <2>2
<1>9. v[h] * v[i] * v[j] * v[l] = v[1] * v[2] * v[3] * v[4]
  <2>1. h # i /\ h # j /\ h # l /\ i # j /\ i # l /\ j # l
    BY <1>8
  <2> QED BY <1>6, <2>1, Permuted, Zenon
<1>10. ProductAt(p, keys, k) = (keys[1][k] * keys[2][k] * keys[3][k] * keys[4][k]) % p
  BY <1>3, ProductOfFour
<1>11. PICK m \in Nat, n \in Nat, o \in Nat, q \in Nat :
         m = v[h] /\ n = v[i] /\ o = v[j] /\ q = v[l]
  BY <1>6
<1>12. ProductAt(p, keys, k) = (m * n * o * q) % p
  BY <1>4, <1>8, <1>10, <1>11
<1>13. PICK u \in Nat, x \in Nat, y \in Nat, z \in Nat :
         u = v[1] /\ x = v[2] /\ y = v[3] /\ z = v[4]
  <2>1. v[1] \in Nat /\ v[2] \in Nat /\ v[3] \in Nat /\ v[4] \in Nat
    BY <1>6
  <2> QED BY <2>1, Zenon
<1>14. ProductAt(p, keys, k) = (u * x * y * z) % p
  BY <1>9, <1>11, <1>12, <1>13
<1>15. Combined(of, k) = Times(p, Times(p, Times(p, u, x), y), z)
  BY <1>1, <1>7, <1>13 DEF Combined
<1>16. GroupMember(Derived, Times(p, Times(p, Times(p, u, x), y), z))
  <2>1. /\ GroupMember(Derived, u) /\ GroupMember(Derived, x)
        /\ GroupMember(Derived, y) /\ GroupMember(Derived, z)
    BY <1>5, <1>13
  <2>2. GroupMember(Derived, Times(p, u, x))
    BY <1>1, <2>1, TimesMember
  <2>3. GroupMember(Derived, Times(p, Times(p, u, x), y))
    BY <1>1, <2>1, <2>2, TimesMember
  <2> QED BY <1>1, <2>1, <2>3, TimesMember
<1>17. ProductAt(p, keys, k) = Times(p, Times(p, Times(p, u, x), y), z)
  <2> DEFINE all(a, b, d, e, f) == (b * d * e * f) % a
  <2>1. \A a \in Nat \ {0} : \A b, d, e, f \in Nat :
          Times(a, Times(a, Times(a, b, d), e), f) = all(a, b, d, e, f)
    BY ThreeTimes
  <2>2. all(p, u, x, y, z) = ProductAt(p, keys, k)
    BY <1>14
  <2> HIDE DEF all
  <2> QED BY <2>1, <2>2
<1> QED BY <1>1, <1>15, <1>16, <1>17, Zenon

(* Equally long keys of four components, listed in any order, combine to   *)
(* the products in the order of the nodes.                                 *)
LEMMA KeysCombined ==
    ASSUME NEW own, IsListed(own), AreFour(own), NEW keys, Len(keys) = 4, DOMAIN keys = 1..4,
           NEW of, \A i \in 1..4 : of[own[i].node] = keys[i], NEW m \in Nat,
           \A i \in 1..4 : Len(keys[i]) = m /\ DOMAIN keys[i] = 1..m /\ InGroup(keys[i])
    PROVE  /\ ~Unequal(keys) /\ DOMAIN of[1] = 1..m
           /\ CombinePublicKeys(Derived, keys) = [k \in 1..m |-> Combined(of, k)]
           /\ \A k \in 1..m : GroupMember(Derived, Combined(of, k))
<1>1. ~Unequal(keys)
  BY DEF Unequal
<1>2. DOMAIN of[1] = 1..m
  <2>1. \A node \in 1..4 : \E i \in 1..4 : own[i].node = node
    BY FourDiffer
  <2>2. 1 \in 1..4
    OBVIOUS
  <2>3. PICK i \in 1..4 : own[i].node = 1
    BY <2>1, <2>2
  <2> QED BY <2>3
<1>3. ASSUME NEW k \in 1..m
      PROVE  /\ ProductAt(Derived.p, keys, k) = Combined(of, k)
             /\ GroupMember(Derived, Combined(of, k))
  <2>1. \A i \in 1..4 : GroupMember(Derived, keys[i][k])
    BY DEF InGroup
  <2> QED BY <2>1, CombinedOfFour
<1>4. CombinePublicKeys(Derived, keys) = [k \in 1..m |-> ProductAt(Derived.p, keys, k)]
  <2>1. 1 \in 1..4
    OBVIOUS
  <2>2. DOMAIN keys[1] = 1..m
    BY <2>1
  <2>3. keys # <<>>
    <3> SUFFICES ASSUME keys = <<>> PROVE FALSE
      OBVIOUS
    <3>1. DOMAIN keys = {}
      OBVIOUS
    <3> QED BY <2>1, <3>1
  <2> QED BY <2>2, <2>3 DEF CombinePublicKeys
<1>5. [k \in 1..m |-> ProductAt(Derived.p, keys, k)] = [k \in 1..m |-> Combined(of, k)]
  BY <1>3
<1> QED BY <1>1, <1>2, <1>3, <1>4, <1>5

(* The combined keys are what combine_public_keys computes, in the group,  *)
(* and it does not raise.                                                  *)
LEMMA CombinedKeysFound ==
    ASSUME IsConfig(c), HonestKeys(c), SetupGroup = Derived
    PROVE  /\ ~CannotCombine /\ ChoiceKeyOk /\ ElectionKeyOk
           /\ InGroup(c.setup.choice) /\ InGroup(c.setup.election)
<1> DEFINE own == c.setup.components
           eb == c.setup.eb
           ccr == [node \in 1..4 |-> OfNode(own, node).ccr]
           ccm == [node \in 1..4 |-> OfNode(own, node).ccm]
           p == Derived.p
<1>1. /\ IsListed(own) /\ AreFour(own) /\ IsListed(eb)
      /\ \A i \in DOMAIN own : IsListed(own[i].ccr) /\ IsListed(own[i].ccm)
      /\ \A i, k \in DOMAIN own : Len(own[i].ccr) = Len(own[k].ccr)
      /\ \A i \in DOMAIN own : /\ InGroup(own[i].ccr) /\ InGroup(own[i].ccm)
                               /\ Len(own[i].ccm) = Len(eb)
      /\ InGroup(eb)
      /\ c.setup.choice = [k \in DOMAIN ccr[1] |-> Combined(ccr, k)]
      /\ c.setup.election = [k \in DOMAIN eb |-> Times(p, eb[k], Combined(ccm, k))]
  BY DEF IsConfig, HonestKeys
<1>2. /\ DOMAIN Ccr = 1..4 /\ \A i \in 1..4 : Ccr[i] = own[i].ccr
      /\ DOMAIN Ccm = 1..4 /\ \A i \in 1..4 : Ccm[i] = own[i].ccm
      /\ DOMAIN own = 1..4 /\ \A i \in 1..4 : own[i].node \in 1..4
  <2>1. DOMAIN own = 1..4 /\ \A i \in 1..4 : own[i].node \in 1..4
    BY <1>1, FourDiffer
  <2> QED BY <2>1 DEF Ccr, Ccm
<1>3. Len(Ccr) = 4 /\ Len(Ccm) = 4
  <2>1. Ccr = [i \in 1..4 |-> Ccr[i]] /\ Ccm = [i \in 1..4 |-> Ccm[i]]
    BY <1>2 DEF Ccr, Ccm
  <2> QED BY <2>1, ListedLength
<1> HIDE DEF own, eb, p
<1>4. \A i \in 1..4 : ccr[own[i].node] = Ccr[i] /\ ccm[own[i].node] = Ccm[i]
  <2> SUFFICES ASSUME NEW i \in 1..4
               PROVE  ccr[own[i].node] = Ccr[i] /\ ccm[own[i].node] = Ccm[i]
    OBVIOUS
  <2>1. OfNode(own, own[i].node) = own[i]
    BY <1>1, FoundByNode
  <2> QED BY <1>2, <2>1
<1> HIDE DEF ccr, ccm
<1>5. PICK m \in Nat : m = Len(eb) /\ DOMAIN eb = 1..m
  BY <1>1, EmptyIfNoPlaces
<1>6. \A i \in 1..4 : Len(Ccm[i]) = m /\ DOMAIN Ccm[i] = 1..m /\ InGroup(Ccm[i])
  <2> SUFFICES ASSUME NEW i \in 1..4
               PROVE  Len(Ccm[i]) = m /\ DOMAIN Ccm[i] = 1..m /\ InGroup(Ccm[i])
    OBVIOUS
  <2>1. IsListed(Ccm[i]) /\ Len(Ccm[i]) = m /\ InGroup(Ccm[i])
    BY <1>1, <1>2, <1>5
  <2> QED BY <2>1, EmptyIfNoPlaces
<1>7. PICK n \in Nat : \A i \in 1..4 : Len(Ccr[i]) = n /\ DOMAIN Ccr[i] = 1..n /\ InGroup(Ccr[i])
  <2>1. \A i \in 1..4 : IsListed(Ccr[i]) /\ InGroup(Ccr[i])
    BY <1>1, <1>2
  <2>2. \A i \in 1..4 : Len(Ccr[i]) \in Nat /\ DOMAIN Ccr[i] = 1..Len(Ccr[i])
    BY <2>1, EmptyIfNoPlaces
  <2>3. \A i, k \in 1..4 : Len(Ccr[i]) = Len(Ccr[k])
    BY <1>1, <1>2
  <2> QED BY <2>1, <2>2, <2>3
<1>8. /\ ~Unequal(Ccr) /\ DOMAIN ccr[1] = 1..n
      /\ CombinePublicKeys(Derived, Ccr) = [k \in 1..n |-> Combined(ccr, k)]
      /\ \A k \in 1..n : GroupMember(Derived, Combined(ccr, k))
  BY <1>1, <1>2, <1>3, <1>4, <1>7, KeysCombined
<1>9. ChoiceKeyOk /\ InGroup(c.setup.choice)
  <2>1. c.setup.choice = [k \in 1..n |-> Combined(ccr, k)]
    BY <1>1, <1>8
  <2> QED BY <1>8, <2>1 DEF ChoiceKeyOk, InGroup
<1> DEFINE both == CombinePublicKeys(Derived, Ccm)
           two == <<eb, both>>
<1>10. /\ ~Unequal(Ccm) /\ both = [k \in 1..m |-> Combined(ccm, k)]
       /\ \A k \in 1..m : GroupMember(Derived, Combined(ccm, k))
  <2>1. /\ ~Unequal(Ccm)
        /\ CombinePublicKeys(Derived, Ccm) = [k \in 1..m |-> Combined(ccm, k)]
        /\ \A k \in 1..m : GroupMember(Derived, Combined(ccm, k))
    BY <1>1, <1>2, <1>3, <1>4, <1>5, <1>6, KeysCombined
  <2> QED BY <2>1
<1>11. Len(both) = m /\ \A k \in 1..m : both[k] = Combined(ccm, k)
  <2>1. both = [k \in 1..m |-> both[k]] /\ \A k \in 1..m : both[k] = Combined(ccm, k)
    BY <1>10
  <2> HIDE DEF both
  <2> QED BY <2>1, ListedLength
<1> HIDE DEF both
<1>12. DOMAIN two = 1..2 /\ two[1] = eb /\ two[2] = both /\ Len(two) = 2 /\ two # <<>>
  OBVIOUS
<1> HIDE DEF two
<1>13. ~Unequal(two)
  BY <1>5, <1>11, <1>12 DEF Unequal
<1>14. ~CannotCombine
  BY <1>8, <1>10, <1>13 DEF CannotCombine, two, both, eb
<1>15. \A k \in 1..m : GroupMember(Derived, eb[k])
  BY <1>1, <1>5 DEF InGroup
<1>16. ASSUME NEW k \in 1..m
       PROVE  ProductAt(p, two, k) = Times(p, eb[k], Combined(ccm, k))
  <2>1. PICK e \in Nat, f \in Nat, o \in Nat \ {0} : e = eb[k] /\ f = both[k] /\ o = p
    BY <1>10, <1>11, <1>15, MembersNatural DEF p
  <2>2. ProductAt(o, two, k) = Times(o, Times(o, 1, e), f)
    BY <1>12, <2>1, ProductOfTwo
  <2>3. Times(o, Times(o, 1, e), f) = (1 * e * f) % o
    BY TimesOfProduct
  <2>4. 1 * e * f = e * f
    OBVIOUS
  <2> QED BY <1>11, <2>1, <2>2, <2>3, <2>4 DEF Times
<1>17. CombinePublicKeys(Derived, two) = c.setup.election
  <2>1. CombinePublicKeys(Derived, two) = [k \in 1..m |-> ProductAt(p, two, k)]
    BY <1>5, <1>12 DEF CombinePublicKeys, p
  <2>2. c.setup.election = [k \in 1..m |-> Times(p, eb[k], Combined(ccm, k))]
    BY <1>1, <1>5
  <2> QED BY <1>16, <2>1, <2>2
<1>18. ElectionKeyOk
  BY <1>17 DEF ElectionKeyOk, two, both, eb
<1>19. InGroup(c.setup.election)
  <2>1. \A k \in 1..m : GroupMember(Derived, Times(p, eb[k], Combined(ccm, k)))
    BY <1>10, <1>15, TimesMember DEF p
  <2> QED BY <1>1, <1>5, <2>1 DEF InGroup
<1> QED BY <1>9, <1>14, <1>18, <1>19

(* C.01 and 5.04.                                                          *)
LEMMA SetupKeysFound ==
    ASSUME IsConfig(c), HonestKeys(c), HonestCards(c), SetupGroup = Derived
    PROVE  MembersOk /\ SchnorrProofsOk
<1>1. InGroup(c.setup.choice) /\ InGroup(c.setup.election)
  BY CombinedKeysFound
<1>2. /\ InGroup(c.setup.eb)
      /\ \A i \in DOMAIN c.setup.components :
           InGroup(c.setup.components[i].ccr) /\ InGroup(c.setup.components[i].ccm)
      /\ \A i \in DOMAIN c.tallyData : InGroup(c.tallyData[i].keys)
  BY DEF HonestKeys, HonestCards
<1>3. \A keys : InGroup(keys) => \A key \in ToSet(keys) : GroupMember(Derived, key)
  BY DEF InGroup, ToSet
<1>4. \A key \in SetupKeys : GroupMember(Derived, key)
  <2> SUFFICES ASSUME NEW key \in SetupKeys PROVE GroupMember(Derived, key)
    OBVIOUS
  <2>1. \/ \E i \in DOMAIN c.setup.components :
             \/ key \in ToSet(c.setup.components[i].ccr)
             \/ key \in ToSet(c.setup.components[i].ccm)
        \/ key \in ToSet(c.setup.eb) \/ key \in ToSet(c.setup.election)
        \/ key \in ToSet(c.setup.choice)
        \/ \E i \in DOMAIN c.tallyData : key \in ToSet(c.tallyData[i].keys)
    BY DEF SetupKeys, Ccr, Ccm
  <2> QED BY <1>1, <1>2, <1>3, <2>1
<1>5. SchnorrProofsOk
  <2> SUFFICES ASSUME NEW i \in DOMAIN c.setup.components
               PROVE  LET component == c.setup.components[i]
                      IN  /\ component.ccrProofs
                                = SchnorrProofs(component.ccr, SetupGroup, c.events[1], component.node)
                          /\ \A k \in DOMAIN component.ccr :
                               component.ccr[k] # 1 /\ GroupMember(SetupGroup, component.ccr[k])
    BY DEF SchnorrProofsOk
  <2>1. /\ \A k \in DOMAIN c.setup.components[i].ccr : c.setup.components[i].ccr[k] # 1
        /\ c.setup.components[i].ccrProofs
             = SchnorrProofs(c.setup.components[i].ccr, Derived, c.events[1],
                             c.setup.components[i].node)
    BY DEF HonestKeys
  <2>2. \A k \in DOMAIN c.setup.components[i].ccr : GroupMember(Derived, c.setup.components[i].ccr[k])
    BY <1>2 DEF InGroup
  <2> QED BY <2>1, <2>2
<1> QED BY <1>4, <1>5 DEF MembersOk

(* One payload for each card set, with a card for each voter: 3.05, 3.06,  *)
(* 3.07 and, with the configuration, 3.14.                                 *)
LEMMA CardsFound ==
    ASSUME IsConfig(c), HonestCards(c)
    PROVE  CardSetIdsOk /\ CardSetPathsOk /\ CardIdsOk /\ OnePayloadEach
<1> DEFINE data == c.tallyData
           contexts == c.contexts
<1>1. /\ DOMAIN data = 1..Len(data) /\ Len(data) \in Nat
      /\ DOMAIN contexts = 1..Len(contexts) /\ Len(contexts) \in Nat
      /\ \A i \in DOMAIN data : DOMAIN data[i].cards = 1..Len(data[i].cards)
      /\ \A k \in DOMAIN contexts : contexts[k].vcs # NoPath
  BY EmptyIfNoPlaces DEF IsConfig
<1>2. /\ \A i, k \in DOMAIN contexts : contexts[i].vcs = contexts[k].vcs => i = k
      /\ \A i, k \in DOMAIN data : data[i].vcs = data[k].vcs => i = k
      /\ {data[i].vcs : i \in DOMAIN data} = VcsIds
      /\ \A i \in DOMAIN data, k \in DOMAIN contexts :
           data[i].vcs = contexts[k].vcs => Len(data[i].cards) = contexts[k].eligible
      /\ \/ \A i \in DOMAIN data : data[i].path = NoPath
         \/ \A i \in DOMAIN data : data[i].path = data[i].vcs
  BY DEF HonestCards, VcsIds
<1>3. \A i, k \in DOMAIN data : \A j \in DOMAIN data[i].cards, l \in DOMAIN data[k].cards :
        data[i].cards[j] = data[k].cards[l] => i = k /\ j = l
  BY DEF HonestCards
<1>4. \A i \in DOMAIN data : data[i].vcs \in VcsIds /\ data[i].vcs # NoPath
  <2>1. \A i \in DOMAIN data : data[i].vcs \in VcsIds
    BY <1>2
  <2>2. \A v \in VcsIds : v # NoPath
    BY <1>1 DEF VcsIds
  <2> QED BY <2>1, <2>2
<1>5. CardSetIdsOk
  <2> DEFINE ids == [i \in DOMAIN data |-> data[i].vcs]
  <2>1. ToSet(ids) \subseteq VcsIds
    BY <1>4 DEF ToSet
  <2>2. DOMAIN ids = DOMAIN data /\ \A i \in DOMAIN data : ids[i] = data[i].vcs
    OBVIOUS
  <2>3. ~Duplicated(ids)
    <3> HIDE DEF ids
    <3>1. \A i, k \in DOMAIN ids : ids[i] = ids[k] => i = k
      BY <1>2, <2>2
    <3> QED BY <1>1, <2>2, <3>1 DEF Duplicated
  <2> QED BY <2>1, <2>3 DEF CardSetIdsOk
<1>6. CardSetPathsOk
  <2>1. CASE \A i \in DOMAIN data : data[i].path = NoPath
    BY <2>1 DEF CardSetPathsOk, PathShaped
  <2>2. CASE \A i \in DOMAIN data : data[i].path = data[i].vcs
    <3>1. PathShaped = DOMAIN data
      BY <1>4, <2>2 DEF PathShaped
    <3>2. {data[i].path : i \in DOMAIN data} = {data[i].vcs : i \in DOMAIN data}
      BY <2>2
    <3> QED BY <1>2, <2>2, <3>1, <3>2 DEF CardSetPathsOk
  <2> QED BY <1>2, <2>1, <2>2
<1>7. /\ \A x \in DOMAIN contexts : \E i \in DOMAIN data : data[i].vcs = contexts[x].vcs
      /\ \A i \in DOMAIN data : \E x \in DOMAIN contexts : data[i].vcs = contexts[x].vcs
  <2>1. \A x \in DOMAIN contexts : contexts[x].vcs \in {data[i].vcs : i \in DOMAIN data}
    BY <1>2 DEF VcsIds
  <2>2. \A i \in DOMAIN data : data[i].vcs \in VcsIds
    BY <1>4
  <2> QED BY <2>1, <2>2 DEF VcsIds
<1>8. OnePayloadEach
  <2>1. \A i \in DOMAIN data : \A x \in DOMAIN contexts :
          data[i].vcs = contexts[x].vcs => DOMAIN data[i].cards = 1..contexts[x].eligible
    BY <1>1, <1>2
  <2> QED BY <1>2, <1>7, <2>1 DEF OnePayloadEach
<1>9. ASSUME NEW i \in DOMAIN data
      PROVE  Len(data[i].cards) = ByVcs(data[i].vcs).eligible
  <2>1. PICK x \in DOMAIN contexts : data[i].vcs = contexts[x].vcs
    BY <1>7
  <2>2. ByVcs(data[i].vcs) = contexts[x]
    <3> DEFINE Is(y) == /\ contexts[y].vcs = data[i].vcs
                        /\ \A k \in DOMAIN contexts : contexts[k].vcs = data[i].vcs => k <= y
    <3>1. Is(x)
      BY <1>1, <1>2, <2>1
    <3>2. \A y \in DOMAIN contexts : Is(y) => y = x
      BY <1>2, <2>1
    <3>3. (CHOOSE y \in DOMAIN contexts : Is(y)) = x
      <4> HIDE DEF Is
      <4> QED BY <3>1, <3>2
    <3> QED BY <3>3 DEF ByVcs
  <2> QED BY <1>2, <2>1, <2>2
<1>10. CardIdsOk
  <2>1. \A i, j \in DOMAIN data : \A k \in DOMAIN data[i].cards, l \in DOMAIN data[j].cards :
          data[i].cards[k] = data[j].cards[l] => <<i, k>> = <<j, l>>
    BY <1>3
  <2> QED BY <1>4, <1>9, <2>1 DEF CardIdsOk
<1> QED BY <1>5, <1>6, <1>8, <1>10

LEMMA VotersFound ==
    ASSUME IsConfig(c), HonestCards(c), HonestConfiguration(c)
    PROVE  TotalVotersOk
<1>1. Cardinality(Cards) = Cardinality(Voters)
  BY CardsFound, CardOfVoter
<1>2. Cardinality(Voters) \in Nat
  BY VotersFinite, FS_CardinalityType
<1>3. c.xml.present => c.xml.parses /\ c.xml.total = Cardinality(Cards)
  BY DEF HonestConfiguration, Cards
<1> QED BY <1>1, <1>2, <1>3 DEF TotalVotersOk, NoTotal

(* The tables: 3.13.                                                       *)
LEMMA TablesFound ==
    ASSUME IsConfig(c), HonestTables(c), HonestConfiguration(c)
    PROVE  TablesOk
<1>1. /\ \A one, other \in Entries : one.actual = other.actual \/ one.enc = other.enc => one = other
      /\ \A i \in DOMAIN c.contexts : \A k, l \in DOMAIN c.contexts[i].table :
           c.contexts[i].table[k] = c.contexts[i].table[l] => k = l
  <2>1. \A one, other \in Entries : one.actual = other.actual \/ one.enc = other.enc => one = other
    BY DEF HonestTables, Entries
  <2>2. \A i \in DOMAIN c.contexts : \A k, l \in DOMAIN c.contexts[i].table :
          c.contexts[i].table[k] = c.contexts[i].table[l] => k = l
    BY DEF HonestTables
  <2> QED BY <2>1, <2>2
<1>2. ASSUME NEW i \in DOMAIN c.contexts
      PROVE  LET table == c.contexts[i].table
                 triples == [k \in DOMAIN table |-> <<table[k].actual, table[k].info>>]
             IN  /\ ~Duplicated([k \in DOMAIN table |-> table[k].actual])
                 /\ ~Duplicated([k \in DOMAIN table |-> table[k].enc])
                 /\ c.xml.present => c.xml.parses /\ triples = c.contexts[i].configured
  <2> DEFINE table == c.contexts[i].table
  <2>1. PICK n \in Nat : DOMAIN table = 1..n
    BY EmptyIfNoPlaces DEF IsConfig
  <2>2. \A k \in DOMAIN table : table[k] \in Entries
    BY DEF Entries, ToSet
  <2>3. \A k, l \in DOMAIN table :
          table[k].actual = table[l].actual \/ table[k].enc = table[l].enc => k = l
    BY <1>1, <2>2
  <2>4. c.xml.present =>
          c.xml.parses /\ [k \in DOMAIN table |-> <<table[k].actual, table[k].info>>]
                            = c.contexts[i].configured
    BY DEF HonestConfiguration
  <2> HIDE DEF table
  <2>5. ~Duplicated([k \in DOMAIN table |-> table[k].actual])
    BY <2>1, <2>3 DEF Duplicated
  <2>6. ~Duplicated([k \in DOMAIN table |-> table[k].enc])
    BY <2>1, <2>3 DEF Duplicated
  <2> QED BY <2>4, <2>5, <2>6 DEF table
<1> QED BY <1>1, <1>2 DEF TablesOk

(* A list of numbers of S in ascending order that skips none is the        *)
(* beginning of S in ascending order.                                      *)
Skipless(s, n, S) ==
    /\ \A i \in 1..n : s[i] \in S
    /\ \A i, k \in 1..n : i < k => s[i] < s[k]
    /\ \A i \in 1..n : \A v \in S : v <= s[i] => \E k \in 1..n : s[k] = v

LEMMA AscendingOfList ==
    ASSUME NEW S, S \subseteq Nat, IsFiniteSet(S), NEW n \in Nat, NEW s, Skipless(s, n, S)
    PROVE  /\ n <= Cardinality(S)
           /\ \A i \in 1..n : Ascending(S)[i] = s[i]
<1>0. /\ \A i \in 1..n : s[i] \in S
      /\ \A i, k \in 1..n : i < k => s[i] < s[k]
      /\ \A i \in 1..n : \A v \in S : v <= s[i] => \E k \in 1..n : s[k] = v
  BY DEF Skipless
<1>1. Cardinality(S) \in Nat
  BY FS_CardinalityType
<1>2. \A i, k \in 1..n : s[i] < s[k] => i < k
  <2> SUFFICES ASSUME NEW i \in 1..n, NEW k \in 1..n, s[i] < s[k], ~(i < k)
               PROVE  FALSE
    OBVIOUS
  <2>1. s[i] \in Nat /\ s[k] \in Nat
    BY <1>0
  <2>2. k < i \/ k = i
    OBVIOUS
  <2>3. k < i => s[k] < s[i]
    BY <1>0
  <2> QED BY <2>1, <2>2, <2>3
<1>3. ASSUME NEW i \in 1..n
      PROVE  Cardinality({v \in S : v < s[i]}) = i - 1
  <2> DEFINE B == {v \in S : v < s[i]}
             f == [k \in 1..(i - 1) |-> s[k]]
  <2>1. 1..(i - 1) \subseteq 1..n /\ \A k \in 1..(i - 1) : k \in 1..n /\ k < i
    OBVIOUS
  <2>2. \A k \in 1..(i - 1) : s[k] \in B
    BY <1>0, <2>1
  <2>3. f \in [1..(i - 1) -> B]
    <3> HIDE DEF B
    <3> QED BY <2>2
  <2>4. \A k, l \in 1..(i - 1) : f[k] = f[l] => k = l
    <3> SUFFICES ASSUME NEW k \in 1..(i - 1), NEW l \in 1..(i - 1), f[k] = f[l] PROVE k = l
      OBVIOUS
    <3>1. s[k] = s[l] /\ k \in 1..n /\ l \in 1..n
      BY <2>1
    <3>2. s[k] \in Nat /\ s[l] \in Nat
      BY <1>0, <3>1
    <3>3. (k < l => s[k] < s[l]) /\ (l < k => s[l] < s[k])
      BY <1>0, <3>1
    <3>4. ~(k < l) /\ ~(l < k)
      BY <3>1, <3>2, <3>3
    <3> QED BY <3>4
  <2>5. \A v \in B : \E k \in 1..(i - 1) : f[k] = v
    <3> SUFFICES ASSUME NEW v \in S, v < s[i] PROVE \E k \in 1..(i - 1) : f[k] = v
      OBVIOUS
    <3>1. v \in Nat /\ s[i] \in Nat
      BY <1>0
    <3>2. PICK k \in 1..n : s[k] = v
      BY <1>0, <3>1
    <3>3. k < i
      BY <1>2, <3>2
    <3>4. k \in 1..(i - 1)
      BY <3>3
    <3> QED BY <3>2, <3>4
  <2> HIDE DEF f, B
  <2>6. f \in Bijection(1..(i - 1), B)
    BY <2>3, <2>4, <2>5 DEF Bijection, Injection, IsInjective, Surjection
  <2>7. IsFiniteSet(1..(i - 1)) /\ Cardinality(1..(i - 1)) = i - 1
    <3>1. i - 1 \in Int /\ (1 > i - 1 => i - 1 = 0) /\ (i - 1) - 1 + 1 = i - 1
      OBVIOUS
    <3>2. \A b \in Int : /\ IsFiniteSet(1..b)
                         /\ Cardinality(1..b) = IF 1 > b THEN 0 ELSE b - 1 + 1
      BY FS_Interval
    <3> QED BY <3>1, <3>2
  <2>8. Cardinality(B) = i - 1
    BY <2>6, <2>7, FS_Bijection DEF ExistsBijection
  <2> QED BY <2>8 DEF B
<1>4. n <= Cardinality(S)
  <2>1. CASE n = 0
    BY <1>1, <2>1
  <2>2. CASE n # 0
    <3> DEFINE B == {v \in S : v < s[n]}
    <3>0. n \in 1..n
      BY <2>2
    <3>1. n \in 1..n /\ s[n] \in S /\ s[n] \in Nat
      BY <1>0, <3>0
    <3>2. Cardinality(B) = n - 1
      BY <1>3, <3>1
    <3>3. B \subseteq S \ {s[n]} /\ IsFiniteSet(S \ {s[n]})
      BY <3>1, FS_Subset
    <3>4. Cardinality(S \ {s[n]}) = Cardinality(S) - 1
      BY <3>1, FS_RemoveElement
    <3>5. Cardinality(B) <= Cardinality(S \ {s[n]})
      <4> HIDE DEF B
      <4> QED BY <3>3, FS_Subset
    <3> HIDE DEF B
    <3> QED BY <1>1, <3>2, <3>4, <3>5
  <2> QED BY <2>1, <2>2
<1>5. ASSUME NEW i \in 1..n
      PROVE  Ascending(S)[i] = s[i]
  <2>1. i \in 1..Cardinality(S)
    BY <1>1, <1>4
  <2>2. \A v \in S : \A j \in 1..Cardinality(S) :
          Cardinality({k \in S : k < v}) = j - 1 => Ascending(S)[j] = v
    BY RankTells
  <2>3. s[i] \in S /\ Cardinality({k \in S : k < s[i]}) = i - 1
    BY <1>0, <1>3
  <2> QED BY <2>1, <2>2, <2>3, Zenon
<1> QED BY <1>4, <1>5

(* A list with the beginning of another.                                   *)
LEMMA SameBeginning ==
    ASSUME NEW s, NEW t, NEW n \in Nat, \A i \in 1..n : s[i] \in Nat /\ t[i] = s[i]
    PROVE  /\ SubSeq(s, 1, n) = SubSeq(t, 1, n)
           /\ t \in Seq(Nat) /\ Len(t) = n => SubSeq(s, 1, n) = t
<1> DEFINE u == SubSeq(s, 1, n)
           v == SubSeq(t, 1, n)
<1>1. n - 1 + 1 = n /\ (1 > n => n = 0)
  OBVIOUS
<1>2. /\ u \in Seq(Nat) /\ Len(u) = n
      /\ \A i \in 1..n : u[i] = s[1 + i - 1]
  BY <1>1, SubSeqProperties
<1>3. /\ v \in Seq(Nat) /\ Len(v) = n
      /\ \A i \in 1..n : v[i] = t[1 + i - 1]
  BY <1>1, SubSeqProperties
<1> HIDE DEF u, v
<1>4. \A i \in 1..n : 1 + i - 1 = i
  OBVIOUS
<1>5. \A i \in 1..n : u[i] = s[i] /\ v[i] = t[i]
  BY <1>2, <1>3, <1>4
<1>6. u = v
  BY <1>2, <1>3, <1>5, SeqEqual
<1>7. ASSUME t \in Seq(Nat), Len(t) = n
      PROVE  u = t
  BY <1>2, <1>5, <1>7, SeqEqual
<1> QED BY <1>6, <1>7 DEF u, v

LEMMA CountsPositive ==
    ASSUME NEW n \in PrimeCounts
    PROVE  n \in Nat /\ n > 0
BY DEF PrimeCounts

LEMMA PrimesListed ==
    ASSUME IsConfig(c), HonestPrimes(c)
    PROVE  \E s \in Seq(Nat) :
             /\ s = c.primes /\ Len(s) \in PrimeCounts /\ DOMAIN s = 1..Len(s)
             /\ \A i \in 1..Len(s) : s[i] \in Nat /\ IsCode(s[i])
             /\ \A i, k \in 1..Len(s) : i < k => s[i] < s[k]
             /\ \A i \in 1..Len(s) : \A n \in 5..s[i] : IsCode(n) => \E k \in 1..Len(s) : s[k] = n
<1>1. PICK s \in Seq(Nat) : s = c.primes
  BY DEF IsConfig
<1>2. DOMAIN s = 1..Len(s)
  BY LenProperties
<1>3. \A i \in 1..Len(s) : s[i] \in Nat
  BY <1>2, ElementOfSeq
<1>4. /\ Len(s) \in PrimeCounts
      /\ \A i, k \in DOMAIN s : i < k => s[i] < s[k]
      /\ \A k \in DOMAIN s : /\ IsCode(s[k])
                             /\ \A n \in 5..s[k] : IsCode(n) => \E i \in DOMAIN s : s[i] = n
  BY <1>1, Zenon DEF HonestPrimes
<1>5. /\ \A i, k \in 1..Len(s) : i < k => s[i] < s[k]
      /\ \A i \in 1..Len(s) : IsCode(s[i])
      /\ \A i \in 1..Len(s) : \A n \in 5..s[i] : IsCode(n) => \E k \in 1..Len(s) : s[k] = n
  BY <1>2, <1>4
<1>6. \A i \in 1..Len(s) : s[i] \in Nat /\ IsCode(s[i])
  BY <1>3, <1>5
<1> QED BY <1>1, <1>2, <1>4, <1>5, <1>6, Zenon

(* 5.02: the honest primes are those that are generated.                   *)
LEMMA SmallPrimesFound ==
    ASSUME IsConfig(c), HonestPrimes(c), ContextGroup = Derived
    PROVE  SmallPrimesOk
<1> DEFINE M == {n \in 5..(Derived.p - 1) : n % 2 = 1 /\ IsPrime(n) /\ GroupMember(Derived, n)}
           A == Ascending(M)
<1>1. PICK p \in Nat : p = Derived.p
  BY DerivedAssumption DEF IsGroup
<1>0. PICK s \in Seq(Nat) :
        /\ s = c.primes /\ Len(s) \in PrimeCounts
        /\ \A i \in 1..Len(s) : s[i] \in Nat /\ IsCode(s[i])
        /\ \A i, k \in 1..Len(s) : i < k => s[i] < s[k]
        /\ \A i \in 1..Len(s) : \A n \in 5..s[i] : IsCode(n) => \E k \in 1..Len(s) : s[k] = n
  BY PrimesListed
<1> DEFINE l == Len(s)
<1>2. /\ l \in PrimeCounts /\ l \in Nat /\ l > 0
      /\ \A i \in 1..l : s[i] \in Nat /\ IsCode(s[i])
      /\ \A i, k \in 1..l : i < k => s[i] < s[k]
      /\ \A i \in 1..l : \A n \in 5..s[i] : IsCode(n) => \E k \in 1..l : s[k] = n
  <2>1. l \in Nat /\ l > 0
    BY <1>0, CountsPositive
  <2> QED BY <1>0, <2>1, Zenon
<1>3. \A n : n \in M <=> IsCode(n)
  <2>1. ASSUME NEW n \in 5..(p - 1), IsPrime(n)
        PROVE  n % 2 = 1
    <3>1. n \in Nat /\ 2 \in 2..(n - 1) /\ 2 * 2 <= n
      OBVIOUS
    <3>2. n % 2 # 0
      BY <2>1, <3>1 DEF IsPrime
    <3> QED BY <3>1, <3>2
  <2> QED BY <1>1, <2>1 DEF IsCode
<1>4. M \subseteq Nat /\ IsFiniteSet(M)
  <2>1. IsFiniteSet(5..(p - 1))
    <3>1. \A b \in Int : IsFiniteSet(5..b)
      BY FS_Interval
    <3> QED BY <3>1
  <2>2. M \in SUBSET (5..(p - 1)) /\ 5..(p - 1) \subseteq Nat
    BY <1>1
  <2> HIDE DEF M
  <2> QED BY <2>1, <2>2, FS_Subset
<1> HIDE DEF M, l
<1>5. \A i \in 1..l : \A v \in M : v <= s[i] => \E k \in 1..l : s[k] = v
  <2> SUFFICES ASSUME NEW i \in 1..l, NEW v \in M, v <= s[i]
               PROVE  \E k \in 1..l : s[k] = v
    OBVIOUS
  <2>1. IsCode(v) /\ v \in Nat /\ s[i] \in Nat
    BY <1>2, <1>3, <1>4
  <2>2. v \in 5..s[i]
    BY <1>1, <2>1 DEF IsCode
  <2> QED BY <1>2, <2>1, <2>2
<1>6. l <= Cardinality(M) /\ \A i \in 1..l : A[i] = s[i]
  <2>1. \A i \in 1..l : s[i] \in M
    BY <1>2, <1>3
  <2>2. \A i, k \in 1..l : i < k => s[i] < s[k]
    BY <1>2
  <2>3. Skipless(s, l, M)
    BY <1>5, <2>1, <2>2 DEF Skipless
  <2>4. l \in Nat
    BY <1>2
  <2>5. l <= Cardinality(M) /\ \A i \in 1..l : Ascending(M)[i] = s[i]
    BY <1>4, <2>3, <2>4, AscendingOfList
  <2> QED BY <2>5
<1> HIDE DEF A
<1>7. SubSeq(A, 1, l) = s
  BY <1>2, <1>6, SameBeginning DEF l
<1>8. SmallPrimeGroupMembers(Derived, l) = SubSeq(A, 1, l)
  <2>1. Derived.g \in {2, 3}
    BY DerivedAssumption
  <2>2. ~(Cardinality(M) < l)
    <3>1. Cardinality(M) \in Nat
      BY <1>4, FS_CardinalityType
    <3> QED BY <1>2, <1>6, <3>1
  <2>3. ~(Derived.g \notin {2, 3} \/ l \notin PrimeCounts \/ Cardinality(M) < l)
    BY <1>2, <2>1, <2>2
  <2>4. SmallPrimeGroupMembers(Derived, l)
          = IF Derived.g \notin {2, 3} \/ l \notin PrimeCounts \/ Cardinality(M) < l
            THEN <<>> ELSE SubSeq(A, 1, l)
    BY Zenon DEF SmallPrimeGroupMembers, M, A
  <2> QED BY <2>3, <2>4, Zenon
<1>9. s # <<>>
  BY <1>2 DEF l
<1> QED BY <1>0, <1>7, <1>8, <1>9, Zenon DEF SmallPrimesOk, l

(* 5.03: the options are encoded by the first primes.                      *)
LEMMA OptionsFound ==
    ASSUME IsConfig(c), HonestPrimes(c), HonestTables(c)
    PROVE  OptionsArePrefix
<1> DEFINE E == {entry.enc : entry \in Entries}
<1>0. PICK s \in Seq(Nat) :
        /\ s = c.primes /\ Len(s) \in PrimeCounts
        /\ \A i \in 1..Len(s) : s[i] \in Nat
        /\ \A i, k \in 1..Len(s) : i < k => s[i] < s[k]
  BY PrimesListed
<1> DEFINE l == Len(s)
<1>1. /\ l \in Nat
      /\ \A i \in 1..l : s[i] \in Nat
      /\ \A i, k \in 1..l : i < k => s[i] < s[k]
  BY <1>0
<1>2. PICK n \in 0..l : E = {s[k] : k \in 1..n}
  <2>1. \E n \in 0..Len(c.primes) : E = {c.primes[k] : k \in 1..n}
    BY Zenon DEF HonestTables, Entries
  <2> QED BY <1>0, <2>1
<1> HIDE DEF E, l
<1>3. 1..n \subseteq 1..l /\ n \in Nat /\ n <= l
  BY <1>1
<1>4. E \subseteq Nat /\ \A i \in 1..n : s[i] \in E
  BY <1>1, <1>2, <1>3
<1>5. IsFiniteSet(E) /\ Cardinality(E) <= n
  <2> DEFINE f == [k \in 1..n |-> s[k]]
  <2>1. f \in Surjection(1..n, E)
    BY <1>2 DEF Surjection
  <2>2. IsFiniteSet(1..n) /\ Cardinality(1..n) = n
    BY <1>3, FS_Interval
  <2> HIDE DEF f
  <2> QED BY <2>1, <2>2, FS_Surjection
<1>6. n <= Cardinality(E) /\ \A i \in 1..n : Ascending(E)[i] = s[i]
  <2>1. \A i, k \in 1..n : i < k => s[i] < s[k]
    BY <1>1, <1>3
  <2>2. \A i \in 1..n : \A v \in E : v <= s[i] => \E k \in 1..n : s[k] = v
    BY <1>2
  <2>3. Skipless(s, n, E)
    BY <1>4, <2>1, <2>2 DEF Skipless
  <2> QED BY <1>3, <1>4, <1>5, <2>3, AscendingOfList
<1>7. Cardinality(E) = n
  <2>1. Cardinality(E) \in Nat
    BY <1>5, FS_CardinalityType
  <2> QED BY <1>3, <1>5, <1>6, <2>1
<1> DEFINE A == Ascending(E)
<1>8. Len(A) = n
  <2>1. A \in Bijection(1..n, E)
    BY <1>4, <1>5, <1>7, AscendingLists
  <2> HIDE DEF A
  <2>2. A = [i \in 1..n |-> A[i]]
    BY <2>1 DEF Bijection, Injection
  <2> QED BY <1>3, <2>2, ListedLength
<1>9. \A i \in 1..n : A[i] = s[i] /\ s[i] \in Nat /\ A[i] \in Nat
  BY <1>1, <1>3, <1>6
<1> HIDE DEF A
<1>10. SubSeq(A, 1, n) = SubSeq(s, 1, n)
  BY <1>3, <1>9, SameBeginning
<1> QED BY <1>0, <1>3, <1>8, <1>10 DEF OptionsArePrefix, EncodedOptions, IsPrefix, A, E, l

LEMMA SelectionsFound ==
    ASSUME IsConfig(c), HonestPrimes(c), HonestTables(c), ContextGroup = Derived
    PROVE  VotingOptionsOk
<1> DEFINE l == Len(c.primes)
           W == LargestPrimes
<1>1. l \in Nat /\ DOMAIN c.primes = 1..l
  BY PrimesListed
<1>5. c.psiMax \in Nat /\ c.psiMax > 0
  <2>1. c.psiMax \in Nat
    BY DEF IsConfig
  <2>2. c.psiMax > 0
    BY Zenon DEF HonestPrimes
  <2> QED BY <2>1, <2>2
<1> HIDE DEF l, W
<1>2. \A a, b \in Int : Cardinality(a..b) = IF a > b THEN 0 ELSE b - a + 1
  BY FS_Interval
<1>3. W \in SUBSET (1..l) /\ Cardinality(W) <= c.psiMax
  <2>1. CASE c.psiMax \in 1..l
    <3>1. W = (l - c.psiMax + 1)..l
      BY <2>1 DEF LargestPrimes, W, l
    <3>2. l - c.psiMax + 1 \in Int /\ l \in Int /\ ~(l - c.psiMax + 1 > l)
          /\ l - (l - c.psiMax + 1) + 1 = c.psiMax
      BY <1>1, <1>5, <2>1
    <3>3. Cardinality(W) = c.psiMax
      BY <1>2, <3>1, <3>2
    <3> QED BY <1>1, <1>5, <2>1, <3>1, <3>3
  <2>2. CASE c.psiMax \notin 1..l
    <3>1. W = 1..l
      BY <1>1, <2>2 DEF LargestPrimes, W, l
    <3>2. Cardinality(W) = l
      BY <1>1, <1>2, <3>1
    <3> QED BY <1>1, <1>5, <2>2, <3>1, <3>2
  <2> QED BY <2>1, <2>2
<1>4. Product(c.primes, W) < Derived.p
  <2>1. \A S \in SUBSET DOMAIN c.primes :
          Cardinality(S) <= c.psiMax => Product(c.primes, S) < Derived.p
    BY Zenon DEF HonestPrimes
  <2>2. W \in SUBSET DOMAIN c.primes
    BY <1>1, <1>3
  <2> QED BY <1>3, <2>1, <2>2
<1> QED BY <1>4, OptionsFound DEF VotingOptionsOk, W

(* An honest setup is accepted, with the components' keys and payloads in  *)
(* any order, laid out in directories or not, with or without their own    *)
(* payloads and the configuration: no check fails and none raises.         *)
THEOREM HonestSetupsAccepted == Spec => []HonestConfigAccepted
<1>1. ConfigInv => HonestConfigAccepted
  <2> SUFFICES ASSUME ConfigInv, IsHonest(c) PROVE ReportOk /\ pc # "crashed"
    BY DEF HonestConfigAccepted
  <2>1. IsConfig(c)
    BY ConfigsAssumption DEF ConfigInv
  <2>2. /\ HonestPayloads(c) /\ HonestKeys(c) /\ HonestCards(c)
        /\ HonestPrimes(c) /\ HonestTables(c) /\ HonestConfiguration(c)
    BY DEF IsHonest
  <2>3. /\ AllEqual(c.groups) /\ AllEqual(c.events) /\ ParametersOk
        /\ ~c.missing /\ c.badForm = {}
        /\ SetupGroup = Derived /\ ContextGroup = Derived
    BY <2>1, <2>2, PayloadsFound
  <2>4. NodeIdsOk /\ CcrKeysOk /\ CcmKeysOk /\ KeyProofsOk
    BY <2>1, <2>2, OwnPayloadsFound
  <2>5. ~CannotCombine /\ ChoiceKeyOk /\ ElectionKeyOk
    BY <2>1, <2>2, <2>3, CombinedKeysFound
  <2>6. MembersOk /\ SchnorrProofsOk
    BY <2>1, <2>2, <2>3, SetupKeysFound
  <2>7. CardSetIdsOk /\ CardSetPathsOk /\ CardIdsOk
    BY <2>1, <2>2, CardsFound
  <2>8. TablesOk /\ TotalVotersOk
    BY <2>1, <2>2, TablesFound, VotersFound
  <2>9. SmallPrimesOk /\ VotingOptionsOk
    BY <2>1, <2>2, <2>3, SmallPrimesFound, SelectionsFound
  <2>10. \A id : Found(id)
    BY <2>3, <2>4, <2>5, <2>6, <2>7, <2>8, <2>9 DEF Found
  <2> QED BY <2>5, <2>10, AllFoundAccepted
<1> QED BY <1>1, ConfigInvariant, PTL

=============================================================================
