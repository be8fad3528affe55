------------------------- MODULE VerifyTally_proof --------------------------
(***************************************************************************)
(* The theorems of VerifyTally, for every number N of control components,  *)
(* every set of ballot boxes and every dataset of the declared shape: what *)
(* an accepted tally says of the voting cards, and what an exception says  *)
(* of the report that it keeps from the user.                              *)
(***************************************************************************)
EXTENDS VerifyTally, MixDecChain_proof

USE NAssumption, BoxAssumption, MsgAssumption

-----------------------------------------------------------------------------
(* The report.                                                             *)

TallyIds == CheckIds \cup FormIds \cup {"6.01", "8.05", "8.07", "8.08", "8.09", "8.10", "8.11",
                                         "10.01", "11.01", "11.03"}
TallyEntries == Seq([id : TallyIds, ok : BOOLEAN])

(* One more entry: what has run, what has passed and whether all is well.  *)
LEMMA RecordStep ==
    ASSUME report \in TallyEntries, NEW id \in TallyIds, NEW ok \in BOOLEAN, NEW next,
           Record(id, ok, next)
    PROVE  /\ pc = id /\ pc' = next
           /\ report' \in TallyEntries
           /\ \A x : Ran(x)' <=> Ran(x) \/ x = id
           /\ \A x : Passed(x)' <=> Passed(x) \/ (x = id /\ ok)
           /\ ReportOk' <=> ReportOk /\ ok
<1>1. /\ pc = id /\ pc' = next
      /\ report' = Append(report, Entry(id, ok))
  BY DEF Record
<1> DEFINE n == Len(report)
<1>2. Entry(id, ok) \in [id : TallyIds, ok : BOOLEAN]
  BY DEF Entry
<1>3. report' \in TallyEntries
  BY <1>1, <1>2 DEF TallyEntries
<1>4. /\ n \in Nat /\ DOMAIN report = 1..n /\ DOMAIN report' = 1..(n + 1)
      /\ report'[n + 1].id = id /\ report'[n + 1].ok = ok
      /\ \A k \in 1..n : report'[k] = report[k]
  BY <1>1, <1>2 DEF TallyEntries, Entry
<1>5. \A k : k \in 1..(n + 1) <=> k \in 1..n \/ k = n + 1
  BY <1>4
<1> HIDE DEF n
<1>6. \A x : Ran(x)' <=> Ran(x) \/ x = id
  BY <1>4, <1>5 DEF Ran
<1>7. \A x : Passed(x)' <=> Passed(x) \/ (x = id /\ ok)
  BY <1>4, <1>5 DEF Passed
<1>8. ReportOk' <=> ReportOk /\ ok
  BY <1>4, <1>5 DEF ReportOk, Failing
<1> QED BY <1>1, <1>3, <1>6, <1>7, <1>8

(* An ok report has passed every check it has an entry of.                 *)
LEMMA OkHasPassed ==
    ASSUME ReportOk, NEW x, Ran(x)
    PROVE  Passed(x)
BY DEF ReportOk, Failing, Ran, Passed

-----------------------------------------------------------------------------
(* The invariant: an entry says what its check found, and a check the run  *)
(* has gone past has its entry, unless the report has a failure already.   *)
(* It is what the early return of 6.01 and the exceptions leave of the     *)
(* order of the checks.  The loop of 10.04 is where it is in MixDecChain.  *)

UpToNodeIds == {"6.01", "6.02", "6.03", "6.04", "8.01", "8.02"}
UpToBoxIds == UpToNodeIds \cup {"8.03", "8.04", "8.05"}
UpToSameVotes == UpToBoxIds \cup {"8.06", "8.07", "8.08"}
UpToCounts == UpToSameVotes \cup {"8.09", "8.10", "8.11"}
UpToProofs == UpToCounts \cup {"10.01"}
UpToChain == UpToProofs \cup {"10.03"}
UpToShuffles == UpToChain \cup {"10.04"}
UpToDecryptions == UpToShuffles \cup {"10.02"}
UpToFinals == UpToDecryptions \cup {"11.01", "11.02"}
UpToVotes == UpToFinals \cup {"11.03"}

AllWalked == \A i \in DOMAIN d.shuffles : Walked(i)

EntriesTrue ==
    /\ Passed("8.02") => NodeIdsOk
    /\ Passed("8.05") => BallotBoxIdsOk
    /\ Passed("8.08") => SameVotesOk
    /\ Passed("8.11") => CountsOk
    /\ Passed("10.01") => ProofsOk
    /\ Passed("10.04") => (Judged => AllWalked)
    /\ Passed("10.02") => DecryptionsOk
    /\ Passed("11.02") => FinalsOk
    /\ Passed("11.03") => VotesOk

NoneSkipped ==
    ReportOk /\ pc # "crashed" =>
      /\ pc \notin UpToNodeIds => Ran("8.02")
      /\ pc \notin UpToBoxIds => Ran("8.05")
      /\ pc \notin UpToSameVotes => Ran("8.08")
      /\ pc \notin UpToCounts => Ran("8.11")
      /\ pc \notin UpToProofs => Ran("10.01")
      /\ pc \notin UpToShuffles => Ran("10.04")
      /\ pc \notin UpToDecryptions => Ran("10.02")
      /\ pc \notin UpToFinals => Ran("11.02")
      /\ pc \notin UpToVotes => Ran("11.03")

LoopInPlace ==
    /\ LoopTyped
    /\ pc \in UpToChain => boxes = ShuffleBoxes /\ rest = {}
    /\ pc = "10.04" /\ fails = {} /\ Judged => InLoop

TallyInv ==
    /\ d \in Datasets
    /\ report \in TallyEntries
    /\ EntriesTrue
    /\ NoneSkipped
    /\ LoopInPlace
    /\ CrashExplained

(* The checks judge the dataset, which does not change.                    *)
LEMMA SameFindings ==
    ASSUME d' = d
    PROVE  /\ NodeIdsOk' <=> NodeIdsOk
           /\ BallotBoxIdsOk' <=> BallotBoxIdsOk
           /\ SameVotesOk' <=> SameVotesOk
           /\ CountsOk' <=> CountsOk
           /\ ProofsOk' <=> ProofsOk
           /\ Judged' <=> Judged
           /\ AllWalked' <=> AllWalked
           /\ DecryptionsOk' <=> DecryptionsOk
           /\ FinalsOk' <=> FinalsOk
           /\ VotesOk' <=> VotesOk
           /\ KeysUncombined' <=> KeysUncombined
           /\ ProofsLacking' <=> ProofsLacking
<1>1. NodeIdsOk' <=> NodeIdsOk
  BY DEF NodeIdsOk, ShuffleBoxes
<1>2. BallotBoxIdsOk' <=> BallotBoxIdsOk
  BY DEF BallotBoxIdsOk, BallotBoxes, ShuffleBoxes, FinalBoxes, VotesBoxes, FinalIndices,
         VotesIndices
<1>3. SameVotesOk' <=> SameVotesOk
  BY DEF SameVotesOk, BallotBoxes
<1>4. CountsOk' <=> CountsOk
  BY DEF CountsOk, BallotBoxes, ShuffleBoxes, Confirmed, Shuffled, Expected, ExpectedHat,
         VotesCountOk, FinalCountOk
<1>5. ProofsOk' <=> ProofsOk
  BY DEF ProofsOk, NodeOnePayloads
<1>6. AllWalked' <=> AllWalked
  BY SameJudgement DEF AllWalked
<1>7. VotesOk' <=> VotesOk
  BY DEF VotesOk, FinalIndices, VotesIndices, FinalBoxes, VotesBoxes, Comparable, FinalPayloadOf,
         VotesPayloadOf, ProcessFails, Processed, Readable
<1>8. KeysUncombined' <=> KeysUncombined
  BY DEF KeysUncombined, KeysRaise, MissingKeys
<1>9. ProofsLacking' <=> ProofsLacking
  BY DEF ProofsLacking, FinalBoxes, FinalPayloadOf, FinalIndices
<1> QED
  BY <1>1, <1>2, <1>3, <1>4, <1>5, <1>6, <1>7, <1>8, <1>9, SameJudgement, SameDataset

(* What a failure-free entry of the check id says, as far as the theorems  *)
(* need it, and which checks may come after it.                            *)
Tells(id, ok) ==
    /\ id = "8.02" => ok = NodeIdsOk
    /\ id = "8.05" => ok = BallotBoxIdsOk
    /\ id = "8.08" => ok = SameVotesOk
    /\ id = "8.11" => ok = CountsOk
    /\ id = "10.01" => ok = ProofsOk
    /\ id = "10.04" => (ok /\ Judged => AllWalked)
    /\ id = "10.02" => ok = DecryptionsOk
    /\ id = "11.02" => ok = FinalsOk
    /\ id = "11.03" => ok = VotesOk

Skips(id, next) ==
    \/ id \in UpToNodeIds \ {"8.02"} /\ next \notin UpToNodeIds
    \/ id \in UpToBoxIds \ {"8.05"} /\ next \notin UpToBoxIds
    \/ id \in UpToSameVotes \ {"8.08"} /\ next \notin UpToSameVotes
    \/ id \in UpToCounts \ {"8.11"} /\ next \notin UpToCounts
    \/ id \in UpToProofs \ {"10.01"} /\ next \notin UpToProofs
    \/ id \in UpToShuffles \ {"10.04"} /\ next \notin UpToShuffles
    \/ id \in UpToDecryptions \ {"10.02"} /\ next \notin UpToDecryptions
    \/ id \in UpToFinals \ {"11.02"} /\ next \notin UpToFinals
    \/ id \in UpToVotes \ {"11.03"} /\ next \notin UpToVotes

GoesBack(id, next) == id \notin UpToChain /\ next \in UpToShuffles

LEMMA CheckKeepsInv ==
    ASSUME TallyInv, UNCHANGED <<d, loop>>, NEW id \in TallyIds, NEW ok \in BOOLEAN, NEW next,
           next # "crashed", Record(id, ok, next), Tells(id, ok), ~ok \/ ~Skips(id, next),
           ~GoesBack(id, next)
    PROVE  TallyInv'
<1>1. /\ pc = id /\ pc' = next
      /\ report' \in TallyEntries
      /\ \A x : Ran(x)' <=> Ran(x) \/ x = id
      /\ \A x : Passed(x)' <=> Passed(x) \/ (x = id /\ ok)
      /\ ReportOk' <=> ReportOk /\ ok
  BY RecordStep DEF TallyInv
<1>2. id # "crashed"
  BY DEF TallyIds, CheckIds, FormIds
<1>3. EntriesTrue'
  BY <1>1, SameFindings DEF EntriesTrue, TallyInv, Tells
<1>4. NoneSkipped'
  <2>1. SUFFICES ASSUME ReportOk, ok, ~Skips(id, next),
                        /\ id \notin UpToNodeIds => Ran("8.02")
                        /\ id \notin UpToBoxIds => Ran("8.05")
                        /\ id \notin UpToSameVotes => Ran("8.08")
                        /\ id \notin UpToCounts => Ran("8.11")
                        /\ id \notin UpToProofs => Ran("10.01")
                        /\ id \notin UpToShuffles => Ran("10.04")
                        /\ id \notin UpToDecryptions => Ran("10.02")
                        /\ id \notin UpToFinals => Ran("11.02")
                        /\ id \notin UpToVotes => Ran("11.03")
                 PROVE  NoneSkipped'
    BY <1>1, <1>2 DEF NoneSkipped, TallyInv
  <2> QED BY <1>1, <2>1 DEF NoneSkipped, Skips
<1>5. CrashExplained'
  BY <1>1 DEF CrashExplained
<1>6. LoopInPlace'
  <2>1. LoopTyped' /\ ShuffleBoxes' = ShuffleBoxes
    BY UnchangedStaysTyped, SameDataset DEF TallyInv, LoopInPlace
  <2>2. next \in UpToShuffles => boxes = ShuffleBoxes /\ rest = {}
    BY <1>1 DEF GoesBack, TallyInv, LoopInPlace
  <2>3. next = "10.04" => InLoop'
    <3>1. next = "10.04" => boxes' = ShuffleBoxes /\ rest' = {}
      BY <2>2 DEF loop, UpToShuffles
    <3>2. \A i \in DOMAIN d'.shuffles : d'.shuffles[i].box \in ShuffleBoxes
      BY DEF ShuffleBoxes
    <3> QED BY <3>1, <3>2 DEF InLoop
  <2> QED BY <1>1, <2>1, <2>2, <2>3 DEF LoopInPlace, UpToShuffles, loop
<1> QED BY <1>1, <1>3, <1>4, <1>5, <1>6 DEF TallyInv

(* An exception: the report stays as it is.                                *)
LEMMA CrashKeepsInv ==
    ASSUME TallyInv, UNCHANGED <<d, loop>>, NEW id, Crash(id),
           ~ReportOk \/ d.missing \/ KeysUncombined \/ ProofsLacking
    PROVE  TallyInv'
<1>1. pc' = "crashed" /\ report' = report
  BY DEF Crash
<1>2. EntriesTrue'
  BY <1>1, SameFindings DEF EntriesTrue, TallyInv, Passed
<1>3. NoneSkipped'
  BY <1>1 DEF NoneSkipped
<1>4. CrashExplained'
  BY <1>1, SameFindings DEF CrashExplained, ReportOk, Failing
<1>5. LoopInPlace'
  <2>1. pc' \notin UpToShuffles
    BY <1>1 DEF UpToShuffles, UpToChain, UpToProofs, UpToCounts, UpToSameVotes, UpToBoxIds,
                UpToNodeIds
  <2> QED BY <2>1, UnchangedStaysTyped DEF TallyInv, LoopInPlace, UpToShuffles
<1> QED BY <1>1, <1>2, <1>3, <1>4, <1>5 DEF TallyInv

-----------------------------------------------------------------------------
(* Every step keeps the invariant: the loop of 10.04 adds no entry, the    *)
(* exceptions of 8.09, 10.03 and 11.03 come where 8.05 and 8.11 have found *)
(* their cause, those of 10.04 and 11.02 where keys do not combine or a    *)
(* final payload lacks its proofs.                                         *)

LEMMA WidthsCrashFound ==
    ASSUME WidthsCrash
    PROVE  ~BallotBoxIdsOk
BY DEF WidthsCrash, BallotBoxIdsOk

LEMMA ChainCrashFound ==
    ASSUME ChainCrashes
    PROVE  ~BallotBoxIdsOk
BY DEF ChainCrashes, BallotBoxIdsOk

LEMMA VotesPayloadThere ==
    ASSUME IsTallyDataset(d), NEW b, VotesIndices(b) # {}
    PROVE  \E i \in DOMAIN d.votes : VotesPayloadOf(b) = d.votes[i] /\ d.votes[i].box = b
<1>1. DOMAIN d.votes = 1..Len(d.votes) /\ Len(d.votes) \in Nat
  BY DEF IsTallyDataset
<1>2. VotesIndices(b) \subseteq 1..Len(d.votes)
  BY <1>1 DEF VotesIndices
<1>3. \E m \in VotesIndices(b) : \A k \in VotesIndices(b) : k <= m
  BY <1>1, <1>2, GreatestIndex
<1> DEFINE m == CHOOSE i \in VotesIndices(b) : \A k \in VotesIndices(b) : k <= i
<1>4. m \in VotesIndices(b)
  BY <1>3
<1>5. VotesPayloadOf(b) = d.votes[m]
  BY DEF VotesPayloadOf
<1> QED BY <1>1, <1>2, <1>4, <1>5 DEF VotesIndices

LEMMA VotesCrashFound ==
    ASSUME IsTallyDataset(d), VotesCrash
    PROVE  ~CountsOk
<1>1. PICK b \in VotesBoxes : ~VotesPayloadOf(b).wf
  BY DEF VotesCrash
<1>2. VotesIndices(b) # {}
  BY DEF VotesBoxes, VotesIndices
<1>3. PICK i \in DOMAIN d.votes : VotesPayloadOf(b) = d.votes[i]
  BY <1>2, VotesPayloadThere
<1> QED BY <1>1, <1>3 DEF CountsOk, VotesCountOk

(* combine_public_keys raises for a payload of the dataset.                *)
LEMMA CombineRaisesFound ==
    ASSUME LoopTyped, CombineRaises
    PROVE  KeysUncombined
<1>1. rest # {} /\ rest \subseteq DOMAIN d.shuffles
  BY DEF CombineRaises, LoopTyped, ShuffleIndices
<1>2. LeastOf(rest) \in DOMAIN d.shuffles
  BY <1>1, LeastOfRest DEF LoopTyped
<1> QED BY <1>2 DEF CombineRaises, KeysUncombined

LEMMA FinalPayloadThere ==
    ASSUME IsTallyDataset(d), NEW b, FinalIndices(b) # {}
    PROVE  \E i \in DOMAIN d.finals : FinalPayloadOf(b) = d.finals[i] /\ d.finals[i].box = b
<1>1. DOMAIN d.finals = 1..Len(d.finals) /\ Len(d.finals) \in Nat
  BY DEF IsTallyDataset, IsDataset
<1>2. FinalIndices(b) \subseteq 1..Len(d.finals)
  BY <1>1 DEF FinalIndices
<1>3. \E m \in FinalIndices(b) : \A k \in FinalIndices(b) : k <= m
  BY <1>1, <1>2, GreatestIndex
<1> DEFINE m == CHOOSE i \in FinalIndices(b) : \A k \in FinalIndices(b) : k <= i
<1>4. m \in FinalIndices(b)
  BY <1>3
<1>5. FinalPayloadOf(b) = d.finals[m]
  BY DEF FinalPayloadOf
<1> QED BY <1>1, <1>2, <1>4, <1>5 DEF FinalIndices

(* 8.11 reads the shuffle and the messages of every final payload.         *)
LEMMA FinalsCrashFound ==
    ASSUME IsTallyDataset(d), FinalsCrash
    PROVE  ~CountsOk \/ ProofsLacking
<1>1. PICK b \in FinalBoxes : FinalPayloadOf(b).lacks \notin {"nothing", "messages"}
  BY DEF FinalsCrash
<1>2. FinalIndices(b) # {}
  BY DEF FinalBoxes, FinalIndices
<1>3. PICK i \in DOMAIN d.finals : FinalPayloadOf(b) = d.finals[i]
  BY <1>2, FinalPayloadThere
<1>4. CountsOk => d.finals[i].lacks \in {"nothing", "proofs"}
  BY DEF CountsOk, FinalCountOk
<1> QED BY <1>1, <1>3, <1>4 DEF ProofsLacking

InOrder(id, next) == ~Skips(id, next) /\ ~GoesBack(id, next)

LEMMA OrderOfChecks ==
    /\ ~GoesBack("6.01", "done")
    /\ InOrder("6.01", "6.02") /\ InOrder("6.02", "6.03") /\ InOrder("6.03", "6.04")
    /\ InOrder("6.04", "8.01") /\ InOrder("8.01", "8.02") /\ InOrder("8.02", "8.03")
    /\ InOrder("8.03", "8.04") /\ InOrder("8.04", "8.05") /\ InOrder("8.05", "8.06")
    /\ InOrder("8.06", "8.07") /\ InOrder("8.07", "8.08") /\ InOrder("8.08", "8.09")
    /\ InOrder("8.09", "8.10") /\ InOrder("8.10", "8.11") /\ InOrder("8.11", "10.01")
    /\ InOrder("10.01", "10.03") /\ InOrder("10.03", "10.04") /\ InOrder("10.04", "10.02")
    /\ InOrder("10.02", "11.01") /\ InOrder("11.01", "11.02") /\ InOrder("11.02", "11.03")
    /\ InOrder("11.03", "11.04") /\ InOrder("11.04", "done")
BY DEF InOrder, GoesBack, Skips, UpToNodeIds, UpToBoxIds, UpToSameVotes, UpToCounts, UpToProofs,
       UpToChain, UpToShuffles, UpToDecryptions, UpToFinals, UpToVotes

LEMMA StepTallyInv ==
    ASSUME TallyInv, [TallyNext]_vars
    PROVE  TallyInv'
<1>1. IsTallyDataset(d)
  BY TallyDatasetsAssumption DEF TallyInv
<1>2. CASE CheckCompleteness
  <2>1. PICK ok \in BOOLEAN : ok = Complete
    BY Zenon DEF Complete
  <2> DEFINE next == IF d.bb = <<>> \/ d.shuffles = <<>> THEN "done" ELSE "6.02"
  <2>2. Record("6.01", ok, next) /\ UNCHANGED <<d, loop>>
    BY <1>2, <2>1, Zenon DEF CheckCompleteness
  <2>3. ok => next = "6.02"
    BY <2>1 DEF Complete
  <2>4. Tells("6.01", ok)
    BY DEF Tells
  <2>5. ~Skips("6.01", "6.02") /\ ~GoesBack("6.01", next)
    BY OrderOfChecks, <2>2 DEF InOrder
  <2>6. next # "crashed" /\ "6.01" \in TallyIds
    BY DEF TallyIds
  <2> HIDE DEF next
  <2> QED BY CheckKeepsInv, <2>2, <2>3, <2>4, <2>5, <2>6
<1>3. ASSUME NEW id \in FormIds, NEW next, CheckForm(id, next), next # "crashed", InOrder(id, next)
      PROVE  TallyInv'
  <2>1. UNCHANGED <<d, loop>> /\ id \in TallyIds
    BY <1>3 DEF CheckForm, TallyIds
  <2>2. CASE d.missing /\ Crash(id)
    BY <2>1, <2>2, CrashKeepsInv
  <2>3. CASE Record(id, FormOk(id), next)
    <3>1. PICK ok \in BOOLEAN : ok = FormOk(id)
      BY Zenon DEF FormOk
    <3>2. Record(id, ok, next)
      BY <2>3, <3>1, Zenon
    <3>3. Tells(id, ok)
      BY DEF Tells, FormIds
    <3> QED BY CheckKeepsInv, <1>3, <2>1, <3>2, <3>3 DEF InOrder
  <2> QED BY <1>3, <2>2, <2>3 DEF CheckForm
<1>4. CASE \/ CheckForm("6.02", "6.03") \/ CheckForm("6.03", "6.04") \/ CheckForm("6.04", "8.01")
           \/ CheckForm("8.01", "8.02") \/ CheckForm("8.03", "8.04") \/ CheckForm("8.04", "8.05")
           \/ CheckForm("8.06", "8.07") \/ CheckForm("11.04", "done")
  BY <1>3, <1>4, OrderOfChecks DEF FormIds
<1>5. CASE CheckNodeIds("8.03")
  <2>1. PICK ok \in BOOLEAN : ok = NodeIdsOk
    BY Zenon DEF NodeIdsOk
  <2>2. Record("8.02", ok, "8.03") /\ UNCHANGED <<d, loop>>
    BY <1>5, <2>1, Zenon DEF CheckNodeIds
  <2> QED BY CheckKeepsInv, OrderOfChecks, <2>1, <2>2 DEF InOrder, Tells, TallyIds, CheckIds
<1>6. CASE CheckBallotBoxIds("8.06")
  <2>1. PICK ok \in BOOLEAN : ok = BallotBoxIdsOk
    BY Zenon DEF BallotBoxIdsOk
  <2>2. Record("8.05", ok, "8.06") /\ UNCHANGED <<d, loop>>
    BY <1>6, <2>1, Zenon DEF CheckBallotBoxIds
  <2> QED BY CheckKeepsInv, OrderOfChecks, <2>1, <2>2 DEF InOrder, Tells, TallyIds
<1>7. CASE CheckCards("8.08")
  <2>1. PICK ok \in BOOLEAN : ok = CardsOk
    BY Zenon DEF CardsOk
  <2>2. Record("8.07", ok, "8.08") /\ UNCHANGED <<d, loop>>
    BY <1>7, <2>1, Zenon DEF CheckCards
  <2> QED BY CheckKeepsInv, OrderOfChecks, <2>2 DEF InOrder, Tells, TallyIds
<1>8. CASE CheckSameVotes("8.09")
  <2>1. PICK ok \in BOOLEAN : ok = SameVotesOk
    BY Zenon DEF SameVotesOk
  <2>2. Record("8.08", ok, "8.09") /\ UNCHANGED <<d, loop>>
    BY <1>8, <2>1, Zenon DEF CheckSameVotes
  <2> QED BY CheckKeepsInv, OrderOfChecks, <2>1, <2>2 DEF InOrder, Tells, TallyIds
<1>9. CASE CheckWidths("8.10")
  <2>1. UNCHANGED <<d, loop>>
    BY <1>9 DEF CheckWidths
  <2>2. CASE WidthsCrash /\ Crash("8.09")
    <3>1. pc = "8.09"
      BY <2>2 DEF Crash
    <3>2. ReportOk => Ran("8.05")
      BY <3>1 DEF TallyInv, NoneSkipped, UpToBoxIds, UpToNodeIds
    <3>3. ~ReportOk
      BY <2>2, <3>2, OkHasPassed, WidthsCrashFound DEF TallyInv, EntriesTrue
    <3> QED BY <2>1, <2>2, <3>3, CrashKeepsInv
  <2>3. CASE Record("8.09", WidthsOk, "8.10")
    <3>1. PICK ok \in BOOLEAN : ok = WidthsOk
      BY Zenon DEF WidthsOk
    <3>2. Record("8.09", ok, "8.10")
      BY <2>3, <3>1, Zenon
    <3> QED BY CheckKeepsInv, OrderOfChecks, <2>1, <3>2 DEF InOrder, Tells, TallyIds
  <2> QED BY <1>9, <2>2, <2>3 DEF CheckWidths
<1>10. CASE CheckPlaintextWidths("8.11")
  <2>1. PICK ok \in BOOLEAN : ok = PlaintextWidthsOk
    BY Zenon DEF PlaintextWidthsOk
  <2>2. Record("8.10", ok, "8.11") /\ UNCHANGED <<d, loop>>
    BY <1>10, <2>1, Zenon DEF CheckPlaintextWidths
  <2> QED BY CheckKeepsInv, OrderOfChecks, <2>2 DEF InOrder, Tells, TallyIds
<1>11. CASE CheckCounts("10.01")
  <2>1. PICK ok \in BOOLEAN : ok = CountsOk
    BY Zenon DEF CountsOk
  <2>2. Record("8.11", ok, "10.01") /\ UNCHANGED <<d, loop>>
    BY <1>11, <2>1, Zenon DEF CheckCounts
  <2> QED BY CheckKeepsInv, OrderOfChecks, <2>1, <2>2 DEF InOrder, Tells, TallyIds
<1>12. CASE CheckProofs("10.03")
  <2>1. PICK ok \in BOOLEAN : ok = ProofsOk
    BY Zenon DEF ProofsOk
  <2>2. Record("10.01", ok, "10.03") /\ UNCHANGED <<d, loop>>
    BY <1>12, <2>1, Zenon DEF CheckProofs
  <2> QED BY CheckKeepsInv, OrderOfChecks, <2>1, <2>2 DEF InOrder, Tells, TallyIds
<1>13. CASE CheckChain("10.04")
  <2>1. UNCHANGED <<d, loop>>
    BY <1>13 DEF CheckChain
  <2>2. CASE ChainCrashes /\ Crash("10.03")
    <3>1. pc = "10.03"
      BY <2>2 DEF Crash
    <3>2. ReportOk => Ran("8.05")
      BY <3>1 DEF TallyInv, NoneSkipped, UpToBoxIds, UpToNodeIds
    <3>3. ~ReportOk
      BY <2>2, <3>2, OkHasPassed, ChainCrashFound DEF TallyInv, EntriesTrue
    <3> QED BY <2>1, <2>2, <3>3, CrashKeepsInv
  <2>3. CASE Record("10.03", ChainOk, "10.04")
    <3>1. PICK ok \in BOOLEAN : ok = ChainOk
      BY Zenon DEF ChainOk
    <3>2. Record("10.03", ok, "10.04")
      BY <2>3, <3>1, Zenon
    <3> QED BY CheckKeepsInv, OrderOfChecks, <2>1, <3>2 DEF InOrder, Tells, TallyIds, CheckIds
  <2> QED BY <1>13, <2>2, <2>3 DEF CheckChain
<1>14. ASSUME UNCHANGED <<d, pc, report>>, LoopInPlace'
       PROVE  TallyInv'
  <2>1. EntriesTrue'
    BY <1>14, SameFindings DEF EntriesTrue, TallyInv, Passed
  <2>2. NoneSkipped'
    BY <1>14 DEF NoneSkipped, TallyInv, ReportOk, Failing, Ran
  <2>3. CrashExplained'
    BY <1>14, SameFindings DEF CrashExplained, TallyInv, ReportOk, Failing
  <2> QED BY <1>14, <2>1, <2>2, <2>3 DEF TallyInv
<1>15. CASE StartBox \/ VerifyPayload
  <2>1. pc = "10.04" /\ UNCHANGED <<d, pc, report>>
    BY <1>15 DEF StartBox, VerifyPayload
  <2>2. LoopTyped /\ LoopTyped'
    BY <1>15, StartBoxStaysTyped, VerifyPayloadStaysTyped DEF TallyInv, LoopInPlace
  <2>3. fails' = {} /\ Judged => InLoop'
    BY <1>15, <2>1, <2>2, StartBoxKeepsLoop, VerifyPayloadKeepsLoop DEF TallyInv, LoopInPlace
  <2>4. Judged' <=> Judged
    BY <2>1, SameJudgement
  <2>5. "10.04" \notin UpToChain
    BY DEF UpToChain, UpToProofs, UpToCounts, UpToSameVotes, UpToBoxIds, UpToNodeIds
  <2>6. LoopInPlace'
    BY <2>1, <2>2, <2>3, <2>4, <2>5 DEF LoopInPlace
  <2> QED BY <1>14, <2>1, <2>6
<1>16. CASE UNCHANGED vars
  <2>1. UNCHANGED <<d, loop, pc, report>>
    BY <1>16 DEF vars, loop
  <2>2. LoopTyped' /\ (Judged' <=> Judged) /\ ShuffleBoxes' = ShuffleBoxes
    BY <2>1, UnchangedStaysTyped, SameJudgement, SameDataset DEF TallyInv, LoopInPlace
  <2>3. InLoop' <=> InLoop
    BY <2>1, SameJudgement, SameDataset DEF InLoop, loop
  <2>4. LoopInPlace'
    BY <2>1, <2>2, <2>3 DEF TallyInv, LoopInPlace, loop
  <2> QED BY <1>14, <2>1, <2>4
<1>17. CASE CheckShuffles("10.02")
  <2>1. PICK ok \in BOOLEAN : ok = (fails = {})
    BY Zenon DEF FormOk
  <2>2. /\ Record("10.04", ok, "10.02") /\ UNCHANGED <<d, loop>>
        /\ pc = "10.04" /\ rest = {} /\ boxes = {}
    BY <1>17, <2>1, Zenon DEF CheckShuffles, Record
  <2>3. ok /\ Judged => AllWalked
    BY <2>1, <2>2 DEF TallyInv, LoopInPlace, InLoop, AllWalked
  <2> QED BY CheckKeepsInv, OrderOfChecks, <2>2, <2>3 DEF InOrder, Tells, TallyIds, CheckIds
<1>18. CASE CheckDecryptions("11.01")
  <2>1. PICK ok \in BOOLEAN : ok = DecryptionsOk
    BY Zenon DEF DecryptionsOk
  <2>2. Record("10.02", ok, "11.01") /\ UNCHANGED <<d, loop>>
    BY <1>18, <2>1, Zenon DEF CheckDecryptions
  <2> QED BY CheckKeepsInv, OrderOfChecks, <2>1, <2>2 DEF InOrder, Tells, TallyIds, CheckIds
<1>19. CASE CheckFinalIds("11.02")
  <2>1. PICK ok \in BOOLEAN : ok = FinalIdsOk
    BY Zenon DEF FinalIdsOk
  <2>2. Record("11.01", ok, "11.02") /\ UNCHANGED <<d, loop>>
    BY <1>19, <2>1, Zenon DEF CheckFinalIds
  <2> QED BY CheckKeepsInv, OrderOfChecks, <2>2 DEF InOrder, Tells, TallyIds
<1>20. CASE CheckFinals("11.03")
  <2>1. UNCHANGED <<d, loop>>
    BY <1>20 DEF CheckFinals
  <2>2. CASE FinalsCrash /\ Crash("11.02")
    <3>1. pc = "11.02"
      BY <2>2 DEF Crash
    <3>2. ReportOk => Ran("8.11")
      BY <3>1 DEF TallyInv, NoneSkipped, UpToCounts, UpToSameVotes, UpToBoxIds, UpToNodeIds
    <3>3. ~ReportOk \/ ProofsLacking
      BY <1>1, <2>2, <3>2, OkHasPassed, FinalsCrashFound DEF TallyInv, EntriesTrue
    <3> QED BY <2>1, <2>2, <3>3, CrashKeepsInv
  <2>3. CASE Record("11.02", FinalsOk, "11.03")
    <3>1. PICK ok \in BOOLEAN : ok = FinalsOk
      BY Zenon DEF FinalsOk
    <3>2. Record("11.02", ok, "11.03")
      BY <2>3, <3>1, Zenon
    <3> QED BY CheckKeepsInv, OrderOfChecks, <2>1, <3>1, <3>2 DEF InOrder, Tells, TallyIds, CheckIds
  <2> QED BY <1>20, <2>2, <2>3 DEF CheckFinals
<1>21. CASE CheckVotes("11.04")
  <2>1. UNCHANGED <<d, loop>>
    BY <1>21 DEF CheckVotes
  <2>2. CASE VotesCrash /\ Crash("11.03")
    <3>1. pc = "11.03"
      BY <2>2 DEF Crash
    <3>2. ReportOk => Ran("8.11")
      BY <3>1 DEF TallyInv, NoneSkipped, UpToCounts, UpToSameVotes, UpToBoxIds, UpToNodeIds
    <3>3. ~ReportOk
      BY <1>1, <2>2, <3>2, OkHasPassed, VotesCrashFound DEF TallyInv, EntriesTrue
    <3> QED BY <2>1, <2>2, <3>3, CrashKeepsInv
  <2>3. CASE Record("11.03", VotesOk, "11.04")
    <3>1. PICK ok \in BOOLEAN : ok = VotesOk
      BY Zenon DEF VotesOk
    <3>2. Record("11.03", ok, "11.04")
      BY <2>3, <3>1, Zenon
    <3> QED BY CheckKeepsInv, OrderOfChecks, <2>1, <3>1, <3>2 DEF InOrder, Tells, TallyIds
  <2> QED BY <1>21, <2>2, <2>3 DEF CheckVotes
<1>22. CASE CombineRaises
  <2>1. UNCHANGED <<d, loop>> /\ Crash("10.04")
    BY <1>22 DEF CombineRaises
  <2>2. KeysUncombined
    BY <1>22, CombineRaisesFound DEF TallyInv, LoopInPlace
  <2> QED BY <2>1, <2>2, CrashKeepsInv
<1> QED
  BY <1>22, <1>2, <1>4, <1>5, <1>6, <1>7, <1>8, <1>9, <1>10, <1>11, <1>12, <1>13, <1>15, <1>16, <1>18,
     <1>19, <1>20, <1>21, <1>17, Zenon DEF TallyNext, MixDecChecks

LEMMA InitTallyInv == TallyInit => TallyInv
<1> SUFFICES ASSUME TallyInit PROVE TallyInv
  OBVIOUS
<1>1. d \in Datasets /\ pc = "6.01" /\ report = <<>>
  BY DEF TallyInit, ChainInit, ReportInit
<1>2. \A x : ~Passed(x)
  BY <1>1 DEF Passed
<1>3. EntriesTrue
  BY <1>2 DEF EntriesTrue
<1>4. NoneSkipped
  BY <1>1 DEF NoneSkipped, UpToNodeIds, UpToBoxIds, UpToSameVotes, UpToCounts, UpToProofs,
              UpToChain, UpToShuffles, UpToDecryptions, UpToFinals, UpToVotes
<1>5. CrashExplained
  BY <1>1 DEF CrashExplained
<1>6. report \in TallyEntries
  BY <1>1 DEF TallyEntries
<1>7. LoopInPlace
  <2>1. LoopTyped
    <3>1. IsDataset(d)
      BY <1>1, DatasetsAssumption
    <3>2. rest \subseteq ShuffleIndices(cur) /\ prev \in Seq(Ciphertext)
          /\ fails \subseteq Box \X Nat \X Reasons
      BY DEF TallyInit, ChainInit
    <3> QED BY <3>1, <3>2 DEF TallyInit, ChainInit, LoopTyped
  <2> QED BY <1>1, <2>1 DEF TallyInit, ChainInit, LoopInPlace
<1> QED BY <1>1, <1>3, <1>4, <1>5, <1>6, <1>7 DEF TallyInv

(* Entries say what their checks found, and none is left out of a report   *)
(* without failures.                                                       *)
THEOREM TallyInvariant == TallySpec => []TallyInv
<1>1. TallyInit => TallyInv
  BY InitTallyInv
<1>2. TallyInv /\ [TallyNext]_vars => TallyInv'
  BY StepTallyInv
<1> QED BY <1>1, <1>2, PTL DEF TallySpec

(* An exception hides a dataset that would have passed in three cases      *)
(* only: setup payloads are missing (8.01 subscripts them), the keys of a  *)
(* shuffle are of different lengths (10.04 combines them outside of its    *)
(* try) or a final payload has no decryption proofs (11.02 subscripts      *)
(* them).  What 8.09, 10.03 and 11.03 trip over, and the other parts of a  *)
(* final payload in 11.02, 8.05 or 8.11 has reported.                      *)
THEOREM CrashesExplained == TallySpec => []CrashExplained
<1>1. TallyInv => CrashExplained
  BY DEF TallyInv
<1> QED BY <1>1, TallyInvariant, PTL

-----------------------------------------------------------------------------
(* One card, one vote.                                                     *)

(* A failure-free report that was returned has all the entries.            *)
LEMMA AcceptedPassed ==
    ASSUME TallyInv, Accepted
    PROVE  NodeIdsOk /\ SameVotesOk /\ ProofsOk
<1>1. /\ pc \notin UpToNodeIds /\ pc \notin UpToSameVotes /\ pc \notin UpToProofs
      /\ pc # "crashed" /\ ReportOk
  BY DEF Accepted, UpToNodeIds, UpToBoxIds, UpToSameVotes, UpToCounts, UpToProofs
<1>2. Ran("8.02") /\ Ran("8.08") /\ Ran("10.01")
  BY <1>1 DEF TallyInv, NoneSkipped
<1> QED BY <1>1, <1>2, OkHasPassed DEF TallyInv, EntriesTrue

(* The dictionary of 8.08 holds the only payload of a node.                *)
LEMMA OnlyPayload ==
    ASSUME IsTallyDataset(d), NodeIdsOk, NEW i \in DOMAIN d.bb
    PROVE  LastOf(d.bb, d.bb[i].box, d.bb[i].node) = d.bb[i]
<1>1. DOMAIN d.bb = 1..Len(d.bb) /\ Len(d.bb) \in Nat
  BY DEF IsTallyDataset, IsDataset
<1> DEFINE Is(k) == /\ d.bb[k].box = d.bb[i].box /\ d.bb[k].node = d.bb[i].node
                    /\ \A l \in DOMAIN d.bb :
                         d.bb[l].box = d.bb[i].box /\ d.bb[l].node = d.bb[i].node => l <= k
<1>2. \A k \in DOMAIN d.bb :
        d.bb[k].box = d.bb[i].box /\ d.bb[k].node = d.bb[i].node => k = i
  BY DEF NodeIdsOk, EachNodeOnce
<1>3. Is(i)
  BY <1>1, <1>2
<1>4. \A k \in DOMAIN d.bb : Is(k) => k = i
  BY <1>2
<1>5. LastOf(d.bb, d.bb[i].box, d.bb[i].node) = d.bb[CHOOSE k \in DOMAIN d.bb : Is(k)]
  BY DEF LastOf
<1> HIDE DEF Is
<1>6. (CHOOSE k \in DOMAIN d.bb : Is(k)) = i
  BY <1>3, <1>4
<1> QED BY <1>5, <1>6

(* Node 1 has a payload for every ballot box that any node has one for,    *)
(* with the same votes.                                                    *)
LEMMA NodeOneRecorded ==
    ASSUME IsTallyDataset(d), NodeIdsOk, SameVotesOk, NEW i \in DOMAIN d.bb
    PROVE  \E h \in NodeOnePayloads :
             d.bb[h].box = d.bb[i].box /\ SameMultiset(d.bb[i].votes, d.bb[h].votes)
<1> DEFINE b == d.bb[i].box
<1>1. NodesOf(d.bb, b) = Node
  BY DEF NodeIdsOk, EachNodeOnce, NodesOf
<1>2. 1 \in Node
  BY DEF Node
<1>3. PICK h \in DOMAIN d.bb : d.bb[h].box = b /\ d.bb[h].node = 1
  BY <1>1, <1>2 DEF NodesOf
<1>4. d.bb[i].node \in NodesOf(d.bb, b) /\ d.bb[h].node \in NodesOf(d.bb, b)
  BY <1>3 DEF NodesOf
<1>5. b \in BallotBoxes
  BY DEF BallotBoxes
<1>6. SameMultiset(LastOf(d.bb, b, d.bb[i].node).votes, LastOf(d.bb, b, d.bb[h].node).votes)
  BY <1>4, <1>5 DEF SameVotesOk
<1>7. SameMultiset(d.bb[i].votes, d.bb[h].votes)
  BY <1>3, <1>6, OnlyPayload
<1> QED BY <1>3, <1>7 DEF NodeOnePayloads

LEMMA VotesSeq ==
    ASSUME IsTallyDataset(d), NEW i \in DOMAIN d.bb
    PROVE  d.bb[i].votes \in Seq(Vote)
<1>1. d.bb[i] \in BallotBoxPayload
  BY DEF IsTallyDataset, IsDataset
<1> QED BY <1>1 DEF BallotBoxPayload

(* A value of one list is in every list that has each value as often; when *)
(* it is there once, it is once in the first, too.                         *)
LEMMA CountsCarryOver ==
    ASSUME NEW T, NEW s \in Seq(T), NEW t \in Seq(T), SameMultiset(s, t), NEW k \in DOMAIN s
    PROVE  /\ \E l \in DOMAIN t : t[l] = s[k]
           /\ (\A l, m \in DOMAIN t : t[l] = s[k] /\ t[m] = s[k] => l = m)
                => \A m \in DOMAIN s : s[m] = s[k] => m = k
<1> DEFINE S == {i \in DOMAIN s : s[i] = s[k]}
           R == {i \in DOMAIN t : t[i] = s[k]}
<1>1. Cardinality(S) = Cardinality(R)
  <2>1. s[k] \in ToSet(s)
    BY DEF ToSet
  <2>2. Count(s, s[k]) = Count(t, s[k])
    BY <2>1 DEF SameMultiset
  <2> QED BY <2>2 DEF Count
<1>2. IsFiniteSet(S) /\ IsFiniteSet(R)
  <2>1. IsFiniteSet(DOMAIN s) /\ IsFiniteSet(DOMAIN t)
    BY FS_Interval
  <2> QED BY <2>1, FS_Subset
<1>3. k \in S
  OBVIOUS
<1>4. R # {}
  <2> HIDE DEF S, R
  <2>1. S # {}
    BY <1>3
  <2> QED BY <1>1, <1>2, <2>1, FS_EmptySet
<1>5. PICK l \in DOMAIN t : t[l] = s[k]
  BY <1>4
<1>6. ASSUME \A j, m \in DOMAIN t : t[j] = s[k] /\ t[m] = s[k] => j = m,
             NEW m \in DOMAIN s, s[m] = s[k]
      PROVE  m = k
  <2>1. R = {l}
    BY <1>5, <1>6
  <2>2. m \in S
    BY <1>6
  <2> HIDE DEF S, R
  <2>3. Cardinality(R) = 1
    BY <2>1, FS_Singleton
  <2>4. PICK x : S = {x}
    BY <1>1, <1>2, <2>3, FS_Singleton
  <2> QED BY <1>3, <2>2, <2>4
<1> QED BY <1>5, <1>6

LEMMA CardsOnceFromChecks ==
    ASSUME IsTallyDataset(d), NodeIdsOk, SameVotesOk, ProofsOk,
           NEW i \in DOMAIN d.bb, NEW j \in DOMAIN d.bb,
           NEW k \in DOMAIN d.bb[i].votes, NEW l \in DOMAIN d.bb[j].votes,
           d.bb[i].votes[k].vcid = d.bb[j].votes[l].vcid
    PROVE  /\ d.bb[i].box = d.bb[j].box
           /\ d.bb[i].votes[k] = d.bb[j].votes[l]
           /\ i = j => k = l
           /\ d.bb[i].votes[k].vcid \in d.keyed
<1>1. PICK f \in NodeOnePayloads :
        d.bb[f].box = d.bb[i].box /\ SameMultiset(d.bb[i].votes, d.bb[f].votes)
  BY NodeOneRecorded
<1>2. PICK g \in NodeOnePayloads :
        d.bb[g].box = d.bb[j].box /\ SameMultiset(d.bb[j].votes, d.bb[g].votes)
  BY NodeOneRecorded
<1>3. /\ d.bb[i].votes \in Seq(Vote) /\ d.bb[j].votes \in Seq(Vote)
      /\ d.bb[f].votes \in Seq(Vote) /\ d.bb[g].votes \in Seq(Vote)
  BY VotesSeq DEF NodeOnePayloads
<1>4. PICK x \in DOMAIN d.bb[f].votes : d.bb[f].votes[x] = d.bb[i].votes[k]
  BY <1>1, <1>3, CountsCarryOver
<1>5. PICK y \in DOMAIN d.bb[g].votes : d.bb[g].votes[y] = d.bb[j].votes[l]
  BY <1>2, <1>3, CountsCarryOver
<1>6. \A m \in DOMAIN d.bb[f].votes : \A a \in NodeOnePayloads : \A n \in DOMAIN d.bb[a].votes :
        d.bb[a].votes[n].vcid = d.bb[f].votes[m].vcid => <<a, n>> = <<f, m>>
  BY DEF ProofsOk
<1>7. g = f /\ y = x
  BY <1>4, <1>5, <1>6
<1>8. d.bb[i].votes[k].vcid \in d.keyed
  BY <1>4 DEF ProofsOk
<1>9. ASSUME i = j
      PROVE  k = l
  <2>1. \A m, n \in DOMAIN d.bb[f].votes :
          d.bb[f].votes[m] = d.bb[i].votes[k] /\ d.bb[f].votes[n] = d.bb[i].votes[k] => m = n
    BY <1>6
  <2>2. d.bb[i].votes[l] = d.bb[i].votes[k]
    BY <1>4, <1>5, <1>7, <1>9
  <2> DEFINE s == d.bb[i].votes
             t == d.bb[f].votes
  <2>3. s \in Seq(Vote) /\ t \in Seq(Vote) /\ SameMultiset(s, t) /\ k \in DOMAIN s
    BY <1>1, <1>3
  <2>4. \A m, n \in DOMAIN t : t[m] = s[k] /\ t[n] = s[k] => m = n
    BY <2>1
  <2>5. l \in DOMAIN s /\ s[l] = s[k]
    BY <1>9, <2>2
  <2> HIDE DEF s, t
  <2>6. \A m \in DOMAIN s : s[m] = s[k] => m = k
    BY <2>3, <2>4, CountsCarryOver
  <2> QED BY <2>5, <2>6
<1> QED BY <1>1, <1>2, <1>4, <1>5, <1>7, <1>8, <1>9

(* An accepted tally has no two votes of a card: 10.01 looks at node 1     *)
(* only, but through all ballot boxes, and 8.02 and 8.08 tie every other   *)
(* node to it, one ballot box at a time.                                   *)
THEOREM OneCardOneVote == TallySpec => []CardsOnce
<1>1. TallyInv => CardsOnce
  <2> SUFFICES ASSUME TallyInv, Accepted,
                      NEW i \in DOMAIN d.bb, NEW j \in DOMAIN d.bb,
                      NEW k \in DOMAIN d.bb[i].votes, NEW l \in DOMAIN d.bb[j].votes,
                      d.bb[i].votes[k].vcid = d.bb[j].votes[l].vcid
               PROVE  /\ d.bb[i].box = d.bb[j].box
                      /\ d.bb[i].votes[k] = d.bb[j].votes[l]
                      /\ i = j => k = l
                      /\ d.bb[i].votes[k].vcid \in d.keyed
    BY DEF CardsOnce
  <2>1. IsTallyDataset(d)
    BY TallyDatasetsAssumption DEF TallyInv
  <2>2. NodeIdsOk /\ SameVotesOk /\ ProofsOk
    BY AcceptedPassed
  <2> QED BY <2>1, <2>2, CardsOnceFromChecks
<1> QED BY <1>1, TallyInvariant, PTL

-----------------------------------------------------------------------------
(* What is published.                                                      *)

(* Votes of different cards are all in the dictionary of confirmed votes,  *)
(* each in one place.                                                      *)
LEMMA AllVotesListed ==
    ASSUME NEW votes \in Seq(Vote),
           \A i, k \in DOMAIN votes : votes[i].vcid = votes[k].vcid => i = k
    PROVE  /\ Len(ConfirmedVotes(votes)) = Len(votes)
           /\ \E f \in Bijection(1..Len(votes), DOMAIN votes) :
                \A i \in 1..Len(votes) : ConfirmedVotes(votes)[i] = votes[f[i]].ct
<1> DEFINE Ids == {votes[i].vcid : i \in DOMAIN votes}
           LastPlace(id) ==
             CHOOSE i \in DOMAIN votes :
               votes[i].vcid = id /\ \A k \in DOMAIN votes : votes[k].vcid = id => k <= i
           n == Cardinality(Ids)
           A == Ascending(Ids)
           f == [i \in 1..n |-> LastPlace(A[i])]
<1>1. DOMAIN votes = 1..Len(votes) /\ Len(votes) \in Nat
  OBVIOUS
<1>2. Ids \subseteq Nat
  <2>1. ASSUME NEW i \in DOMAIN votes
        PROVE  votes[i].vcid \in Nat
    <3>1. votes[i] \in Vote
      BY <1>1, ElementOfSeq
    <3> QED BY <3>1 DEF Vote
  <2> QED BY <2>1
<1>3. IsFiniteSet(Ids) /\ n = Len(votes)
  <2> DEFINE g == [i \in 1..Len(votes) |-> votes[i].vcid]
  <2>1. g \in [1..Len(votes) -> Ids]
    BY <1>1
  <2>2. g \in Injection(1..Len(votes), Ids)
    BY <1>1, <2>1 DEF Injection, IsInjective
  <2>3. g \in Surjection(1..Len(votes), Ids)
    BY <1>1, <2>1 DEF Surjection
  <2>4. IsFiniteSet(1..Len(votes)) /\ Cardinality(1..Len(votes)) = Len(votes)
    <3>1. PICK length \in Nat : length = Len(votes)
      BY <1>1
    <3>2. IsFiniteSet(1..length) /\ Cardinality(1..length) = length
      BY FS_Interval
    <3> QED BY <3>1, <3>2
  <2> HIDE DEF g, Ids
  <2>5. g \in Bijection(1..Len(votes), Ids)
    BY <2>2, <2>3 DEF Bijection
  <2> QED BY <2>4, <2>5, FS_Bijection DEF ExistsBijection
<1>4. ASSUME NEW k \in DOMAIN votes
      PROVE  LastPlace(votes[k].vcid) = k
  <2> DEFINE Is(i) == /\ votes[i].vcid = votes[k].vcid
                      /\ \A l \in DOMAIN votes : votes[l].vcid = votes[k].vcid => l <= i
  <2>1. \A i \in DOMAIN votes : votes[i].vcid = votes[k].vcid => i = k
    OBVIOUS
  <2>2. Is(k)
    BY <1>1, <2>1
  <2>3. \A i \in DOMAIN votes : Is(i) => i = k
    BY <2>1
  <2>4. LastPlace(votes[k].vcid) = CHOOSE i \in DOMAIN votes : Is(i)
    OBVIOUS
  <2> HIDE DEF Is, LastPlace
  <2> QED BY <2>2, <2>3, <2>4
<1>5. \A id \in Ids : LastPlace(id) \in DOMAIN votes /\ votes[LastPlace(id)].vcid = id
  <2> HIDE DEF LastPlace
  <2> QED BY <1>4
<1>6. /\ A \in [1..n -> Ids]
      /\ \A i, k \in 1..n : A[i] = A[k] => i = k
      /\ \A id \in Ids : \E i \in 1..n : A[i] = id
  <2> HIDE DEF Ids
  <2>1. A \in Bijection(1..n, Ids)
    BY <1>2, <1>3, AscendingLists
  <2> HIDE DEF A, n
  <2>2. PICK S : S = 1..n
    OBVIOUS
  <2>3. A \in Bijection(S, Ids)
    BY <2>1, <2>2
  <2>4. /\ A \in [S -> Ids]
        /\ \A i, k \in S : A[i] = A[k] => i = k
        /\ \A id \in Ids : \E i \in S : A[i] = id
    BY <2>3, Fun_BijectionProperties
  <2> QED BY <2>2, <2>4
<1>7. ConfirmedVotes(votes) = [i \in 1..n |-> votes[LastPlace(A[i])].ct]
  BY DEF ConfirmedVotes
<1> HIDE DEF A, LastPlace, n
<1>8. f \in [1..n -> DOMAIN votes]
  <2> HIDE DEF Ids
  <2> QED BY <1>5, <1>6
<1>9. f \in Injection(1..n, DOMAIN votes)
  <2> HIDE DEF Ids
  <2>1. ASSUME NEW i \in 1..n, NEW k \in 1..n, f[i] = f[k]
        PROVE  i = k
    <3>1. A[i] \in Ids /\ A[k] \in Ids /\ LastPlace(A[i]) = LastPlace(A[k])
      BY <1>6, <2>1
    <3>2. A[i] = A[k]
      BY <1>5, <3>1
    <3> QED BY <1>6, <3>2
  <2> HIDE DEF f
  <2> QED BY <1>8, <2>1 DEF Injection, IsInjective
<1>10. f \in Surjection(1..n, DOMAIN votes)
  <2>1. ASSUME NEW k \in DOMAIN votes
        PROVE  \E i \in 1..n : f[i] = k
    <3>1. PICK i \in 1..n : A[i] = votes[k].vcid
      BY <1>6
    <3> QED BY <1>4, <3>1
  <2> HIDE DEF f
  <2> QED BY <1>8, <2>1 DEF Surjection
<1>11. /\ Len(ConfirmedVotes(votes)) = n
       /\ \A i \in 1..n : ConfirmedVotes(votes)[i] = votes[f[i]].ct
  BY <1>1, <1>3, <1>7
<1> HIDE DEF f, Ids
<1>12. f \in Bijection(1..n, DOMAIN votes)
  BY <1>9, <1>10 DEF Bijection
<1> QED BY <1>3, <1>11, <1>12

(* Padding adds no message but One.                                        *)
LEMMA PaddingIsOne ==
    ASSUME IsDataset(d), NEW b, NodeOne(b) # {}, b \in DOMAIN d.ctx, NEW V, One \notin V,
           NEW votes \in Seq(Vote), votes = d.bb[First(NodeOne(b))].votes,
           NEW cv \in Seq(Ciphertext), cv = ConfirmedVotes(votes)
    PROVE  {i \in 1..Len(InitialCiphertexts(b)) : InitialCiphertexts(b)[i].m \in V}
             = {i \in 1..Len(cv) : cv[i].m \in V}
<1> DEFINE t == Trivial(d.ctx[b])
           init == InitialCiphertexts(b)
<1>1. init = IF Len(cv) < 2 THEN cv \o <<t, t>> ELSE cv
  BY DEF InitialCiphertexts
<1>2. t \in Ciphertext /\ t.m = One
  BY WidthTypes DEF IsDataset, Trivial, Smaller, Ciphertext
<1>3. Len(cv) \in Nat
  OBVIOUS
<1> HIDE DEF t
<1>4. CASE Len(cv) < 2
  <2>1. <<t, t>> \in Seq(Ciphertext) /\ Len(<<t, t>>) = 2
    BY <1>2
  <2>2. /\ Len(init) = Len(cv) + 2
        /\ \A i \in 1..Len(cv) : init[i] = cv[i]
        /\ \A i \in Len(cv) + 1..Len(cv) + 2 : init[i] = <<t, t>>[i - Len(cv)]
    BY <1>1, <1>3, <1>4, <2>1, ConcatProperties
  <2>3. init[Len(cv) + 1] = t /\ init[Len(cv) + 2] = t
    BY <1>3, <2>2
  <2>4. ASSUME NEW i \in 1..(Len(cv) + 2), i \notin 1..Len(cv)
        PROVE  init[i].m \notin V
    <3>1. i = Len(cv) + 1 \/ i = Len(cv) + 2
      BY <1>3, <2>4
    <3> QED BY <1>2, <2>3, <3>1
  <2> HIDE DEF init
  <2>5. 1..Len(cv) \subseteq 1..(Len(cv) + 2)
    BY <1>3
  <2>6. {i \in 1..Len(init) : init[i].m \in V} = {i \in 1..Len(cv) : cv[i].m \in V}
    BY <2>2, <2>4, <2>5
  <2> QED BY <2>6 DEF init
<1>5. CASE ~(Len(cv) < 2)
  BY <1>1, <1>5
<1> QED BY <1>4, <1>5

(* Of messages other than One, as many are in the plaintexts as in the     *)
(* votes of node 1.                                                        *)
LEMMA MessagesReach ==
    ASSUME IsDataset(d), NEW b, NodeOne(b) # {}, b \in DOMAIN d.ctx, TalliesVotes(b),
           NEW votes \in Seq(Vote), votes = d.bb[First(NodeOne(b))].votes,
           \A i, k \in DOMAIN votes : votes[i].vcid = votes[k].vcid => i = k,
           NEW plain, plain = FinalPayloadOf(b).plain,
           NEW V, One \notin V
    PROVE  Cardinality({i \in 1..Len(plain) : plain[i].m \in V})
             = Cardinality({i \in DOMAIN votes : votes[i].ct.m \in V})
<1> DEFINE init == InitialCiphertexts(b)
           n == Len(init)
           InPlain == {i \in 1..Len(plain) : plain[i].m \in V}
           InInit == {i \in 1..n : init[i].m \in V}
           InVotes == {i \in DOMAIN votes : votes[i].ct.m \in V}
<1>1. n \in Nat
  BY InitialType
<1>2. PICK p \in [1..n -> 1..n] :
        /\ IsPermutation(p, n)
        /\ Len(plain) = n
        /\ \A i \in 1..n : plain[i].m = init[p[i]].m
  BY DEF TalliesVotes, Tallies
<1> HIDE DEF init
<1>3. p \in Bijection(1..n, 1..n)
  <2> HIDE DEF n
  <2>1. p \in Injection(1..n, 1..n)
    BY <1>2 DEF IsPermutation, Injection, IsInjective
  <2>2. p \in Surjection(1..n, 1..n)
    BY <1>2 DEF IsPermutation, Surjection
  <2> QED BY <2>1, <2>2 DEF Bijection
<1>4. IsFiniteSet(1..n)
  BY <1>1, FS_Interval
<1>5. Cardinality(InPlain) = Cardinality(InInit)
  <2>1. InPlain \subseteq 1..n /\ InInit \subseteq 1..n
    BY <1>2
  <2>2. \A i \in 1..n : i \in InPlain <=> p[i] \in InInit
    BY <1>2
  <2>3. PICK S : S = 1..n
    OBVIOUS
  <2>4. PICK f : f = p
    OBVIOUS
  <2> HIDE DEF InPlain, InInit, n
  <2>5. /\ IsFiniteSet(S) /\ f \in Bijection(S, S) /\ InPlain \subseteq S /\ InInit \subseteq S
        /\ \A i \in S : i \in InPlain <=> f[i] \in InInit
    BY <1>3, <1>4, <2>1, <2>2, <2>3, <2>4
  <2> QED BY <2>5, SameCount
<1>6. PICK cv \in Seq(Ciphertext) : cv = ConfirmedVotes(votes)
  BY ConfirmedVotesType
<1>7. InInit = {i \in 1..Len(cv) : cv[i].m \in V}
  BY <1>6, PaddingIsOne DEF init
<1>8. PICK f \in Bijection(1..Len(votes), DOMAIN votes) :
        Len(cv) = Len(votes) /\ \A i \in 1..Len(votes) : cv[i] = votes[f[i]].ct
  BY <1>6, AllVotesListed
<1>9. Cardinality(InInit) = Cardinality(InVotes)
  <2>1. IsFiniteSet(1..Len(votes))
    <3>1. Len(votes) \in Nat
      OBVIOUS
    <3> QED BY <3>1, FS_Interval
  <2>2. InInit \subseteq 1..Len(votes) /\ InVotes \subseteq DOMAIN votes
    BY <1>7, <1>8
  <2>3. f \in [1..Len(votes) -> DOMAIN votes]
    BY <1>8, Fun_BijectionProperties
  <2>4. \A i \in 1..Len(votes) : i \in InInit <=> f[i] \in InVotes
    BY <1>7, <1>8, <2>3
  <2>5. PICK S : S = 1..Len(votes)
    OBVIOUS
  <2>6. PICK T : T = DOMAIN votes
    OBVIOUS
  <2> HIDE DEF InInit, InVotes
  <2>7. /\ IsFiniteSet(S) /\ f \in Bijection(S, T) /\ InInit \subseteq S /\ InVotes \subseteq T
        /\ \A i \in S : i \in InInit <=> f[i] \in InVotes
    BY <1>8, <2>1, <2>2, <2>4, <2>5, <2>6
  <2> QED BY <2>7, SameCount
<1> QED BY <1>5, <1>9
(* Processing keeps the rows that are not One, as often as they are there. *)
LEMMA CastKeeps ==
    ASSUME NEW plain \in Seq(Plaintext),
           \A i \in DOMAIN plain : \A h \in Holder : plain[i].e[h] = 0
    PROVE  /\ Len(Cast(plain)) = Cardinality({i \in 1..Len(plain) : plain[i].m \in Msg \ {One}})
           /\ DOMAIN Cast(plain) = 1..Len(Cast(plain))
           /\ \A i \in DOMAIN Cast(plain) : Cast(plain)[i] \in Msg \ {One}
           /\ \A v \in Msg \ {One} :
                Count(Cast(plain), v) = Cardinality({i \in 1..Len(plain) : plain[i].m \in {v}})
<1> DEFINE R == Rows(plain)
           n == Cardinality(R)
           A == Ascending(R)
<1>1. /\ DOMAIN plain = 1..Len(plain) /\ Len(plain) \in Nat
      /\ \A i \in DOMAIN plain : plain[i].m \in Msg
  <2>1. \A i \in DOMAIN plain : plain[i] \in Plaintext
    BY ElementOfSeq
  <2> QED BY <2>1 DEF Plaintext
<1>2. R = {i \in 1..Len(plain) : plain[i].m \in Msg \ {One}}
  BY <1>1 DEF Rows, IsOnes
<1>3. R \subseteq 1..Len(plain) /\ R \subseteq Nat /\ IsFiniteSet(R)
  <2>1. PICK length \in Nat : length = Len(plain)
    BY <1>1
  <2>2. R \subseteq 1..length
    BY <1>2, <2>1
  <2>3. R \subseteq Nat
    BY <1>2
  <2> HIDE DEF R
  <2>4. IsFiniteSet(R)
    <3>1. IsFiniteSet(1..length)
      BY FS_Interval
    <3> QED BY <2>2, <3>1, FS_Subset
  <2> QED BY <2>1, <2>2, <2>3, <2>4
<1> HIDE DEF R
<1>4. n \in Nat /\ A \in Bijection(1..n, R)
  BY <1>3, AscendingLists
<1>5. PICK S : S = 1..n
  OBVIOUS
<1>6. A \in Bijection(S, R) /\ A \in [S -> R] /\ IsFiniteSet(S)
  <2>1. IsFiniteSet(S)
    BY <1>4, <1>5, FS_Interval
  <2>2. A \in Bijection(S, R)
    BY <1>4, <1>5
  <2> HIDE DEF A, n
  <2> QED BY <2>1, <2>2, Fun_BijectionProperties
<1>7. Cast(plain) = [i \in S |-> plain[A[i]].m]
  BY <1>5 DEF Cast, Kept, R
<1>8. Len(Cast(plain)) = n
  BY <1>4, <1>5, <1>7
<1> HIDE DEF A, n
<1>9. ASSUME NEW v \in Msg \ {One}
      PROVE  Count(Cast(plain), v) = Cardinality({i \in 1..Len(plain) : plain[i].m \in {v}})
  <2> DEFINE C == {i \in S : plain[A[i]].m = v}
             D == {i \in R : plain[i].m = v}
  <2>1. Count(Cast(plain), v) = Cardinality(C)
    <3>1. {i \in DOMAIN Cast(plain) : Cast(plain)[i] = v} = C
      BY <1>7
    <3> QED BY <3>1 DEF Count
  <2>2. D = {i \in 1..Len(plain) : plain[i].m \in {v}}
    BY <1>1, <1>2
  <2>3. C \subseteq S /\ D \subseteq R /\ \A i \in S : i \in C <=> A[i] \in D
    BY <1>6
  <2> HIDE DEF C, D
  <2>4. Cardinality(C) = Cardinality(D)
    BY <1>6, <2>3, SameCount
  <2> QED BY <2>1, <2>2, <2>4
<1>10. \A i \in S : Cast(plain)[i] \in Msg \ {One}
  BY <1>2, <1>6, <1>7
<1> QED BY <1>2, <1>5, <1>7, <1>8, <1>9, <1>10 DEF n

(* Lists with the same votes, each once, pair up.                          *)
LEMMA SameVotesPaired ==
    ASSUME NEW s \in Seq(Vote), NEW t \in Seq(Vote), SameMultiset(s, t),
           \A l, m \in DOMAIN t : t[l] = t[m] => l = m
    PROVE  \E f \in Bijection(DOMAIN s, DOMAIN t) : \A k \in DOMAIN s : t[f[k]] = s[k]
<1> DEFINE f == [k \in DOMAIN s |-> CHOOSE l \in DOMAIN t : t[l] = s[k]]
<1>1. SameMultiset(t, s)
  BY DEF SameMultiset
<1>2. \A k \in DOMAIN s : \E l \in DOMAIN t : t[l] = s[k]
  BY CountsCarryOver
<1>3. \A l \in DOMAIN t : \E k \in DOMAIN s : s[k] = t[l]
  BY <1>1, CountsCarryOver
<1>4. \A k, m \in DOMAIN s : s[k] = s[m] => k = m
  <2> SUFFICES ASSUME NEW k \in DOMAIN s, NEW m \in DOMAIN s, s[k] = s[m]
               PROVE  k = m
    OBVIOUS
  <2>1. \A l, j \in DOMAIN t : t[l] = s[k] /\ t[j] = s[k] => l = j
    OBVIOUS
  <2>2. \A j \in DOMAIN s : s[j] = s[k] => j = k
    BY <2>1, CountsCarryOver
  <2> QED BY <2>2
<1>5. \A k \in DOMAIN s : f[k] \in DOMAIN t /\ t[f[k]] = s[k]
  BY <1>2
<1>6. f \in [DOMAIN s -> DOMAIN t]
  BY <1>5
<1> HIDE DEF f
<1>7. f \in Injection(DOMAIN s, DOMAIN t)
  BY <1>4, <1>5, <1>6 DEF Injection, IsInjective
<1>8. f \in Surjection(DOMAIN s, DOMAIN t)
  <2>1. ASSUME NEW l \in DOMAIN t
        PROVE  \E k \in DOMAIN s : f[k] = l
    BY <1>3, <1>5
  <2> QED BY <1>6, <2>1 DEF Surjection
<1>9. f \in Bijection(DOMAIN s, DOMAIN t)
  BY <1>7, <1>8 DEF Bijection
<1> QED BY <1>5, <1>9

LEMMA SameVotesSameLength ==
    ASSUME NEW s \in Seq(Vote), NEW t \in Seq(Vote), SameMultiset(s, t),
           \A l, m \in DOMAIN t : t[l] = t[m] => l = m
    PROVE  Len(s) = Len(t)
<1>1. PICK m \in Nat, n \in Nat : m = Len(s) /\ n = Len(t) /\ DOMAIN s = 1..m /\ DOMAIN t = 1..n
  OBVIOUS
<1>2. PICK f \in Bijection(1..m, 1..n) : TRUE
  BY <1>1, SameVotesPaired
<1>3. Cardinality(1..m) = Cardinality(1..n)
  <2>1. IsFiniteSet(1..m) /\ ExistsBijection(1..m, 1..n)
    BY <1>2, FS_Interval DEF ExistsBijection
  <2> QED BY <2>1, FS_Bijection
<1>4. Cardinality(1..m) = m /\ Cardinality(1..n) = n
  BY FS_Interval
<1> QED BY <1>1, <1>3, <1>4

(* So they have the same messages as often.                                *)
LEMMA SameMessages ==
    ASSUME NEW s \in Seq(Vote), NEW t \in Seq(Vote), SameMultiset(s, t),
           \A l, m \in DOMAIN t : t[l] = t[m] => l = m, NEW v
    PROVE  Count([i \in DOMAIN s |-> s[i].ct.m], v) = Count([i \in DOMAIN t |-> t[i].ct.m], v)
<1> DEFINE A == {k \in DOMAIN s : s[k].ct.m = v}
           B == {l \in DOMAIN t : t[l].ct.m = v}
<1>1. PICK f \in Bijection(DOMAIN s, DOMAIN t) : \A k \in DOMAIN s : t[f[k]] = s[k]
  BY SameVotesPaired
<1>2. f \in [DOMAIN s -> DOMAIN t] /\ IsFiniteSet(DOMAIN s)
  BY <1>1, FS_Interval, Fun_BijectionProperties
<1>3. A \subseteq DOMAIN s /\ B \subseteq DOMAIN t /\ \A k \in DOMAIN s : k \in A <=> f[k] \in B
  BY <1>1, <1>2
<1>4. Cardinality(A) = Cardinality(B)
  <2> HIDE DEF A, B
  <2> QED BY <1>1, <1>2, <1>3, SameCount
<1>5. /\ A = {i \in DOMAIN s : [k \in DOMAIN s |-> s[k].ct.m][i] = v}
      /\ B = {i \in DOMAIN t : [k \in DOMAIN t |-> t[k].ct.m][i] = v}
  OBVIOUS
<1> QED BY <1>4, <1>5 DEF Count

(* What 8.08, 8.11, 10.01 and 11.03 say of a ballot box whose plaintexts   *)
(* are the votes of node 1.                                                *)
LEMMA PublishedFromChecks ==
    ASSUME IsTallyDataset(d), NodeIdsOk, SameVotesOk, CountsOk, ProofsOk,
           NEW b \in VotesBoxes, NodeOne(b) # {}, b \in DOMAIN d.ctx, TalliesVotes(b),
           NEW plain \in Seq(Plaintext), plain = FinalPayloadOf(b).plain,
           VotesPayloadOf(b).decrypted = Cast(plain)
    PROVE  PublishedRight(b)
<1> DEFINE h == First(NodeOne(b))
           votes == d.bb[h].votes
           Other == Msg \ {One}
<1>1. h \in DOMAIN d.bb /\ d.bb[h].box = b /\ d.bb[h].node = 1
  <2>1. NodeOne(b) \subseteq Nat /\ NodeOne(b) \subseteq DOMAIN d.bb
    BY DEF IsTallyDataset, IsDataset, NodeOne, BallotBoxIndices
  <2>2. \E m \in NodeOne(b) : \A k \in NodeOne(b) : m <= k
    BY <2>1, LeastNatural
  <2>3. h \in NodeOne(b)
    BY <2>2 DEF First
  <2> QED BY <2>1, <2>3 DEF NodeOne, BallotBoxIndices
<1>2. LastOf(d.bb, b, 1) = d.bb[h]
  BY <1>1, OnlyPayload
<1>3. b \in BallotBoxes /\ 1 \in NodesOf(d.bb, b)
  BY <1>1 DEF BallotBoxes, NodesOf
<1> HIDE DEF h
<1>4. votes \in Seq(Vote) /\ DOMAIN votes = 1..Len(votes) /\ Len(votes) \in Nat
  BY <1>1, VotesSeq
<1>5. \A i \in DOMAIN votes : votes[i].ct.m \in Msg
  <2>1. \A i \in DOMAIN votes : votes[i] \in Vote
    BY <1>4, ElementOfSeq
  <2> QED BY <2>1 DEF Vote, Ciphertext
<1>6. \A i, k \in DOMAIN votes : votes[i].vcid = votes[k].vcid => i = k
  BY <1>1 DEF ProofsOk, NodeOnePayloads
<1>7. /\ \A i \in DOMAIN plain : \A x \in Holder : plain[i].e[x] = 0
      /\ DOMAIN plain = 1..Len(plain)
  <2>1. Len(InitialCiphertexts(b)) = Len(plain)
    BY DEF TalliesVotes, Tallies
  <2> QED BY <2>1 DEF TalliesVotes, Tallies
<1>8. ASSUME NEW V, One \notin V
      PROVE  Cardinality({i \in 1..Len(plain) : plain[i].m \in V})
               = Cardinality({i \in DOMAIN votes : votes[i].ct.m \in V})
  <2>1. PICK list : list = votes
    OBVIOUS
  <2>2. list = d.bb[First(NodeOne(b))].votes
    BY <2>1 DEF h
  <2>3. list \in Seq(Vote) /\ \A i, k \in DOMAIN list : list[i].vcid = list[k].vcid => i = k
    BY <1>4, <1>6, <2>1
  <2>4. IsDataset(d)
    BY DEF IsTallyDataset
  <2> HIDE DEF votes
  <2>5. Cardinality({i \in 1..Len(plain) : plain[i].m \in V})
          = Cardinality({i \in DOMAIN list : list[i].ct.m \in V})
    BY <1>8, <2>2, <2>3, <2>4, MessagesReach
  <2> QED BY <2>1, <2>5
<1>9. /\ Len(Cast(plain)) = Cardinality({i \in DOMAIN votes : votes[i].ct.m \in Other})
      /\ DOMAIN Cast(plain) = 1..Len(Cast(plain))
      /\ \A i \in DOMAIN Cast(plain) : Cast(plain)[i] \in Other
      /\ \A v \in Other : Count(Cast(plain), v)
                              = Cardinality({i \in DOMAIN votes : votes[i].ct.m \in {v}})
  BY <1>7, <1>8, CastKeeps
(* As many votes were decrypted as node 1 confirmed: none of them is One.  *)
<1>10. Len(votes) = Len(Cast(plain))
  <2>1. Len(votes) \in Confirmed(b)
    BY <1>2, <1>3 DEF Confirmed
  <2>2. Expected(b) = Confirmed(b)
    BY <1>3 DEF CountsOk, Expected
  <2>3. PICK i \in DOMAIN d.votes : VotesPayloadOf(b) = d.votes[i] /\ d.votes[i].box = b
    <3>1. VotesIndices(b) # {}
      BY DEF VotesBoxes, VotesIndices
    <3> QED BY <3>1, VotesPayloadThere
  <2>4. Expected(b) \subseteq {Len(Cast(plain))}
    BY <2>3 DEF CountsOk, VotesCountOk
  <2> QED BY <2>1, <2>2, <2>4
<1>11. \A i \in DOMAIN votes : votes[i].ct.m \in Other
  <2> DEFINE S == {i \in DOMAIN votes : votes[i].ct.m \in Other}
  <2>1. PICK length \in Nat : length = Len(votes)
    BY <1>4
  <2>2. S \subseteq 1..length /\ Cardinality(S) = length
    BY <1>4, <1>9, <1>10, <2>1
  <2>3. IsFiniteSet(1..length) /\ Cardinality(1..length) = length
    BY FS_Interval
  <2> HIDE DEF S
  <2>4. S = 1..length
    BY <2>2, <2>3, FS_Subset
  <2> QED BY <1>4, <2>1, <2>4 DEF S
<1>12. ASSUME NEW v
       PROVE  Count(Cast(plain), v) = Count([i \in DOMAIN votes |-> votes[i].ct.m], v)
  <2>1. Count([i \in DOMAIN votes |-> votes[i].ct.m], v)
          = Cardinality({i \in DOMAIN votes : votes[i].ct.m \in {v}})
    <3>1. {i \in DOMAIN votes : [k \in DOMAIN votes |-> votes[k].ct.m][i] = v}
            = {i \in DOMAIN votes : votes[i].ct.m \in {v}}
      OBVIOUS
    <3> QED BY <3>1 DEF Count
  <2>2. CASE v \in Other
    BY <1>9, <2>1, <2>2
  <2>3. CASE v \notin Other
    <3>1. {i \in DOMAIN votes : votes[i].ct.m \in {v}} = {}
      BY <1>11, <2>3
    <3>2. {i \in DOMAIN Cast(plain) : Cast(plain)[i] = v} = {}
      BY <1>9, <2>3
    <3> QED BY <2>1, <3>1, <3>2 DEF Count
  <2> QED BY <2>2, <2>3
<1>13. ASSUME NEW j \in NodesOf(d.bb, b)
       PROVE  SameMultiset(Cast(plain), [i \in DOMAIN LastOf(d.bb, b, j).votes |->
                                            LastOf(d.bb, b, j).votes[i].ct.m])
  <2>1. PICK k \in DOMAIN d.bb : d.bb[k].box = b /\ d.bb[k].node = j
    BY DEF NodesOf
  <2>2. PICK s : s = d.bb[k].votes
    OBVIOUS
  <2>3. LastOf(d.bb, b, j).votes = s
    BY <2>1, <2>2, OnlyPayload
  <2>4. s \in Seq(Vote)
    BY <2>2, VotesSeq
  <2>5. SameMultiset(s, votes)
    BY <1>2, <1>3, <2>3 DEF SameVotesOk
  <2>6. \A l, m \in DOMAIN votes : votes[l] = votes[m] => l = m
    BY <1>6
  <2> HIDE DEF votes
  <2>7. \A v : Count([i \in DOMAIN s |-> s[i].ct.m], v)
                  = Count([i \in DOMAIN votes |-> votes[i].ct.m], v)
    BY <1>4, <2>4, <2>5, <2>6, SameMessages
  <2>8. \A v : Count(Cast(plain), v) = Count([i \in DOMAIN s |-> s[i].ct.m], v)
    BY <1>12, <2>7
  <2> QED BY <2>3, <2>8 DEF SameMultiset
<1> QED BY <1>13 DEF PublishedRight

(* An accepted tally has passed every check; its loop has walked all the   *)
(* payloads.                                                               *)
LEMMA AcceptedFound ==
    ASSUME TallyInv, Accepted
    PROVE  CountsOk /\ DecryptionsOk /\ FinalsOk /\ VotesOk /\ (Judged => AllWalked)
<1>1. /\ pc \notin UpToCounts /\ pc \notin UpToShuffles /\ pc \notin UpToDecryptions
      /\ pc \notin UpToFinals /\ pc \notin UpToVotes
      /\ pc # "crashed" /\ ReportOk
  BY DEF Accepted, UpToNodeIds, UpToBoxIds, UpToSameVotes, UpToCounts, UpToProofs, UpToChain,
         UpToShuffles, UpToDecryptions, UpToFinals, UpToVotes
<1>2. Ran("8.11") /\ Ran("10.04") /\ Ran("10.02") /\ Ran("11.02") /\ Ran("11.03")
  BY <1>1 DEF TallyInv, NoneSkipped
<1>3. Passed("8.11") /\ Passed("10.04") /\ Passed("10.02") /\ Passed("11.02") /\ Passed("11.03")
  BY <1>1, <1>2, OkHasPassed
<1> QED BY <1>3 DEF TallyInv, EntriesTrue

(* End to end: in an accepted tally with final payloads, the published     *)
(* votes of a ballot box are the votes that every node confirmed for it,   *)
(* each as often (AcceptedRight), for every number of components, every    *)
(* dataset and whatever the components published.                          *)
THEOREM PublishedAsConfirmed == TallySpec => []AcceptedRight
<1>1. TallyInv => AcceptedRight
  <2> SUFFICES ASSUME TallyInv, Accepted, d.finals # <<>>, KeysGenuine
               PROVE  /\ VotesBoxes = FinalBoxes
                      /\ \A b \in VotesBoxes : VotesEncrypted(b) => PublishedRight(b)
    BY DEF AcceptedRight
  <2>1. IsTallyDataset(d) /\ IsDataset(d)
    BY TallyDatasetsAssumption DEF TallyInv, IsTallyDataset
  <2>2. NodeIdsOk /\ SameVotesOk /\ ProofsOk
    BY AcceptedPassed
  <2>3. CountsOk /\ DecryptionsOk /\ FinalsOk /\ VotesOk /\ (Judged => AllWalked)
    BY AcceptedFound
  <2>4. AllWalked
    BY <2>2, <2>3 DEF Judged
  <2>5. /\ FinalBoxes \subseteq VotesBoxes
        /\ \A b \in VotesBoxes :
             /\ Comparable(b)
             /\ VotesPayloadOf(b).decrypted = Processed(b)
    BY <2>3 DEF VotesOk
  <2>6. VotesBoxes \subseteq FinalBoxes
    BY <2>5 DEF Comparable, VotesBoxes, FinalBoxes, FinalIndices
  <2>7. ASSUME NEW b \in VotesBoxes, VotesEncrypted(b)
        PROVE  PublishedRight(b)
    <3> DEFINE i == First(NodeLast(b))
    <3>1. b \in FinalBoxes /\ FinalOk(b)
      BY <2>3, <2>6 DEF FinalsOk
    <3>2. /\ i \in DOMAIN d.shuffles /\ d.shuffles[i].box = b /\ d.shuffles[i].node = N
          /\ FinalPayloadOf(b) \in FinalPayload
      BY <2>1, <3>1, FinalEvidence
    <3>3. Walked(i)
      BY <2>4, <3>2 DEF AllWalked
    <3>4. /\ NodeOne(b) # {} /\ b \in DOMAIN d.ctx
          /\ HoldsVotes(b, d.shuffles[i].decrypted, N + 1)
      BY <2>7, <3>2, <3>3 DEF Walked
    <3>5. TalliesVotes(b)
      BY <2>1, <3>1, <3>4, FinalTallies
    <3>6. FinalPayloadOf(b).plain \in Seq(Plaintext)
      BY <3>2 DEF FinalPayload
    <3>7. VotesPayloadOf(b).decrypted = Cast(FinalPayloadOf(b).plain)
      BY <2>5 DEF Processed
    <3> QED BY <2>1, <2>2, <2>3, <3>4, <3>5, <3>6, <3>7, PublishedFromChecks
  <2> QED BY <2>5, <2>6, <2>7
<1> QED BY <1>1, TallyInvariant, PTL

-----------------------------------------------------------------------------
(* No honest tally is turned away.                                         *)

(* The votes of a ballot box at node 1.                                    *)
LEMMA HonestNodeOne ==
    ASSUME IsTallyDataset(d), HonestTally, NEW b \in BallotBoxes,
           NEW h, h = First(NodeOne(b))
    PROVE  /\ NodeOne(b) # {} /\ h \in NodeOnePayloads /\ d.bb[h].box = b /\ d.bb[h].node = 1
           /\ d.bb[h].votes \in Seq(Vote)
           /\ \A i, k \in DOMAIN d.bb[h].votes :
                d.bb[h].votes[i].vcid = d.bb[h].votes[k].vcid => i = k
           /\ \A i \in DOMAIN d.bb[h].votes : HonestVote(d.bb[h].votes[i], d.ctx[b], d.psi[b])
<1>1. EachNodeOnce(d.bb, b)
  BY DEF HonestTally, HonestEvidence, HonestFiles, BallotBoxes
<1>2. NodeOne(b) # {}
  BY <1>1 DEF EachNodeOnce, NodeOne, BallotBoxIndices, Node
<1>3. h \in NodeOne(b)
  <2>1. NodeOne(b) \subseteq Nat
    BY DEF IsTallyDataset, IsDataset, NodeOne, BallotBoxIndices
  <2>2. \E m \in NodeOne(b) : \A k \in NodeOne(b) : m <= k
    BY <1>2, <2>1, LeastNatural
  <2> QED BY <2>2 DEF First
<1>4. h \in DOMAIN d.bb /\ d.bb[h].box = b /\ d.bb[h].node = 1
  BY <1>3 DEF NodeOne, BallotBoxIndices
<1>5. d.bb[h].votes \in Seq(Vote)
  BY <1>4, VotesSeq
<1>6. ASSUME NEW i \in DOMAIN d.bb[h].votes, NEW k \in DOMAIN d.bb[h].votes,
             d.bb[h].votes[i].vcid = d.bb[h].votes[k].vcid
      PROVE  i = k
  BY <1>4, <1>6 DEF HonestTally, HonestBallotBoxes
<1>7. ASSUME NEW i \in DOMAIN d.bb[h].votes
      PROVE  HonestVote(d.bb[h].votes[i], d.ctx[b], d.psi[b])
  <2>1. d.bb[h].votes[i] \in ToSet(d.bb[h].votes)
    BY DEF ToSet
  <2> QED BY <1>4, <2>1 DEF HonestTally, HonestBallotBoxes
<1> QED BY <1>2, <1>4, <1>5, <1>6, <1>7 DEF NodeOnePayloads

(* All nodes confirmed as many votes, and the mix net got as many or two.  *)
LEMMA HonestCounts ==
    ASSUME IsTallyDataset(d), HonestTally, NEW b \in BallotBoxes,
           NEW n, n = Len(d.bb[First(NodeOne(b))].votes)
    PROVE  n \in Nat /\ Confirmed(b) = {n} /\ Expected(b) = {n}
<1> DEFINE h == First(NodeOne(b))
           t == d.bb[h].votes
<1>1. /\ h \in DOMAIN d.bb /\ d.bb[h].box = b /\ d.bb[h].node = 1 /\ t \in Seq(Vote)
      /\ \A i, k \in DOMAIN t : t[i].vcid = t[k].vcid => i = k
  BY HonestNodeOne DEF NodeOnePayloads
<1>2. NodeIdsOk
  BY HonestNodeIds DEF HonestTally, HonestEvidence
<1> HIDE DEF h
<1>3. ASSUME NEW j \in NodesOf(d.bb, b)
      PROVE  Len(LastOf(d.bb, b, j).votes) = n
  <2>1. PICK k \in DOMAIN d.bb : d.bb[k].box = b /\ d.bb[k].node = j
    BY DEF NodesOf
  <2>2. LastOf(d.bb, b, j) = d.bb[k]
    BY <1>2, <2>1, OnlyPayload
  <2>3. d.bb[k].votes \in Seq(Vote) /\ SameMultiset(d.bb[k].votes, t)
    BY <1>1, <2>1, VotesSeq DEF HonestTally, HonestBallotBoxes
  <2>4. Len(d.bb[k].votes) = Len(t)
    <3> HIDE DEF t
    <3> QED BY <1>1, <2>3, SameVotesSameLength
  <2> QED BY <2>2, <2>4 DEF h
<1>4. 1 \in NodesOf(d.bb, b)
  BY <1>1 DEF NodesOf
<1>5. Confirmed(b) = {n}
  BY <1>3, <1>4 DEF Confirmed
<1>6. n \in Nat
  BY <1>1 DEF h
<1> QED BY <1>5, <1>6, FS_Singleton DEF Expected

LEMMA HonestInitial ==
    ASSUME IsTallyDataset(d), HonestTally, NEW b \in ShuffleBoxes,
           NEW n, n = Len(d.bb[First(NodeOne(b))].votes)
    PROVE  /\ b \in BallotBoxes /\ VotesEncrypted(b)
           /\ Len(InitialCiphertexts(b)) = IF n < 2 THEN n + 2 ELSE n
           /\ \A i \in 1..Len(InitialCiphertexts(b)) :
                InitialCiphertexts(b)[i].m \in Valid \cup {One}
<1> DEFINE h == First(NodeOne(b))
           votes == d.bb[h].votes
           cv == ConfirmedVotes(votes)
           t == Trivial(d.ctx[b])
           init == InitialCiphertexts(b)
           Encrypted(c) == /\ c.m \in Valid \cup {One}
                           /\ \A x \in Holder : c.e[x] = c.r
<1>1. b \in BallotBoxes
  <2>1. EachNodeOnce(d.bb, b) /\ 1 \in Node
    BY DEF HonestTally, HonestEvidence, HonestFiles, Node
  <2> QED BY <2>1 DEF EachNodeOnce, BallotBoxes
<1>2. /\ votes \in Seq(Vote)
      /\ \A i, k \in DOMAIN votes : votes[i].vcid = votes[k].vcid => i = k
      /\ \A i \in DOMAIN votes : HonestVote(votes[i], d.ctx[b], d.psi[b])
  BY <1>1, HonestNodeOne
<1>3. init = IF Len(cv) < 2 THEN cv \o <<t, t>> ELSE cv
  BY DEF InitialCiphertexts
<1>4. t \in Ciphertext /\ Encrypted(t)
  <2>1. d.pk = [x \in Holder |-> 1]
    BY DEF HonestTally, HonestEvidence, KeysGenuine
  <2>2. d.ctx[b] \in Nat /\ d.width[0] \in Nat
    BY HonestStart, WidthTypes DEF HonestTally, HonestEvidence, IsTallyDataset, IsDataset
  <2> QED BY <2>1, <2>2 DEF Trivial, Smaller, Ciphertext, Key
<1> HIDE DEF h, votes, t
<1>5. /\ cv \in Seq(Ciphertext)
      /\ \A i \in 1..Len(cv) : \E k \in DOMAIN votes : cv[i] = votes[k].ct
  BY <1>2, ConfirmedVotesType
<1>6. Len(cv) = n
  BY <1>2, AllVotesListed DEF votes, h
<1>7. \A i \in 1..Len(cv) : Encrypted(cv[i])
  BY <1>2, <1>5 DEF HonestVote
<1> HIDE DEF init, cv, Encrypted
<1>8. /\ Len(init) = IF n < 2 THEN n + 2 ELSE n
      /\ \A i \in 1..Len(init) : Encrypted(init[i])
  <2>1. CASE Len(cv) < 2
    <3>1. Len(init) = Len(cv) + 2
      BY <1>3, <1>4, <1>5, <2>1
    <3>2. \A i \in 1..Len(init) : (i \in 1..Len(cv) /\ init[i] = cv[i]) \/ init[i] = t
      BY <1>3, <1>4, <1>5, <2>1, <3>1
    <3> QED BY <1>4, <1>6, <1>7, <2>1, <3>1, <3>2
  <2>2. CASE ~(Len(cv) < 2)
    BY <1>3, <1>6, <1>7, <2>2
  <2> QED BY <2>1, <2>2
<1> QED BY <1>1, <1>8 DEF VotesEncrypted, Encrypted, init

(* The votes come through the mix net: by the first node that would lose   *)
(* one.                                                                    *)
LEMMA HonestMixKeepsVotes ==
    ASSUME IsTallyDataset(d), HonestTally, NEW b \in ShuffleBoxes
    PROVE  \A i \in ShuffleIndices(b) :
             HoldsVotes(b, d.shuffles[i].decrypted, d.shuffles[i].node + 1)
<1> DEFINE Got(i) == HoldsVotes(b, Received(b, d.shuffles[i].node), d.shuffles[i].node)
           Leaves(i) == HoldsVotes(b, d.shuffles[i].decrypted, d.shuffles[i].node + 1)
<1>1. IsDataset(d) /\ HonestEvidence
  BY DEF IsTallyDataset, HonestTally
<1>2. /\ NodeOne(b) # {} /\ b \in DOMAIN d.ctx
      /\ Received(b, 1) = InitialCiphertexts(b)
  BY <1>1, HonestStart DEF HonestEvidence
<1>3. /\ \A i \in ShuffleIndices(b) : d.shuffles[i].node \in Node
      /\ \A j \in Node : \E i \in ShuffleIndices(b) : d.shuffles[i].node = j
      /\ \A i, k \in ShuffleIndices(b) : d.shuffles[i].node = d.shuffles[k].node => i = k
  BY <1>1, HonestNodeIds, OneOfEachNode DEF HonestEvidence
<1>4. Judged
  BY <1>1, HonestNodeIds, HonestDecryptions DEF Judged, HonestEvidence
<1>5. ASSUME NEW i \in ShuffleIndices(b), Got(i)
      PROVE  Leaves(i)
  <2>1. i \in DOMAIN d.shuffles /\ d.shuffles[i].box = b
    BY DEF ShuffleIndices
  <2>2. PICK j \in Node : j = d.shuffles[i].node
    BY <1>3
  <2>3. PICK cs : cs = Received(b, j)
    OBVIOUS
  <2>4. PayloadProblems(i, cs) = {}
    BY <1>1, <2>1, <2>2, <2>3, HonestPayloads, PredecessorIsNodeBefore
  <2>5. HoldsVotes(b, cs, j)
    BY <1>5, <2>2, <2>3
  <2> QED BY <1>1, <1>2, <1>4, <2>1, <2>2, <2>4, <2>5, PayloadKeepsVotes
<1> DEFINE Bad == {j \in Node : \E i \in ShuffleIndices(b) : d.shuffles[i].node = j /\ ~Got(i)}
<1>6. Bad = {}
  <2> SUFFICES ASSUME Bad # {} PROVE FALSE
    OBVIOUS
  <2>1. Bad \subseteq Nat
    BY DEF Node
  <2>2. PICK j \in Bad : \A k \in Bad : j <= k
    <3> HIDE DEF Bad
    <3> QED BY <2>1, LeastNatural
  <2>3. PICK i \in ShuffleIndices(b) : d.shuffles[i].node = j /\ ~Got(i)
    BY <2>2
  <2>4. j # 1
    <3>1. HoldsVotes(b, InitialCiphertexts(b), 1)
      BY <1>1, <1>2, HonestInitial, InitialHolds
    <3> QED BY <1>2, <2>3, <3>1
  <2>5. j - 1 \in Node /\ j - 1 \notin Bad /\ (j - 1) + 1 = j
    <3>1. j \in Node
      BY <2>2
    <3>2. j - 1 \in Node /\ ~(j <= j - 1) /\ (j - 1) + 1 = j
      BY <2>4, <3>1 DEF Node
    <3> QED BY <2>2, <3>2
  <2>6. PICK k \in ShuffleIndices(b) : d.shuffles[k].node = j - 1
    BY <1>3, <2>5
  <2>7. Got(k)
    BY <2>5, <2>6
  <2>8. (CHOOSE l \in ShuffleIndices(b) : d.shuffles[l].node = j - 1) = k
    BY <1>3, <2>6
  <2>9. Received(b, j) = d.shuffles[k].decrypted
    BY <2>4, <2>8 DEF Received
  <2>10. Leaves(k)
    BY <1>5, <2>7
  <2> QED BY <2>3, <2>5, <2>6, <2>9, <2>10
<1>7. \A i \in ShuffleIndices(b) : Got(i)
  BY <1>3, <1>6
<1> QED BY <1>5, <1>7

(* The plaintexts are of the ballot box's width, each is One or a valid    *)
(* vote with nothing left on it, and as many are cast as node 1 confirmed. *)
LEMMA HonestPlaintexts ==
    ASSUME IsTallyDataset(d), HonestTally, NEW b \in FinalBoxes,
           NEW n, n = Len(d.bb[First(NodeOne(b))].votes)
    PROVE  /\ b \in ShuffleBoxes /\ Cardinality(FinalIndices(b)) = 1 /\ FinalOk(b)
           /\ FinalPayloadOf(b) \in FinalPayload
           /\ Len(FinalPayloadOf(b).plain) = Len(InitialCiphertexts(b))
           /\ ~ProcessFails(b)
           /\ Len(Processed(b)) = n
<1> DEFINE plain == FinalPayloadOf(b).plain
           init == InitialCiphertexts(b)
           h == First(NodeOne(b))
           votes == d.bb[h].votes
<1>1. IsDataset(d) /\ HonestEvidence /\ KeysGenuine
  BY DEF IsTallyDataset, HonestTally, HonestEvidence
<1>2. Cardinality(FinalIndices(b)) = 1 /\ FinalOk(b)
  BY <1>1, HonestFinals DEF FinalsOk
<1>3. b \in ShuffleBoxes
  BY <1>1 DEF FinalBoxes, HonestEvidence, HonestFinal
<1>4. /\ First(NodeLast(b)) \in DOMAIN d.shuffles
      /\ d.shuffles[First(NodeLast(b))].box = b
      /\ d.shuffles[First(NodeLast(b))].node = N
      /\ FinalPayloadOf(b) \in FinalPayload
  BY <1>1, <1>2, FinalEvidence
<1>5. NodeOne(b) # {} /\ b \in DOMAIN d.ctx
  BY <1>1, <1>3, HonestStart DEF HonestEvidence
<1>6. TalliesVotes(b)
  <2>1. HoldsVotes(b, d.shuffles[First(NodeLast(b))].decrypted, N + 1)
    BY <1>3, <1>4, HonestMixKeepsVotes DEF ShuffleIndices
  <2> QED BY <1>1, <1>2, <1>5, <2>1, FinalTallies
<1>7. plain \in Seq(Plaintext)
  BY <1>4 DEF FinalPayload
<1>8. /\ b \in BallotBoxes
      /\ \A i \in 1..Len(init) : init[i].m \in Valid \cup {One}
      /\ Len(init) \in Nat /\ Len(init) >= 2
  BY <1>1, <1>3, HonestInitial, HonestStart DEF HonestEvidence
<1>9. /\ Len(plain) = Len(init) /\ DOMAIN plain = 1..Len(init)
      /\ \A i \in 1..Len(init) : plain[i].m \in Valid \cup {One}
      /\ \A i \in 1..Len(init) : \A x \in Holder : plain[i].e[x] = 0
  <2>1. PICK p \in [1..Len(plain) -> 1..Len(plain)] :
          \A i \in 1..Len(plain) :
            plain[i].m = init[p[i]].m /\ \A x \in Holder : plain[i].e[x] = 0
    BY <1>6 DEF TalliesVotes, Tallies
  <2>2. Len(plain) = Len(init)
    BY <1>6 DEF TalliesVotes, Tallies
  <2> HIDE DEF plain, init
  <2> QED BY <1>7, <1>8, <2>1, <2>2
<1>10. \A i \in 1..Len(init) : plain[i].w = d.ctx[b]
  <2>1. /\ Len(plain) = Len(d.shuffles[First(NodeLast(b))].decrypted)
        /\ \A i \in 1..Len(d.shuffles[First(NodeLast(b))].decrypted) : plain[i].w = d.ctx[b]
    BY <1>2 DEF FinalOk
  <2> QED BY <1>9, <2>1
<1>11. ~ProcessFails(b)
  <2>1. ~(Len(plain) < 2)
    BY <1>8, <1>9
  <2>2. \A i \in DOMAIN plain : IsOnes(plain[i]) \/ Decodes(plain[i])
    BY <1>9 DEF IsOnes, Decodes
  <2>3. \A i \in DOMAIN plain : plain[i].w = d.ctx[b]
    BY <1>9, <1>10
  <2> HIDE DEF plain
  <2> QED BY <2>1, <2>2, <2>3 DEF ProcessFails, plain
<1>12. /\ votes \in Seq(Vote)
       /\ \A i, k \in DOMAIN votes : votes[i].vcid = votes[k].vcid => i = k
       /\ \A i \in DOMAIN votes : votes[i].ct.m \in Msg \ {One}
  <2>1. Valid \subseteq Msg \ {One}
    BY ValidAssumption
  <2> QED BY <1>8, <2>1, HonestNodeOne DEF HonestVote
<1>13. Len(Processed(b)) = Cardinality({i \in 1..Len(plain) : plain[i].m \in Msg \ {One}})
  <2>1. \A i \in DOMAIN plain : \A x \in Holder : plain[i].e[x] = 0
    BY <1>9
  <2>2. PICK s \in Seq(Plaintext) : s = plain
    BY <1>7
  <2> HIDE DEF plain
  <2>3. Len(Cast(s)) = Cardinality({i \in 1..Len(s) : s[i].m \in Msg \ {One}})
    BY <2>1, <2>2, CastKeeps
  <2> QED BY <2>2, <2>3 DEF Processed, plain
<1>14. Len(Processed(b)) = Cardinality({i \in DOMAIN votes : votes[i].ct.m \in Msg \ {One}})
  <2>1. PICK list : list = votes
    OBVIOUS
  <2>2. PICK s : s = plain
    OBVIOUS
  <2>3. /\ list = d.bb[First(NodeOne(b))].votes /\ s = FinalPayloadOf(b).plain
        /\ list \in Seq(Vote) /\ \A i, k \in DOMAIN list : list[i].vcid = list[k].vcid => i = k
    BY <1>12, <2>1, <2>2
  <2>4. PICK V : V = Msg \ {One} /\ One \notin V
    OBVIOUS
  <2>5. Cardinality({i \in 1..Len(s) : s[i].m \in V})
          = Cardinality({i \in DOMAIN list : list[i].ct.m \in V})
    <3> HIDE DEF votes, plain
    <3> QED BY <1>1, <1>5, <1>6, <2>3, <2>4, MessagesReach
  <2> QED BY <1>13, <2>1, <2>2, <2>4, <2>5
<1>15. {i \in DOMAIN votes : votes[i].ct.m \in Msg \ {One}} = 1..n /\ n \in Nat
  BY <1>12
<1>16. Cardinality(1..n) = n
  BY <1>15, FS_Interval
<1> QED BY <1>2, <1>3, <1>4, <1>9, <1>11, <1>14, <1>15, <1>16

(* What the checks before the chain find.                                  *)
LEMMA HonestIds ==
    ASSUME IsTallyDataset(d), HonestTally
    PROVE  /\ NodeIdsOk /\ Complete /\ BallotBoxIdsOk /\ FinalIdsOk /\ ~WidthsCrash
           /\ ShuffleBoxes \subseteq BallotBoxes
           /\ FinalIndices(NoBox) = {} /\ VotesIndices(NoBox) = {}
<1>1. IsDataset(d) /\ HonestEvidence /\ HonestFiles /\ HonestBallotBoxes /\ HonestPublished
  BY DEF IsTallyDataset, HonestTally, HonestEvidence
<1>2. NodeIdsOk
  BY <1>1, HonestNodeIds
<1>3. FinalBoxes \subseteq ShuffleBoxes /\ FinalIndices(NoBox) = {}
  BY <1>1, HonestFinals DEF FinalBoxes, FinalsOk, HonestEvidence, HonestFinal
<1>4. BallotBoxes \cup ShuffleBoxes \cup FinalBoxes \cup VotesBoxes \subseteq DOMAIN d.ctx
  BY <1>1, <1>3 DEF HonestBallotBoxes, HonestPublished, HonestFiles
<1>5. ShuffleBoxes \subseteq BallotBoxes
  BY HonestInitial
<1>6. Complete
  BY <1>1, <1>2 DEF Complete, HonestTally, HonestBallotBoxes
<1>7. "11.01" \notin d.badForm
  BY DEF HonestTally
<1> QED BY <1>1, <1>2, <1>3, <1>4, <1>5, <1>6, <1>7
        DEF BallotBoxIdsOk, FinalIdsOk, WidthsCrash, HonestPublished

LEMMA HonestForms ==
    ASSUME IsTallyDataset(d), HonestTally, NEW id
    PROVE  ~d.missing /\ FormOk(id)
BY HonestIds DEF HonestTally, FormOk

LEMMA HonestVotes ==
    ASSUME IsTallyDataset(d), HonestTally
    PROVE  CardsOk /\ SameVotesOk /\ ProofsOk
<1>1. HonestBallotBoxes /\ NodeIdsOk /\ d.keyed \subseteq d.cards /\ BallotBoxes \subseteq DOMAIN d.ctx
  BY HonestIds DEF HonestTally, HonestBallotBoxes, IsTallyDataset
<1>2. CardsOk
  BY <1>1 DEF CardsOk, HonestBallotBoxes, HonestVote
<1>3. SameVotesOk
  <2> SUFFICES ASSUME NEW b \in BallotBoxes, NEW j \in NodesOf(d.bb, b), NEW k \in NodesOf(d.bb, b)
               PROVE  SameMultiset(LastOf(d.bb, b, j).votes, LastOf(d.bb, b, k).votes)
    BY DEF SameVotesOk
  <2>1. PICK l \in DOMAIN d.bb : d.bb[l].box = b /\ d.bb[l].node = j
    BY DEF NodesOf
  <2>2. PICK m \in DOMAIN d.bb : d.bb[m].box = b /\ d.bb[m].node = k
    BY DEF NodesOf
  <2>3. LastOf(d.bb, b, j) = d.bb[l] /\ LastOf(d.bb, b, k) = d.bb[m]
    BY <1>1, <2>1, <2>2, OnlyPayload
  <2> QED BY <1>1, <2>1, <2>2, <2>3 DEF HonestBallotBoxes
<1>4. NodeOnePayloads # {}
  <2>1. DOMAIN d.bb # {}
    BY <1>1 DEF HonestBallotBoxes, IsTallyDataset, IsDataset
  <2>2. PICK i \in DOMAIN d.bb : TRUE
    BY <2>1
  <2>3. d.bb[i].box \in BallotBoxes
    BY DEF BallotBoxes
  <2> QED BY <2>3, HonestNodeOne
<1>5. ASSUME NEW i \in NodeOnePayloads
      PROVE  /\ d.bb[i].box \in DOMAIN d.ctx
             /\ \A k \in DOMAIN d.bb[i].votes :
                  LET v == d.bb[i].votes[k]
                  IN  /\ v.vcid \in d.keyed
                      /\ v.proven
                      /\ \A j \in NodeOnePayloads : \A l \in DOMAIN d.bb[j].votes :
                           d.bb[j].votes[l].vcid = v.vcid => <<j, l>> = <<i, k>>
  <2>1. i \in DOMAIN d.bb /\ d.bb[i].node = 1 /\ d.bb[i].box \in DOMAIN d.ctx
    BY <1>1 DEF NodeOnePayloads, BallotBoxes
  <2>2. ASSUME NEW k \in DOMAIN d.bb[i].votes
        PROVE  d.bb[i].votes[k].vcid \in d.keyed /\ d.bb[i].votes[k].proven
    <3>1. d.bb[i].votes[k] \in ToSet(d.bb[i].votes)
      BY DEF ToSet
    <3> QED BY <1>1, <2>1, <3>1 DEF HonestBallotBoxes, HonestVote
  <2>3. ASSUME NEW k \in DOMAIN d.bb[i].votes, NEW j \in NodeOnePayloads,
               NEW l \in DOMAIN d.bb[j].votes, d.bb[j].votes[l].vcid = d.bb[i].votes[k].vcid
        PROVE  <<j, l>> = <<i, k>>
    <3>1. j \in DOMAIN d.bb /\ d.bb[j].node = d.bb[i].node
      BY <2>1 DEF NodeOnePayloads
    <3> QED BY <1>1, <2>1, <2>3, <3>1 DEF HonestBallotBoxes
  <2> QED BY <2>1, <2>2, <2>3
<1> QED BY <1>2, <1>3, <1>4, <1>5 DEF ProofsOk

LEMMA HonestTallyWidths ==
    ASSUME IsTallyDataset(d), HonestTally
    PROVE  WidthsOk /\ PlaintextWidthsOk
<1>1. IsDataset(d) /\ HonestEvidence /\ HonestBallotBoxes
  BY DEF IsTallyDataset, HonestTally
<1>2. ASSUME NEW i \in DOMAIN d.bb, NEW v \in ToSet(d.bb[i].votes)
      PROVE  <<v.ct.w, v.exp, v.codes>> = <<d.ctx[d.bb[i].box], 1, d.psi[d.bb[i].box]>>
  BY <1>1 DEF HonestBallotBoxes, HonestVote
<1>3. ASSUME NEW i \in DOMAIN d.shuffles,
             NEW c \in ToSet(d.shuffles[i].shuffled) \cup ToSet(d.shuffles[i].decrypted)
      PROVE  c.w = d.ctx[d.shuffles[i].box]
  <2> DEFINE p == d.shuffles[i]
  <2>1. i \in ShuffleIndices(p.box) /\ p.box \in ShuffleBoxes
    BY DEF ShuffleIndices, ShuffleBoxes
  <2>2. /\ Sized(p.shuffled, Len(InitialCiphertexts(p.box)), d.ctx[p.box])
        /\ Sized(p.decrypted, Len(InitialCiphertexts(p.box)), d.ctx[p.box])
    BY <1>1, <2>1, HonestMixKeepsSize
  <2> HIDE DEF p
  <2>3. /\ p.shuffled \in Seq(Ciphertext) /\ p.decrypted \in Seq(Ciphertext)
        /\ \A k \in DOMAIN p.shuffled : p.shuffled[k].w = d.ctx[p.box]
        /\ \A k \in DOMAIN p.decrypted : p.decrypted[k].w = d.ctx[p.box]
    BY <2>2 DEF Sized
  <2> QED BY <1>3, <2>3 DEF ToSet, p
<1>4. ASSUME NEW b \in FinalBoxes
      PROVE  /\ Cardinality(FinalIndices(b)) = 1
             /\ b \in DOMAIN d.ctx
             /\ Readable(FinalPayloadOf(b))
             /\ \A p \in ToSet(FinalPayloadOf(b).plain) : p.w = d.ctx[b]
  <2>1. Cardinality(FinalIndices(b)) = 1 /\ FinalOk(b) /\ FinalPayloadOf(b) \in FinalPayload
    BY HonestPlaintexts
  <2> DEFINE plain == FinalPayloadOf(b).plain
  <2>2. plain \in Seq(Plaintext)
    BY <2>1 DEF FinalPayload
  <2>3. \A k \in 1..Len(plain) : plain[k].w = d.ctx[b]
    BY <2>1 DEF FinalOk
  <2>4. b \in DOMAIN d.ctx /\ Readable(FinalPayloadOf(b))
    BY <2>1 DEF FinalOk, Readable
  <2> QED BY <2>1, <2>2, <2>3, <2>4 DEF ToSet
<1> QED BY <1>2, <1>3, <1>4, HonestIds DEF WidthsOk, PlaintextWidthsOk

LEMMA HonestNumbers ==
    ASSUME IsTallyDataset(d), HonestTally
    PROVE  CountsOk
<1>1. IsDataset(d) /\ HonestEvidence /\ HonestPublished /\ NodeIdsOk
      /\ ShuffleBoxes \subseteq BallotBoxes
      /\ FinalIndices(NoBox) = {} /\ VotesIndices(NoBox) = {}
  BY HonestIds DEF IsTallyDataset, HonestTally
<1>2. ASSUME NEW b \in BallotBoxes
      PROVE  Cardinality(Confirmed(b)) = 1
  BY HonestCounts, FS_Singleton
<1>3. ASSUME NEW b \in ShuffleBoxes
      PROVE  /\ Cardinality(Shuffled(b)) = 1 /\ ExpectedHat(b) \subseteq Shuffled(b)
             /\ ExpectedHat(b) = {Len(InitialCiphertexts(b))}
  <2> DEFINE m == Len(InitialCiphertexts(b))
  <2>1. PICK n : n = Len(d.bb[First(NodeOne(b))].votes)
    OBVIOUS
  <2>2. m = IF n < 2 THEN n + 2 ELSE n
    BY <2>1, HonestInitial
  <2>3. Expected(b) = {n}
    BY <1>1, <2>1, HonestCounts
  <2>4. ExpectedHat(b) = {m}
    BY <2>2, <2>3 DEF ExpectedHat
  <2>5. ASSUME NEW j \in NodesOf(d.shuffles, b)
        PROVE  Len(LastOf(d.shuffles, b, j).shuffled) = m
    <3> DEFINE Is(i) == /\ d.shuffles[i].box = b /\ d.shuffles[i].node = j
                        /\ \A k \in DOMAIN d.shuffles :
                             d.shuffles[k].box = b /\ d.shuffles[k].node = j => k <= i
    <3>1. PICK i \in ShuffleIndices(b) : d.shuffles[i].node = j
      BY DEF NodesOf, ShuffleIndices
    <3>2. i \in DOMAIN d.shuffles /\ d.shuffles[i].box = b /\ i \in Nat
      BY <1>1, <3>1, PayloadType DEF ShuffleIndices
    <3>3. \A k \in DOMAIN d.shuffles : d.shuffles[k].box = b /\ d.shuffles[k].node = j => k = i
      BY <1>1, <3>1, OneOfEachNode DEF ShuffleIndices
    <3>4. Is(i) /\ \A k \in DOMAIN d.shuffles : Is(k) => k = i
      BY <3>1, <3>2, <3>3
    <3>5. LastOf(d.shuffles, b, j) = d.shuffles[CHOOSE k \in DOMAIN d.shuffles : Is(k)]
      BY DEF LastOf
    <3> HIDE DEF Is
    <3>6. LastOf(d.shuffles, b, j) = d.shuffles[i]
      BY <3>2, <3>4, <3>5
    <3>7. Sized(d.shuffles[i].shuffled, m, d.ctx[b])
      BY <1>1, <3>1, HonestMixKeepsSize
    <3> QED BY <3>6, <3>7 DEF Sized
  <2>6. NodesOf(d.shuffles, b) # {}
    BY DEF ShuffleBoxes, NodesOf
  <2> HIDE DEF m
  <2>7. Shuffled(b) = {m}
    BY <2>5, <2>6 DEF Shuffled
  <2> QED BY <2>4, <2>7, FS_Singleton DEF m
<1>4. ASSUME NEW i \in DOMAIN d.votes
      PROVE  VotesCountOk(i)
  <2> DEFINE p == d.votes[i]
             b == p.box
  <2>1. b # NoBox /\ b \in VotesBoxes
    BY <1>1 DEF VotesIndices, VotesBoxes
  <2>2. b \in FinalBoxes
    BY <1>1, <2>1 DEF HonestPublished
  <2>3. PICK n : n = Len(d.bb[First(NodeOne(b))].votes)
    OBVIOUS
  <2>4. Len(Processed(b)) = n /\ b \in BallotBoxes
    BY <1>1, <2>2, <2>3, HonestPlaintexts
  <2>5. Expected(b) = {n}
    BY <2>3, <2>4, HonestCounts
  <2>6. p.wf /\ p.decrypted = Processed(b) /\ p.decoded = Processed(b) /\ p.writeIns = Processed(b)
    BY <1>1 DEF HonestPublished
  <2> QED BY <2>1, <2>4, <2>5, <2>6 DEF VotesCountOk
<1>5. ASSUME NEW i \in DOMAIN d.finals
      PROVE  FinalCountOk(i)
  <2> DEFINE p == d.finals[i]
             b == p.box
             m == Len(InitialCiphertexts(b))
  <2>1. b # NoBox /\ b \in FinalBoxes
    BY <1>1 DEF FinalIndices, FinalBoxes
  <2>2. HonestFinal(p)
    BY <1>1 DEF HonestEvidence
  <2>3. p.lacks = "nothing" /\ Len(p.plain) = Len(p.shuffled)
    BY <2>2 DEF HonestFinal
  <2>4. FinalIndices(b) = {i}
    BY <1>1 DEF FinalIndices, HonestEvidence, HonestFiles
  <2>5. FinalPayloadOf(b) = p
    <3>1. i \in Nat
      BY <1>1 DEF IsDataset
    <3> QED BY <2>4, <3>1 DEF FinalPayloadOf
  <2>6. Len(p.plain) = m /\ b \in ShuffleBoxes
    BY <2>1, <2>5, HonestPlaintexts
  <2>7. ExpectedHat(b) = {m}
    BY <1>3, <2>6
  <2> QED BY <2>1, <2>3, <2>6, <2>7 DEF FinalCountOk
<1> QED BY <1>2, <1>3, <1>4, <1>5 DEF CountsOk

(* 11.03 and 11.04: what was published is what the plaintexts give.        *)
LEMMA HonestTallied ==
    ASSUME IsTallyDataset(d), HonestTally
    PROVE  ~VotesCrash /\ VotesOk
<1>1. IsDataset(d) /\ HonestPublished
      /\ FinalIndices(NoBox) = {} /\ VotesIndices(NoBox) = {}
  BY HonestIds DEF IsTallyDataset, HonestTally
<1>2. ASSUME NEW b \in VotesBoxes
      PROVE  /\ Cardinality(VotesIndices(b)) = 1
             /\ Comparable(b) /\ VotesPayloadOf(b).wf
             /\ VotesPayloadOf(b).decrypted = Processed(b)
             /\ VotesPayloadOf(b).decoded = Processed(b)
             /\ VotesPayloadOf(b).writeIns = Processed(b)
  <2>1. PICK i \in DOMAIN d.votes : d.votes[i].box = b
    BY DEF VotesBoxes
  <2>2. VotesIndices(b) = {i}
    BY <1>1, <2>1 DEF VotesIndices, HonestPublished
  <2>3. VotesPayloadOf(b) = d.votes[i]
    <3>1. i \in Nat
      BY <2>1 DEF IsTallyDataset
    <3> QED BY <2>2, <3>1 DEF VotesPayloadOf
  <2>4. b \in FinalBoxes
    BY <1>1 DEF HonestPublished
  <2>5. ~ProcessFails(b) /\ FinalOk(b)
    BY <2>4, HonestPlaintexts
  <2>6. Comparable(b)
    BY <2>4, <2>5 DEF Comparable, FinalOk, FinalBoxes, FinalIndices, Readable
  <2>7. Cardinality(VotesIndices(b)) = 1
    BY <2>2, FS_Singleton
  <2> QED BY <1>1, <2>1, <2>3, <2>6, <2>7 DEF HonestPublished
<1>3. d.finals = <<>> <=> d.votes = <<>>
  <2>1. d.finals \in Seq(FinalPayload) /\ d.votes \in Seq(VotesPayload)
    BY DEF IsTallyDataset, IsDataset
  <2>2. PICK m \in Nat, n \in Nat : /\ m = Len(d.finals) /\ DOMAIN d.finals = 1..m
                                   /\ n = Len(d.votes) /\ DOMAIN d.votes = 1..n
    BY <2>1
  <2>3. /\ d.finals = <<>> <=> DOMAIN d.finals = {}
        /\ d.votes = <<>> <=> DOMAIN d.votes = {}
    <3>1. (d.finals = <<>> <=> m = 0) /\ (d.votes = <<>> <=> n = 0)
      BY <2>1, <2>2
    <3>2. (m = 0 <=> 1..m = {}) /\ (n = 0 <=> 1..n = {})
      OBVIOUS
    <3> QED BY <2>2, <3>1, <3>2
  <2>4. DOMAIN d.finals = {} <=> FinalBoxes = {}
    BY <1>1 DEF FinalBoxes, FinalIndices
  <2>5. DOMAIN d.votes = {} <=> VotesBoxes = {}
    BY <1>1 DEF VotesBoxes, VotesIndices
  <2> QED BY <1>1, <2>2, <2>3, <2>4, <2>5 DEF HonestPublished
<1>4. ~VotesCrash
  BY <1>2 DEF VotesCrash
<1>5. \A b \in FinalBoxes : Cardinality(FinalIndices(b)) = 1
  BY HonestPlaintexts
<1>6. FinalBoxes \subseteq VotesBoxes
  BY <1>1 DEF HonestPublished
<1>7. VotesOk
  <2>1. CASE d.finals = <<>>
    BY <1>3, <2>1 DEF VotesOk
  <2>2. CASE d.finals # <<>>
    BY <1>1, <1>2, <1>3, <1>5, <1>6, <2>2 DEF VotesOk
  <2> QED BY <2>1, <2>2
<1> QED BY <1>4, <1>7

(* 10.04 starts with nothing judged and ends with everything; what it does *)
(* in between is what it does in MixDecChain.                              *)
LoopPlace ==
    /\ pc \in UpToChain => fails = {}
    /\ pc = "10.04" => LoopSoFar

LEMMA CheckKeepsPlace ==
    ASSUME TallyInv, LoopPlace, UNCHANGED <<d, loop>>, NEW id, pc = id, NEW next, pc' = next,
           ~GoesBack(id, next)
    PROVE  LoopPlace'
<1>1. next \in UpToShuffles => fails = {} /\ boxes = ShuffleBoxes /\ rest = {}
  BY DEF GoesBack, LoopPlace, TallyInv, LoopInPlace
<1>2. "10.04" \in UpToShuffles /\ UpToChain \subseteq UpToShuffles
  BY DEF UpToShuffles
<1>3. next = "10.04" => LoopSoFar'
  BY <1>1, <1>2, NothingJudged, SameLoop
<1> QED BY <1>1, <1>2, <1>3 DEF LoopPlace, loop

LEMMA StepTallyHonest ==
    ASSUME TallyInv, LoopPlace, HonestTallyAccepted, [TallyNext]_vars
    PROVE  LoopPlace' /\ HonestTallyAccepted'
<1>1. IsTallyDataset(d) /\ IsDataset(d) /\ report \in TallyEntries
  BY TallyDatasetsAssumption DEF TallyInv, IsTallyDataset
<1> DEFINE Goal == LoopPlace' /\ HonestTallyAccepted'
<1>2. ASSUME d' = d
      PROVE  HonestTally' <=> HonestTally
  <2>1. HonestEvidence' <=> HonestEvidence
    BY <1>2 DEF HonestEvidence, KeysGenuine, HonestFiles, HonestShuffle, HonestFinal, Received,
                ShuffleBoxes, ShuffleIndices, NodeOne, BallotBoxIndices
  <2>2. HonestBallotBoxes' <=> HonestBallotBoxes
    BY <1>2 DEF HonestBallotBoxes, BallotBoxes, HonestVote
  <2>3. HonestPublished' <=> HonestPublished
    BY <1>2 DEF HonestPublished, VotesIndices, VotesBoxes, FinalBoxes, Processed, FinalPayloadOf,
                FinalIndices
  <2> QED BY <1>2, <2>1, <2>2, <2>3 DEF HonestTally
<1>3. ASSUME UNCHANGED <<d, loop>>, NEW id \in TallyIds, NEW ok \in BOOLEAN, NEW next,
             Record(id, ok, next), ~GoesBack(id, next), next # "crashed", HonestTally => ok
      PROVE  Goal
  <2>1. pc = id /\ pc' = next /\ (ReportOk' <=> ReportOk /\ ok)
    BY <1>1, <1>3, RecordStep
  <2>2. LoopPlace'
    BY <1>3, <2>1, CheckKeepsPlace
  <2> QED BY <1>2, <1>3, <2>1, <2>2 DEF HonestTallyAccepted
<1>4. ASSUME UNCHANGED <<d, loop>>, NEW id, Crash(id), ~HonestTally
      PROVE  Goal
  <2>1. pc' = "crashed"
    BY <1>4 DEF Crash
  <2>2. "crashed" \notin UpToChain
    BY DEF UpToChain, UpToProofs, UpToCounts, UpToSameVotes, UpToBoxIds, UpToNodeIds
  <2> QED BY <1>2, <1>4, <2>1, <2>2 DEF HonestTallyAccepted, LoopPlace
<1>5. CASE CheckCompleteness
  <2>1. PICK ok \in BOOLEAN : ok = Complete
    BY Zenon DEF Complete
  <2>2. PICK next : next = IF d.bb = <<>> \/ d.shuffles = <<>> THEN "done" ELSE "6.02"
    OBVIOUS
  <2>3. (next = "done" \/ next = "6.02") /\ Record("6.01", ok, next) /\ UNCHANGED <<d, loop>>
    BY <1>5, <2>1, <2>2, Zenon DEF CheckCompleteness
  <2>4. ~GoesBack("6.01", next) /\ "6.01" \in TallyIds /\ next # "crashed"
    BY <2>3, OrderOfChecks DEF InOrder, TallyIds
  <2>5. HonestTally => ok
    BY <1>1, <2>1, HonestIds
  <2> QED BY <1>3, <2>3, <2>4, <2>5
<1>6. ASSUME NEW id \in FormIds, NEW next, CheckForm(id, next), InOrder(id, next), next # "crashed"
      PROVE  Goal
  <2>1. UNCHANGED <<d, loop>> /\ id \in TallyIds
    BY <1>6 DEF CheckForm, TallyIds
  <2>2. CASE d.missing /\ Crash(id)
    BY <1>1, <1>4, <2>1, <2>2, HonestForms
  <2>3. CASE Record(id, FormOk(id), next)
    <3>1. PICK ok \in BOOLEAN : ok = FormOk(id)
      BY Zenon DEF FormOk
    <3>2. Record(id, ok, next)
      BY <2>3, <3>1, Zenon
    <3>3. HonestTally => ok
      BY <1>1, <3>1, HonestForms
    <3> QED BY <1>3, <1>6, <2>1, <3>2, <3>3 DEF InOrder
  <2> QED BY <1>6, <2>2, <2>3 DEF CheckForm
<1>7. CASE \/ CheckForm("6.02", "6.03") \/ CheckForm("6.03", "6.04") \/ CheckForm("6.04", "8.01")
           \/ CheckForm("8.01", "8.02") \/ CheckForm("8.03", "8.04") \/ CheckForm("8.04", "8.05")
           \/ CheckForm("8.06", "8.07") \/ CheckForm("11.04", "done")
  BY <1>6, <1>7, OrderOfChecks DEF FormIds
<1>8. CASE CheckNodeIds("8.03")
  <2>1. PICK ok \in BOOLEAN : ok = NodeIdsOk
    BY Zenon DEF NodeIdsOk
  <2>2. Record("8.02", ok, "8.03") /\ UNCHANGED <<d, loop>>
    BY <1>8, <2>1, Zenon DEF CheckNodeIds
  <2>3. HonestTally => ok
    BY <1>1, <2>1, HonestIds
  <2> QED BY <1>3, <2>2, <2>3, OrderOfChecks DEF InOrder, TallyIds, CheckIds
<1>9. CASE CheckBallotBoxIds("8.06")
  <2>1. PICK ok \in BOOLEAN : ok = BallotBoxIdsOk
    BY Zenon DEF BallotBoxIdsOk
  <2>2. Record("8.05", ok, "8.06") /\ UNCHANGED <<d, loop>>
    BY <1>9, <2>1, Zenon DEF CheckBallotBoxIds
  <2>3. HonestTally => ok
    BY <1>1, <2>1, HonestIds
  <2> QED BY <1>3, <2>2, <2>3, OrderOfChecks DEF InOrder, TallyIds, CheckIds
<1>10. CASE CheckCards("8.08")
  <2>1. PICK ok \in BOOLEAN : ok = CardsOk
    BY Zenon DEF CardsOk
  <2>2. Record("8.07", ok, "8.08") /\ UNCHANGED <<d, loop>>
    BY <1>10, <2>1, Zenon DEF CheckCards
  <2>3. HonestTally => ok
    BY <1>1, <2>1, HonestVotes
  <2> QED BY <1>3, <2>2, <2>3, OrderOfChecks DEF InOrder, TallyIds, CheckIds
<1>11. CASE CheckSameVotes("8.09")
  <2>1. PICK ok \in BOOLEAN : ok = SameVotesOk
    BY Zenon DEF SameVotesOk
  <2>2. Record("8.08", ok, "8.09") /\ UNCHANGED <<d, loop>>
    BY <1>11, <2>1, Zenon DEF CheckSameVotes
  <2>3. HonestTally => ok
    BY <1>1, <2>1, HonestVotes
  <2> QED BY <1>3, <2>2, <2>3, OrderOfChecks DEF InOrder, TallyIds, CheckIds
<1>12. CASE CheckPlaintextWidths("8.11")
  <2>1. PICK ok \in BOOLEAN : ok = PlaintextWidthsOk
    BY Zenon DEF PlaintextWidthsOk
  <2>2. Record("8.10", ok, "8.11") /\ UNCHANGED <<d, loop>>
    BY <1>12, <2>1, Zenon DEF CheckPlaintextWidths
  <2>3. HonestTally => ok
    BY <1>1, <2>1, HonestTallyWidths
  <2> QED BY <1>3, <2>2, <2>3, OrderOfChecks DEF InOrder, TallyIds, CheckIds
<1>13. CASE CheckCounts("10.01")
  <2>1. PICK ok \in BOOLEAN : ok = CountsOk
    BY Zenon DEF CountsOk
  <2>2. Record("8.11", ok, "10.01") /\ UNCHANGED <<d, loop>>
    BY <1>13, <2>1, Zenon DEF CheckCounts
  <2>3. HonestTally => ok
    BY <1>1, <2>1, HonestNumbers
  <2> QED BY <1>3, <2>2, <2>3, OrderOfChecks DEF InOrder, TallyIds, CheckIds
<1>14. CASE CheckProofs("10.03")
  <2>1. PICK ok \in BOOLEAN : ok = ProofsOk
    BY Zenon DEF ProofsOk
  <2>2. Record("10.01", ok, "10.03") /\ UNCHANGED <<d, loop>>
    BY <1>14, <2>1, Zenon DEF CheckProofs
  <2>3. HonestTally => ok
    BY <1>1, <2>1, HonestVotes
  <2> QED BY <1>3, <2>2, <2>3, OrderOfChecks DEF InOrder, TallyIds, CheckIds
<1>15. CASE CheckDecryptions("11.01")
  <2>1. PICK ok \in BOOLEAN : ok = DecryptionsOk
    BY Zenon DEF DecryptionsOk
  <2>2. Record("10.02", ok, "11.01") /\ UNCHANGED <<d, loop>>
    BY <1>15, <2>1, Zenon DEF CheckDecryptions
  <2>3. HonestTally => ok
    BY <1>1, <2>1, HonestDecryptions DEF HonestTally
  <2> QED BY <1>3, <2>2, <2>3, OrderOfChecks DEF InOrder, TallyIds, CheckIds
<1>16. CASE CheckFinalIds("11.02")
  <2>1. PICK ok \in BOOLEAN : ok = FinalIdsOk
    BY Zenon DEF FinalIdsOk
  <2>2. Record("11.01", ok, "11.02") /\ UNCHANGED <<d, loop>>
    BY <1>16, <2>1, Zenon DEF CheckFinalIds
  <2>3. HonestTally => ok
    BY <1>1, <2>1, HonestIds
  <2> QED BY <1>3, <2>2, <2>3, OrderOfChecks DEF InOrder, TallyIds, CheckIds
<1>17. CASE CheckFinals("11.03")
  <2>1. UNCHANGED <<d, loop>>
    BY <1>17 DEF CheckFinals
  <2>2. HonestTally => FinalsOk /\ ~FinalsCrash
    BY <1>1, HonestFinals DEF HonestTally, FinalsOk, FinalOk, FinalsCrash
  <2>3. CASE FinalsCrash /\ Crash("11.02")
    BY <1>4, <2>1, <2>2, <2>3
  <2>4. CASE Record("11.02", FinalsOk, "11.03")
    <3>1. PICK ok \in BOOLEAN : ok = FinalsOk
      BY Zenon DEF FinalsOk
    <3>2. Record("11.02", ok, "11.03")
      BY <2>4, <3>1, Zenon
    <3> QED BY <1>3, <2>1, <2>2, <3>1, <3>2, OrderOfChecks DEF InOrder, TallyIds, CheckIds
  <2> QED BY <1>17, <2>3, <2>4 DEF CheckFinals
<1>18. CASE CheckWidths("8.10")
  <2>1. UNCHANGED <<d, loop>>
    BY <1>18 DEF CheckWidths
  <2>2. CASE WidthsCrash /\ Crash("8.09")
    <3>1. ~HonestTally
      BY <1>1, <2>2, HonestIds
    <3> QED BY <1>4, <2>1, <2>2, <3>1
  <2>3. CASE Record("8.09", WidthsOk, "8.10")
    <3>1. PICK ok \in BOOLEAN : ok = WidthsOk
      BY Zenon DEF WidthsOk
    <3>2. Record("8.09", ok, "8.10")
      BY <2>3, <3>1, Zenon
    <3>3. HonestTally => ok
      BY <1>1, <3>1, HonestTallyWidths
    <3> QED BY <1>3, <2>1, <3>2, <3>3, OrderOfChecks DEF InOrder, TallyIds, CheckIds
  <2> QED BY <1>18, <2>2, <2>3 DEF CheckWidths
<1>19. CASE CheckChain("10.04")
  <2>1. UNCHANGED <<d, loop>>
    BY <1>19 DEF CheckChain
  <2>2. CASE ChainCrashes /\ Crash("10.03")
    <3>1. ~HonestTally
      BY <1>1, <2>2, HonestChain DEF HonestTally
    <3> QED BY <1>4, <2>1, <2>2, <3>1
  <2>3. CASE Record("10.03", ChainOk, "10.04")
    <3>1. PICK ok \in BOOLEAN : ok = ChainOk
      BY Zenon DEF ChainOk
    <3>2. Record("10.03", ok, "10.04")
      BY <2>3, <3>1, Zenon
    <3>3. HonestTally => ok
      BY <1>1, <3>1, HonestChain DEF HonestTally
    <3> QED BY <1>3, <2>1, <3>2, <3>3, OrderOfChecks DEF InOrder, TallyIds, CheckIds
  <2> QED BY <1>19, <2>2, <2>3 DEF CheckChain
<1>20. CASE CheckVotes("11.04")
  <2>1. UNCHANGED <<d, loop>>
    BY <1>20 DEF CheckVotes
  <2>2. CASE VotesCrash /\ Crash("11.03")
    <3>1. ~HonestTally
      BY <1>1, <2>2, HonestTallied
    <3> QED BY <1>4, <2>1, <2>2, <3>1
  <2>3. CASE Record("11.03", VotesOk, "11.04")
    <3>1. PICK ok \in BOOLEAN : ok = VotesOk
      BY Zenon DEF VotesOk
    <3>2. Record("11.03", ok, "11.04")
      BY <2>3, <3>1, Zenon
    <3>3. HonestTally => ok
      BY <1>1, <3>1, HonestTallied
    <3> QED BY <1>3, <2>1, <3>2, <3>3, OrderOfChecks DEF InOrder, TallyIds, CheckIds
  <2> QED BY <1>20, <2>2, <2>3 DEF CheckVotes
<1>21. CASE CheckShuffles("10.02")
  <2>1. PICK ok \in BOOLEAN : ok = (fails = {})
    BY Zenon DEF FormOk
  <2>2. Record("10.04", ok, "10.02") /\ UNCHANGED <<d, loop>> /\ pc = "10.04"
    BY <1>21, <2>1, Zenon DEF CheckShuffles, Record
  <2>3. HonestTally => ok
    BY <1>1, <2>1, <2>2, HonestLoop DEF LoopPlace, HonestTally
  <2> QED BY <1>3, <2>2, <2>3, OrderOfChecks DEF InOrder, TallyIds, CheckIds
<1>22. CASE StartBox \/ VerifyPayload
  <2>1. pc = "10.04" /\ UNCHANGED <<d, pc, report>>
    BY <1>22 DEF StartBox, VerifyPayload
  <2>2. LoopTyped /\ LoopSoFar
    BY <2>1 DEF TallyInv, LoopInPlace, LoopPlace
  <2>3. LoopSoFar'
    BY <1>22, <2>2, StartBoxStep, VerifyPayloadStep
  <2>4. "10.04" \notin UpToChain
    BY DEF UpToChain, UpToProofs, UpToCounts, UpToSameVotes, UpToBoxIds, UpToNodeIds
  <2> QED BY <1>2, <2>1, <2>3, <2>4 DEF LoopPlace, HonestTallyAccepted, ReportOk, Failing
<1>23. CASE UNCHANGED vars
  <2>1. UNCHANGED <<d, pc, report>> /\ UNCHANGED loop
    BY <1>23 DEF vars, loop
  <2> QED BY <1>2, <2>1, SameLoop DEF LoopPlace, HonestTallyAccepted, ReportOk, Failing, loop
<1>24. CASE CombineRaises
  <2>1. UNCHANGED <<d, loop>> /\ Crash("10.04")
    BY <1>24 DEF CombineRaises
  <2>2. ~HonestTally
    BY <1>1, <1>24, HonestWidths DEF CombineRaises, HonestTally, HonestEvidence
  <2> QED BY <1>4, <2>1, <2>2
<1> QED
  BY <1>24, <1>5, <1>7, <1>8, <1>9, <1>10, <1>11, <1>12, <1>13, <1>14, <1>15, <1>16, <1>17, <1>18,
     <1>19, <1>20, <1>21, <1>22, <1>23, Zenon DEF TallyNext, MixDecChecks

(* Completeness: an honest tally passes every check and raises nothing,    *)
(* for any number of components, of ballot boxes and of votes in them, and *)
(* any order of the files (HonestTallyAccepted).                           *)
THEOREM HonestTallyPasses == TallySpec => []HonestTallyAccepted
<1>1. TallyInit => LoopPlace /\ HonestTallyAccepted
  <2> SUFFICES ASSUME TallyInit PROVE LoopPlace /\ HonestTallyAccepted
    OBVIOUS
  <2>1. pc = "6.01" /\ report = <<>> /\ fails = {}
    BY DEF TallyInit, ChainInit, ReportInit
  <2> QED BY <2>1 DEF LoopPlace, HonestTallyAccepted, ReportOk, Failing
<1>2. TallyInv /\ LoopPlace /\ HonestTallyAccepted /\ [TallyNext]_vars
        => LoopPlace' /\ HonestTallyAccepted'
  BY StepTallyHonest
<1> QED BY <1>1, <1>2, TallyInvariant, PTL DEF TallySpec

-----------------------------------------------------------------------------
(* The checks of the chain run here as in MixDecChain.                     *)

(* Where the run is, it tells which of the checks of MixDecChain have run. *)
ChainInOrder ==
    pc \notin {"done", "crashed"} =>
      /\ Ran("8.02") <=> pc \notin UpToNodeIds
      /\ Ran("10.03") <=> pc \notin UpToChain
      /\ Ran("10.04") <=> pc \notin UpToShuffles
      /\ Ran("10.02") <=> pc \notin UpToDecryptions
      /\ Ran("11.02") <=> pc \notin UpToFinals

Follows(id, next) ==
    next # "done" =>
      /\ next \notin UpToNodeIds <=> (id \notin UpToNodeIds \/ id = "8.02")
      /\ next \notin UpToChain <=> (id \notin UpToChain \/ id = "10.03")
      /\ next \notin UpToShuffles <=> (id \notin UpToShuffles \/ id = "10.04")
      /\ next \notin UpToDecryptions <=> (id \notin UpToDecryptions \/ id = "10.02")
      /\ next \notin UpToFinals <=> (id \notin UpToFinals \/ id = "11.02")

LEMMA ChecksFollow ==
    /\ Follows("6.01", "6.02") /\ Follows("6.02", "6.03") /\ Follows("6.03", "6.04")
    /\ Follows("6.04", "8.01") /\ Follows("8.01", "8.02") /\ Follows("8.02", "8.03")
    /\ Follows("8.03", "8.04") /\ Follows("8.04", "8.05") /\ Follows("8.05", "8.06")
    /\ Follows("8.06", "8.07") /\ Follows("8.07", "8.08") /\ Follows("8.08", "8.09")
    /\ Follows("8.09", "8.10") /\ Follows("8.10", "8.11") /\ Follows("8.11", "10.01")
    /\ Follows("10.01", "10.03") /\ Follows("10.03", "10.04") /\ Follows("10.04", "10.02")
    /\ Follows("10.02", "11.01") /\ Follows("11.01", "11.02") /\ Follows("11.02", "11.03")
    /\ Follows("11.03", "11.04") /\ Follows("11.04", "done")
BY DEF Follows, UpToNodeIds, UpToBoxIds, UpToSameVotes, UpToCounts, UpToProofs,
       UpToChain, UpToShuffles, UpToDecryptions, UpToFinals

(* Only the entry of one of its checks is an entry of the chain.           *)
LEMMA ChainRecord ==
    ASSUME report \in TallyEntries, NEW id \in TallyIds, NEW ok \in BOOLEAN, NEW next,
           Record(id, ok, next)
    PROVE  /\ ChainReport \in TallyEntries
           /\ id \notin CheckIds => ChainReport' = ChainReport
           /\ id \in CheckIds => ChainReport' = Append(ChainReport, Entry(id, ok))
<1> DEFINE T == [id : TallyIds, ok : BOOLEAN]
           P == ChainEntries
           n == Len(report)
<1>1. PICK e \in T : e = Entry(id, ok)
  BY DEF Entry
<1>2. report \in Seq(T) /\ DOMAIN report = 1..n /\ n \in Nat /\ e.id = id
  BY <1>1 DEF TallyEntries, Entry
<1>3. PICK s \in Seq(T), t \in Seq(T) : s = report /\ t = report' /\ t = Append(s, e)
  <2>1. PICK s \in Seq(T) : s = report
    BY <1>2
  <2>2. PICK t : t = Append(s, e)
    OBVIOUS
  <2>3. t \in Seq(T)
    BY <2>2
  <2>4. t = report'
    BY <1>1, <2>1, <2>2 DEF Record
  <2> QED BY <2>1, <2>2, <2>3, <2>4
<1>4. P \in SUBSET DOMAIN s
  BY <1>3 DEF ChainEntries
<1>5. /\ Kept(s, P) \in Seq(T)
      /\ Kept(t, P) = Kept(s, P)
      /\ Kept(t, P \cup {Len(t)}) = Append(Kept(s, P), e)
  <2>1. Len(t) = Len(s) + 1 /\ t[Len(t)] = e /\ \A k \in DOMAIN s : t[k] = s[k]
    BY <1>3
  <2>2. PICK S : S = T
    OBVIOUS
  <2>3. PICK Q : Q = P
    OBVIOUS
  <2>4. s \in Seq(S) /\ t \in Seq(S) /\ e \in S /\ Q \in SUBSET DOMAIN s
    BY <1>1, <1>4, <2>2, <2>3
  <2> HIDE DEF T, P
  <2>5. /\ Kept(s, Q) \in Seq(S) /\ Kept(t, Q \cup {Len(t)}) \in Seq(S)
        /\ Kept(t, Q) = Kept(s, Q)
        /\ Len(Kept(t, Q \cup {Len(t)})) = Len(Kept(s, Q)) + 1
        /\ Kept(t, Q \cup {Len(t)})[Len(Kept(s, Q)) + 1] = e
        /\ \A i \in 1..Len(Kept(s, Q)) : Kept(t, Q \cup {Len(t)})[i] = Kept(s, Q)[i]
    BY <2>1, <2>4, KeptAppends, SMTT(30)
  <2>6. PICK old \in Seq(S), longer \in Seq(S) :
          old = Kept(s, Q) /\ longer = Kept(t, Q \cup {Len(t)})
    BY <2>5
  <2>7. /\ Len(longer) = Len(old) + 1 /\ longer[Len(old) + 1] = e
        /\ \A i \in 1..Len(old) : longer[i] = old[i]
    BY <2>5, <2>6
  <2>8. longer = Append(old, e)
    BY <2>4, <2>7
  <2> QED BY <2>2, <2>3, <2>5, <2>6, <2>8
<1>6. ChainEntries' = IF id \in CheckIds THEN P \cup {n + 1} ELSE P
  <2>1. /\ DOMAIN report' = 1..(n + 1) /\ report'[n + 1] = e
        /\ \A k \in 1..n : report'[k] = report[k]
    BY <1>2, <1>3
  <2>2. \A k : k \in 1..(n + 1) <=> k \in 1..n \/ k = n + 1
    BY <1>2
  <2>3. ChainEntries' = {k \in 1..(n + 1) : report'[k].id \in CheckIds}
    BY <2>1 DEF ChainEntries
  <2>4. P = {k \in 1..n : report[k].id \in CheckIds}
    BY <1>2 DEF ChainEntries
  <2> HIDE DEF P, n
  <2> QED BY <1>2, <2>1, <2>2, <2>3, <2>4
<1>7. ChainReport' = Kept(report', ChainEntries')
  BY DEF ChainReport
<1>8. ChainReport = Kept(s, P)
  BY <1>3 DEF ChainReport
<1>9. Len(t) = n + 1
  BY <1>2, <1>3
<1> HIDE DEF P, n, T
<1>10. ChainReport \in TallyEntries
  BY <1>5, <1>8, Zenon DEF TallyEntries, T
<1>11. ASSUME id \in CheckIds
       PROVE  ChainReport' = Append(ChainReport, Entry(id, ok))
  <2>1. ChainReport' = Kept(t, P \cup {Len(t)})
    BY <1>3, <1>6, <1>7, <1>9, <1>11
  <2> QED BY <1>1, <1>5, <1>8, <2>1, Zenon
<1>12. ASSUME id \notin CheckIds
       PROVE  ChainReport' = ChainReport
  BY <1>3, <1>5, <1>6, <1>7, <1>8, <1>12
<1> QED BY <1>10, <1>11, <1>12

(* Where verify_tally is at one of the checks of the chain, the chain is.  *)
ChainSuccessor == [x \in CheckIds |->
    CASE x = "8.02" -> "10.03" [] x = "10.03" -> "10.04" [] x = "10.04" -> "10.02"
      [] x = "10.02" -> "11.02" [] x = "11.02" -> "done"]

LEMMA ChainPlace ==
    ASSUME ChainInOrder, pc \in CheckIds
    PROVE  /\ ChainPc = pc
           /\ Ran("8.02") <=> pc # "8.02"
           /\ Ran("10.03") <=> pc \notin {"8.02", "10.03"}
           /\ Ran("10.04") <=> pc \notin {"8.02", "10.03", "10.04"}
           /\ Ran("10.02") <=> pc \notin {"8.02", "10.03", "10.04", "10.02"}
           /\ ~Ran("11.02")
<1>1. /\ Ran("8.02") <=> pc # "8.02"
      /\ Ran("10.03") <=> pc \notin {"8.02", "10.03"}
      /\ Ran("10.04") <=> pc \notin {"8.02", "10.03", "10.04"}
      /\ Ran("10.02") <=> pc \notin {"8.02", "10.03", "10.04", "10.02"}
      /\ ~Ran("11.02")
  BY DEF ChainInOrder, CheckIds, UpToNodeIds, UpToBoxIds, UpToSameVotes, UpToCounts, UpToProofs,
         UpToChain, UpToShuffles, UpToDecryptions, UpToFinals
<1>2. ChainPc = pc
  BY <1>1 DEF ChainPc, CheckIds
<1> QED BY <1>1, <1>2

LEMMA ChainPcMoves ==
    ASSUME report \in TallyEntries, ChainInOrder, NEW id \in CheckIds, NEW ok \in BOOLEAN,
           NEW next, Record(id, ok, next)
    PROVE  ChainPc = id /\ ChainPc' = ChainSuccessor[id]
<1>1. pc = id /\ \A x : Ran(x)' <=> Ran(x) \/ x = id
  BY RecordStep DEF TallyIds
<1>2. /\ Ran("8.02")' <=> TRUE
      /\ Ran("10.03")' <=> id # "8.02"
      /\ Ran("10.04")' <=> id \notin {"8.02", "10.03"}
      /\ Ran("10.02")' <=> id \notin {"8.02", "10.03", "10.04"}
      /\ Ran("11.02")' <=> id \notin {"8.02", "10.03", "10.04", "10.02"}
  BY <1>1, ChainPlace DEF CheckIds
<1>3. ChainPc' = ChainSuccessor[id]
  BY <1>2 DEF ChainPc, ChainSuccessor, CheckIds
<1> QED BY <1>1, <1>3, ChainPlace

LEMMA OrderKept ==
    ASSUME report \in TallyEntries, ChainInOrder, NEW id \in TallyIds, NEW ok \in BOOLEAN,
           NEW next, Record(id, ok, next), Follows(id, next)
    PROVE  ChainInOrder'
<1>1. pc = id /\ pc' = next /\ \A x : Ran(x)' <=> Ran(x) \/ x = id
  BY RecordStep
<1>2. id \notin {"done", "crashed"}
  BY DEF TallyIds, CheckIds, FormIds
<1> QED BY <1>1, <1>2 DEF ChainInOrder, Follows

(* A check that is none of the chain's is no step of the chain.            *)
LEMMA OtherCheck ==
    ASSUME report \in TallyEntries, ChainInOrder, NEW id \in TallyIds, NEW ok \in BOOLEAN,
           NEW next, Record(id, ok, next), Follows(id, next), id \notin CheckIds,
           UNCHANGED <<d, loop>>
    PROVE  ChainInOrder' /\ UNCHANGED Chain!vars
<1>1. ChainReport' = ChainReport
  BY ChainRecord
<1>2. ChainPc' = ChainPc
  <2>1. \A x : Ran(x)' <=> Ran(x) \/ x = id
    BY RecordStep
  <2>2. \A x \in CheckIds : Ran(x)' <=> Ran(x)
    BY <2>1
  <2> QED BY <2>2 DEF ChainPc, CheckIds
<1> QED BY <1>1, <1>2, OrderKept DEF Chain!vars, loop

LEMMA CrashStutters ==
    ASSUME ChainInOrder, NEW id, Crash(id), UNCHANGED <<d, loop>>
    PROVE  ChainInOrder' /\ UNCHANGED Chain!vars
<1>1. pc' = "crashed" /\ report' = report
  BY DEF Crash
<1>2. ChainReport' = ChainReport
  BY <1>1 DEF ChainReport, ChainEntries
<1>3. ChainPc' = ChainPc
  BY <1>1 DEF ChainPc, Ran
<1> QED BY <1>1, <1>2, <1>3 DEF ChainInOrder, Chain!vars, loop

(* One of its checks is the check of the chain.                            *)
LEMMA ChainCheck ==
    ASSUME report \in TallyEntries, ChainInOrder, NEW id \in CheckIds, NEW ok \in BOOLEAN,
           NEW next, Record(id, ok, next), Follows(id, next)
    PROVE  ChainInOrder' /\ Chain!Record(id, ok, ChainSuccessor[id])
<1>1. id \in TallyIds
  BY DEF TallyIds
<1>2. ChainReport' = Append(ChainReport, Entry(id, ok))
  BY <1>1, ChainRecord
<1>3. Chain!Entry(id, ok) = Entry(id, ok)
  BY DEF Chain!Entry, Entry
<1>4. ChainPc = id /\ ChainPc' = ChainSuccessor[id]
  BY ChainPcMoves
<1>5. Chain!Record(id, ok, ChainSuccessor[id])
  BY <1>2, <1>3, <1>4, Zenon DEF Chain!Record
<1> QED BY <1>1, <1>5, OrderKept

(* The checks of the chain are the checks of this module.                  *)
LEMMA SameChecks ==
    /\ Chain!NodeIdsOk = NodeIdsOk
    /\ Chain!ChainCrashes = ChainCrashes
    /\ Chain!ChainOk = ChainOk
    /\ Chain!DecryptionsOk = DecryptionsOk
    /\ Chain!FinalsOk = FinalsOk
    /\ Chain!FinalsCrash = FinalsCrash
    /\ \A node : Chain!KeysRaise(node) = KeysRaise(node)
    /\ Chain!ShuffleBoxes = ShuffleBoxes
    /\ \A b : Chain!BoxProblems(b) = BoxProblems(b)
    /\ \A b : Chain!ShuffleIndices(b) = ShuffleIndices(b)
    /\ \A b : Chain!InitialCiphertexts(b) = InitialCiphertexts(b)
    /\ \A indices : Chain!LeastOf(indices) = LeastOf(indices)
    /\ \A i, cs : Chain!PayloadProblems(i, cs) = PayloadProblems(i, cs)
<1> USE DEF Chain!Cardinality, Cardinality, Chain!Node, Node, Chain!EB, EB, Chain!Holder, Holder,
            Chain!KeyOf, KeyOf, Chain!CombinedKey, CombinedKey, Chain!IsPermutation, IsPermutation,
            Chain!ReEncrypts, ReEncrypts, Chain!MatrixColumnCount, MatrixColumnCount,
            Chain!ShuffleRaises, ShuffleRaises, Chain!VerifyShuffle, VerifyShuffle,
            Chain!HasOne, HasOne,
            Chain!VerifyDecryption, VerifyDecryption, Chain!VerifyDecryptions, VerifyDecryptions,
            Chain!Ascending, Ascending, Chain!NoBox, NoBox, Chain!ShuffleIndices, ShuffleIndices,
            Chain!ShuffleBoxes, ShuffleBoxes, Chain!BallotBoxIndices, BallotBoxIndices,
            Chain!NodeOne, NodeOne, Chain!NodeLast, NodeLast, Chain!First, First,
            Chain!Before, Before, Chain!LeastOf, LeastOf, Chain!Previous, Previous,
            Chain!ConfirmedVotes, ConfirmedVotes, Chain!Smaller, Smaller, Chain!Trivial, Trivial,
            Chain!InitialCiphertexts, InitialCiphertexts
<1>1. Chain!NodeIdsOk = NodeIdsOk
  BY Zenon DEF Chain!NodeIdsOk, NodeIdsOk, Chain!EachNodeOnce, EachNodeOnce
<1>2. Chain!ChainCrashes = ChainCrashes
  BY Zenon DEF Chain!ChainCrashes, ChainCrashes
<1>3. Chain!ChainOk = ChainOk
  BY Zenon DEF Chain!ChainOk, ChainOk, Chain!ChainStepOk, ChainStepOk
<1>4. Chain!DecryptionsOk = DecryptionsOk
  BY Zenon DEF Chain!DecryptionsOk, DecryptionsOk, Chain!DecryptionOk, DecryptionOk
<1>5. Chain!FinalsOk = FinalsOk
  BY Zenon DEF Chain!FinalsOk, FinalsOk, Chain!FinalOk, FinalOk, Chain!FinalIndices, FinalIndices,
               Chain!FinalBoxes, FinalBoxes, Chain!FinalPayloadOf, FinalPayloadOf
<1>6. Chain!ShuffleBoxes = ShuffleBoxes
  BY Zenon
<1>7. \A b : Chain!BoxProblems(b) = BoxProblems(b)
  BY Zenon DEF Chain!BoxProblems, BoxProblems
<1>8. \A b : Chain!ShuffleIndices(b) = ShuffleIndices(b)
  BY Zenon
<1>9. \A b : Chain!InitialCiphertexts(b) = InitialCiphertexts(b)
  BY Zenon
<1>10. \A indices : Chain!LeastOf(indices) = LeastOf(indices)
  BY Zenon
<1>11. \A i, cs : Chain!PayloadProblems(i, cs) = PayloadProblems(i, cs)
  <2> SUFFICES ASSUME NEW i, NEW cs
               PROVE  Chain!PayloadProblems(i, cs) = PayloadProblems(i, cs)
    OBVIOUS
  <2>1. \A node : Chain!ShuffleKey(node) = ShuffleKey(node)
    BY Zenon DEF Chain!ShuffleKey, ShuffleKey
  <2>2. \A node : /\ Chain!MissingKeys(node) = MissingKeys(node)
                  /\ Chain!KeyWidth(node) = KeyWidth(node)
    BY Zenon DEF Chain!MissingKeys, MissingKeys, Chain!KeyWidth, KeyWidth
  <2>3. \A ss, arg : Chain!ShuffleRaises(cs, ss, arg) <=> ShuffleRaises(cs, ss, arg)
    BY Zenon
  <2>4. \A key, width, cols, ss, arg :
          Chain!VerifyShuffle(key, width, cols, cs, ss, arg)
            <=> VerifyShuffle(key, width, cols, cs, ss, arg)
    BY Zenon
  <2>5. \A count : Chain!MatrixColumnCount(count) = MatrixColumnCount(count)
    BY Zenon
  <2> HIDE DEF Chain!ShuffleRaises, ShuffleRaises, Chain!VerifyShuffle, VerifyShuffle,
               Chain!MatrixColumnCount, MatrixColumnCount,
               Chain!InitialCiphertexts, InitialCiphertexts
  <2>6. Chain!ShuffleOk(i, cs) <=> ShuffleOk(i, cs)
    BY <1>9, <2>1, <2>2, <2>4, <2>5, Zenon DEF Chain!ShuffleOk, ShuffleOk
  <2> QED BY <2>2, <2>3, <2>6 DEF Chain!PayloadProblems, PayloadProblems
<1>12. Chain!FinalsCrash = FinalsCrash
  BY Zenon DEF Chain!FinalsCrash, FinalsCrash, Chain!FinalIndices, FinalIndices,
               Chain!FinalBoxes, FinalBoxes, Chain!FinalPayloadOf, FinalPayloadOf
<1>13. \A node : Chain!KeysRaise(node) = KeysRaise(node)
  BY Zenon DEF Chain!KeysRaise, KeysRaise, Chain!MissingKeys, MissingKeys
<1> QED
  BY <1>1, <1>2, <1>3, <1>4, <1>5, <1>6, <1>7, <1>8, <1>9, <1>10, <1>11, <1>12, <1>13, Zenon

LEMMA InChainLoop ==
    ASSUME ChainInOrder, pc = "10.04", UNCHANGED <<d, pc, report>>
    PROVE  /\ ChainPc = "10.04" /\ UNCHANGED <<d, ChainPc, ChainReport>>
           /\ ChainInOrder'
<1>1. ChainPc = "10.04"
  BY ChainPlace DEF CheckIds
<1>2. ChainPc' = ChainPc /\ ChainReport' = ChainReport /\ ChainInOrder'
  BY DEF ChainPc, ChainReport, ChainEntries, ChainInOrder, Ran
<1> QED BY <1>1, <1>2

LEMMA StepOfChain ==
    ASSUME TallyInv, ChainInOrder, [TallyNext]_vars
    PROVE  ChainInOrder' /\ [Chain!Next]_(Chain!vars)
<1>1. report \in TallyEntries
  BY DEF TallyInv
<1> DEFINE Goal == ChainInOrder' /\ [Chain!Next]_(Chain!vars)
<1>2. ASSUME NEW id \in TallyIds, NEW ok \in BOOLEAN, NEW next, Record(id, ok, next),
             Follows(id, next), id \notin CheckIds, UNCHANGED <<d, loop>>
      PROVE  Goal
  BY <1>1, <1>2, OtherCheck
<1>3. ASSUME NEW id, Crash(id), UNCHANGED <<d, loop>>
      PROVE  Goal
  BY <1>3, CrashStutters
<1>4. CASE CheckCompleteness
  <2>1. PICK ok \in BOOLEAN : ok = Complete
    BY Zenon DEF Complete
  <2>2. PICK next : next = IF d.bb = <<>> \/ d.shuffles = <<>> THEN "done" ELSE "6.02"
    OBVIOUS
  <2>3. (next = "done" \/ next = "6.02") /\ Record("6.01", ok, next) /\ UNCHANGED <<d, loop>>
    BY <1>4, <2>1, <2>2, Zenon DEF CheckCompleteness
  <2>4. Follows("6.01", next)
    BY <2>3, ChecksFollow DEF Follows
  <2>5. "6.01" \in TallyIds /\ "6.01" \notin CheckIds
    BY DEF TallyIds, CheckIds
  <2> QED BY <1>2, <2>3, <2>4, <2>5
<1>5. ASSUME NEW id \in FormIds, NEW next, CheckForm(id, next), Follows(id, next)
      PROVE  Goal
  <2>1. UNCHANGED <<d, loop>> /\ id \in TallyIds /\ id \notin CheckIds
    BY <1>5 DEF CheckForm, TallyIds, FormIds, CheckIds
  <2>2. CASE d.missing /\ Crash(id)
    BY <1>3, <2>1, <2>2
  <2>3. CASE Record(id, FormOk(id), next)
    <3>1. PICK ok \in BOOLEAN : ok = FormOk(id)
      BY Zenon DEF FormOk
    <3>2. Record(id, ok, next)
      BY <2>3, <3>1, Zenon
    <3> QED BY <1>2, <1>5, <2>1, <3>2
  <2> QED BY <1>5, <2>2, <2>3 DEF CheckForm
<1>6. CASE \/ CheckForm("6.02", "6.03") \/ CheckForm("6.03", "6.04") \/ CheckForm("6.04", "8.01")
           \/ CheckForm("8.01", "8.02") \/ CheckForm("8.03", "8.04") \/ CheckForm("8.04", "8.05")
           \/ CheckForm("8.06", "8.07") \/ CheckForm("11.04", "done")
  BY <1>5, <1>6, ChecksFollow DEF FormIds
<1>7. CASE CheckNodeIds("8.03")
  <2>1. PICK ok \in BOOLEAN : ok = NodeIdsOk
    BY Zenon DEF NodeIdsOk
  <2>2. Record("8.02", ok, "8.03") /\ UNCHANGED <<d, loop>>
    BY <1>7, <2>1, Zenon DEF CheckNodeIds
  <2>3. "8.02" \in CheckIds /\ ChainSuccessor["8.02"] = "10.03"
    BY DEF CheckIds, ChainSuccessor
  <2>4. ChainInOrder' /\ Chain!Record("8.02", ok, "10.03")
    BY <1>1, <2>2, <2>3, ChecksFollow, ChainCheck
  <2>5. Chain!Record("8.02", Chain!NodeIdsOk, "10.03")
    BY <2>1, <2>4, SameChecks, Zenon
  <2> QED BY <2>2, <2>4, <2>5, Zenon DEF Chain!Next, Chain!CheckNodeIds, Chain!loop, loop
<1>8. CASE CheckBallotBoxIds("8.06")
  <2>1. PICK ok \in BOOLEAN : ok = BallotBoxIdsOk
    BY Zenon DEF BallotBoxIdsOk
  <2>2. Record("8.05", ok, "8.06") /\ UNCHANGED <<d, loop>>
    BY <1>8, <2>1, Zenon DEF CheckBallotBoxIds
  <2> QED BY <1>2, ChecksFollow, <2>2 DEF TallyIds, CheckIds
<1>9. CASE CheckCards("8.08")
  <2>1. PICK ok \in BOOLEAN : ok = CardsOk
    BY Zenon DEF CardsOk
  <2>2. Record("8.07", ok, "8.08") /\ UNCHANGED <<d, loop>>
    BY <1>9, <2>1, Zenon DEF CheckCards
  <2> QED BY <1>2, ChecksFollow, <2>2 DEF TallyIds, CheckIds
<1>10. CASE CheckSameVotes("8.09")
  <2>1. PICK ok \in BOOLEAN : ok = SameVotesOk
    BY Zenon DEF SameVotesOk
  <2>2. Record("8.08", ok, "8.09") /\ UNCHANGED <<d, loop>>
    BY <1>10, <2>1, Zenon DEF CheckSameVotes
  <2> QED BY <1>2, ChecksFollow, <2>2 DEF TallyIds, CheckIds
<1>11. CASE CheckWidths("8.10")
  <2>1. UNCHANGED <<d, loop>> /\ (Crash("8.09") \/ Record("8.09", WidthsOk, "8.10"))
    BY <1>11 DEF CheckWidths
  <2>2. PICK ok \in BOOLEAN : ok = WidthsOk
    BY Zenon DEF WidthsOk
  <2>3. CASE Record("8.09", WidthsOk, "8.10")
    <3>1. Record("8.09", ok, "8.10")
      BY <2>2, <2>3, Zenon
    <3> QED BY <1>2, ChecksFollow, <2>1, <3>1 DEF TallyIds, CheckIds
  <2> QED BY <1>3, <2>1, <2>3
<1>12. CASE CheckPlaintextWidths("8.11")
  <2>1. PICK ok \in BOOLEAN : ok = PlaintextWidthsOk
    BY Zenon DEF PlaintextWidthsOk
  <2>2. Record("8.10", ok, "8.11") /\ UNCHANGED <<d, loop>>
    BY <1>12, <2>1, Zenon DEF CheckPlaintextWidths
  <2> QED BY <1>2, ChecksFollow, <2>2 DEF TallyIds, CheckIds
<1>13. CASE CheckCounts("10.01")
  <2>1. PICK ok \in BOOLEAN : ok = CountsOk
    BY Zenon DEF CountsOk
  <2>2. Record("8.11", ok, "10.01") /\ UNCHANGED <<d, loop>>
    BY <1>13, <2>1, Zenon DEF CheckCounts
  <2> QED BY <1>2, ChecksFollow, <2>2 DEF TallyIds, CheckIds
<1>14. CASE CheckProofs("10.03")
  <2>1. PICK ok \in BOOLEAN : ok = ProofsOk
    BY Zenon DEF ProofsOk
  <2>2. Record("10.01", ok, "10.03") /\ UNCHANGED <<d, loop>>
    BY <1>14, <2>1, Zenon DEF CheckProofs
  <2> QED BY <1>2, ChecksFollow, <2>2 DEF TallyIds, CheckIds
<1>15. CASE CheckChain("10.04")
  <2>1. UNCHANGED <<d, loop>>
    BY <1>15 DEF CheckChain
  <2>2. CASE ChainCrashes /\ Crash("10.03")
    BY <1>3, <2>1, <2>2
  <2>3. CASE ~ChainCrashes /\ Record("10.03", ChainOk, "10.04")
    <3>1. PICK ok \in BOOLEAN : ok = ChainOk
      BY Zenon DEF ChainOk
    <3>2. Record("10.03", ok, "10.04")
      BY <2>3, <3>1, Zenon
    <3>3. "10.03" \in CheckIds /\ ChainSuccessor["10.03"] = "10.04"
      BY DEF CheckIds, ChainSuccessor
    <3>4. ChainInOrder' /\ Chain!Record("10.03", ok, "10.04")
      BY <1>1, <3>2, <3>3, ChecksFollow, ChainCheck
    <3>5. Chain!Record("10.03", Chain!ChainOk, "10.04") /\ ~Chain!ChainCrashes
      BY <2>3, <3>1, <3>4, SameChecks, Zenon
    <3> QED BY <2>1, <3>4, <3>5, Zenon DEF Chain!Next, Chain!CheckChain, Chain!loop, loop
  <2> QED BY <1>15, <2>2, <2>3 DEF CheckChain
<1>16. CASE StartBox
  <2>1. pc = "10.04" /\ UNCHANGED <<d, pc, report>>
    BY <1>16 DEF StartBox
  <2>2. ChainPc = "10.04" /\ UNCHANGED <<d, ChainPc, ChainReport>> /\ ChainInOrder'
    BY <2>1, InChainLoop
  <2>3. Chain!StartBox
    BY <1>16, <2>2, SameChecks, Zenon DEF StartBox, Chain!StartBox
  <2> QED BY <2>2, <2>3 DEF Chain!Next
<1>17. CASE VerifyPayload
  <2>1. pc = "10.04" /\ UNCHANGED <<d, pc, report>>
    BY <1>17 DEF VerifyPayload
  <2>2. ChainPc = "10.04" /\ UNCHANGED <<d, ChainPc, ChainReport>> /\ ChainInOrder'
    BY <2>1, InChainLoop
  <2>3. Chain!VerifyPayload
    BY <1>17, <2>2, SameChecks, Zenon DEF VerifyPayload, Chain!VerifyPayload
  <2> QED BY <2>2, <2>3 DEF Chain!Next
<1>18. CASE CheckShuffles("10.02")
  <2>1. PICK ok \in BOOLEAN : ok = (fails = {})
    OBVIOUS
  <2>2. Record("10.04", ok, "10.02") /\ UNCHANGED <<d, loop>> /\ rest = {} /\ boxes = {}
    BY <1>18, <2>1, Zenon DEF CheckShuffles
  <2>3. "10.04" \in CheckIds /\ ChainSuccessor["10.04"] = "10.02"
    BY DEF CheckIds, ChainSuccessor
  <2>4. ChainInOrder' /\ Chain!Record("10.04", ok, "10.02")
    BY <1>1, <2>2, <2>3, ChecksFollow, ChainCheck
  <2>5. Chain!Record("10.04", fails = {}, "10.02")
    BY <2>1, <2>4, Zenon
  <2> QED BY <2>2, <2>4, <2>5, Zenon DEF Chain!Next, Chain!CheckShuffles, Chain!loop, loop
<1>19. CASE CheckDecryptions("11.01")
  <2>1. PICK ok \in BOOLEAN : ok = DecryptionsOk
    BY Zenon DEF DecryptionsOk
  <2>2. Record("10.02", ok, "11.01") /\ UNCHANGED <<d, loop>>
    BY <1>19, <2>1, Zenon DEF CheckDecryptions
  <2>3. "10.02" \in CheckIds /\ ChainSuccessor["10.02"] = "11.02"
    BY DEF CheckIds, ChainSuccessor
  <2>4. ChainInOrder' /\ Chain!Record("10.02", ok, "11.02")
    BY <1>1, <2>2, <2>3, ChecksFollow, ChainCheck
  <2>5. Chain!Record("10.02", Chain!DecryptionsOk, "11.02")
    BY <2>1, <2>4, SameChecks, Zenon
  <2> QED BY <2>2, <2>4, <2>5, Zenon DEF Chain!Next, Chain!CheckDecryptions, Chain!loop, loop
<1>20. CASE CheckFinalIds("11.02")
  <2>1. PICK ok \in BOOLEAN : ok = FinalIdsOk
    BY Zenon DEF FinalIdsOk
  <2>2. Record("11.01", ok, "11.02") /\ UNCHANGED <<d, loop>>
    BY <1>20, <2>1, Zenon DEF CheckFinalIds
  <2> QED BY <1>2, ChecksFollow, <2>2 DEF TallyIds, CheckIds
<1>21. CASE CheckFinals("11.03")
  <2>1. UNCHANGED <<d, loop>>
    BY <1>21 DEF CheckFinals
  <2>2. CASE FinalsCrash /\ Crash("11.02")
    BY <1>3, <2>1, <2>2
  <2>3. CASE ~FinalsCrash /\ Record("11.02", FinalsOk, "11.03")
    <3>1. PICK ok \in BOOLEAN : ok = FinalsOk
      BY Zenon DEF FinalsOk
    <3>2. Record("11.02", ok, "11.03")
      BY <2>3, <3>1, Zenon
    <3>3. "11.02" \in CheckIds /\ ChainSuccessor["11.02"] = "done"
      BY DEF CheckIds, ChainSuccessor
    <3>4. ChainInOrder' /\ Chain!Record("11.02", ok, "done")
      BY <1>1, <3>2, <3>3, ChecksFollow, ChainCheck
    <3>5. Chain!Record("11.02", Chain!FinalsOk, "done") /\ ~Chain!FinalsCrash
      BY <2>3, <3>1, <3>4, SameChecks, Zenon
    <3> QED BY <2>1, <3>4, <3>5, Zenon DEF Chain!Next, Chain!CheckFinals, Chain!loop, loop
  <2> QED BY <1>21, <2>2, <2>3 DEF CheckFinals
<1>22. CASE CheckVotes("11.04")
  <2>1. UNCHANGED <<d, loop>> /\ (Crash("11.03") \/ Record("11.03", VotesOk, "11.04"))
    BY <1>22 DEF CheckVotes
  <2>2. PICK ok \in BOOLEAN : ok = VotesOk
    BY Zenon DEF VotesOk
  <2>3. CASE Record("11.03", VotesOk, "11.04")
    <3>1. Record("11.03", ok, "11.04")
      BY <2>2, <2>3, Zenon
    <3> QED BY <1>2, ChecksFollow, <2>1, <3>1 DEF TallyIds, CheckIds
  <2> QED BY <1>3, <2>1, <2>3
<1>23. CASE UNCHANGED vars
  <2>1. UNCHANGED <<d, pc, report>> /\ UNCHANGED loop
    BY <1>23 DEF vars, loop
  <2>2. ChainPc' = ChainPc /\ ChainReport' = ChainReport /\ ChainInOrder'
    BY <2>1 DEF ChainPc, ChainReport, ChainEntries, ChainInOrder, Ran
  <2> QED BY <2>1, <2>2 DEF Chain!vars, loop
<1>24. CASE CombineRaises
  BY <1>3, <1>24 DEF CombineRaises
<1> QED
  BY <1>24, <1>4, <1>6, <1>7, <1>8, <1>9, <1>10, <1>11, <1>12, <1>13, <1>14, <1>15, <1>16, <1>17, <1>18,
     <1>19, <1>20, <1>21, <1>22, <1>23, Zenon DEF TallyNext, MixDecChecks

LEMMA InitOfChain == TallyInit => ChainInOrder /\ Chain!Init
<1> SUFFICES ASSUME TallyInit PROVE ChainInOrder /\ Chain!Init
  OBVIOUS
<1>1. ChainInit /\ pc = "6.01" /\ report = <<>>
  BY DEF TallyInit, ReportInit
<1>2. \A x : ~Ran(x)
  BY <1>1 DEF Ran
<1>3. ChainPc = "8.02"
  BY <1>2 DEF ChainPc
<1>4. ChainReport = <<>>
  <2>1. ChainEntries = {}
    BY <1>1 DEF ChainEntries
  <2>2. Cardinality({}) = 0
    BY FS_EmptySet
  <2> QED BY <2>1, <2>2 DEF ChainReport, Kept
<1>5. Chain!Init
  BY <1>1, <1>3, <1>4, SameChecks DEF ChainInit, Chain!Init, Chain!ChainInit, Chain!ReportInit,
                                      Chain!NoBox, NoBox
<1>6. ChainInOrder
  BY <1>1, <1>2 DEF ChainInOrder, UpToNodeIds, UpToBoxIds, UpToSameVotes, UpToCounts, UpToProofs,
                    UpToChain, UpToShuffles, UpToDecryptions, UpToFinals
<1> QED BY <1>5, <1>6

(* Refinement: leaving out the entries of the other checks, verify_tally   *)
(* takes the steps of MixDecChain, in whose order 10.04 comes before 10.02 *)
(* and both before 11.02 (RunsChain).                                      *)
THEOREM ChainImplemented == TallySpec => RunsChain
<1>1. TallyInit => ChainInOrder /\ Chain!Init
  BY InitOfChain
<1>2. TallyInv /\ ChainInOrder /\ [TallyNext]_vars => ChainInOrder' /\ [Chain!Next]_(Chain!vars)
  BY StepOfChain
<1> QED BY <1>1, <1>2, TallyInvariant, PTL DEF TallySpec, RunsChain
=============================================================================
