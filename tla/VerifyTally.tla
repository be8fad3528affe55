---------------------------- MODULE VerifyTally -----------------------------
(***************************************************************************)
(* FixtureDataset.verify_tally: the checks of a tally in their order, the *)
(* early return for a missing payload family, and the exceptions that end  *)
(* the run without a report.  The checks that follow the mix net are those *)
(* of MixDecChain; this module adds the ones that tie it to the confirmed  *)
(* votes at its start and to the published tally at its end.               *)
(*                                                                         *)
(* A dataset of MixDecChain has six more fields here:                      *)
(*                                                                         *)
(*   d.missing   the election context or the setup public keys are missing *)
(*   d.badForm   the metadata checks that find a mismatch (FormIds), and   *)
(*               11.01 for a final payload of another election event       *)
(*   d.psi       psi of every ballot box                                   *)
(*   d.cards     verification card ids of the setup tally data             *)
(*   d.keyed     those of them that have a public key there                *)
(*   d.votes     tally-component votes payloads, in file order             *)
(*                                                                         *)
(* Without a trust store the signature checks 7.x add no entry.            *)
(***************************************************************************)
EXTENDS MixDecChain, SequencesExt

CONSTANT Valid   \* messages that encode a valid combination of options

ASSUME ValidAssumption == Valid \subseteq Msg \ {One}

(* Checks on schemas, groups, event ids and labels: what they compare is   *)
(* no part of the model, and neither is the text of the eCH-0222 file.     *)
FormIds == {"6.02", "6.03", "6.04", "8.01", "8.03", "8.04", "8.06", "11.04"}

(* decrypted, decoded and writeIns list what three processings of a        *)
(* plaintext give; each is represented by the message it was made from.    *)
VotesPayload == [box : Box \cup {NoBox}, wf : BOOLEAN, decrypted : Seq(Msg),
                 decoded : Seq(Msg), writeIns : Seq(Msg)]

IsTallyDataset(x) ==
    /\ IsDataset(x)
    /\ x.missing \in BOOLEAN
    /\ x.badForm \subseteq FormIds \cup {"11.01"}
    /\ "11.01" \in x.badForm => "8.04" \in x.badForm
    /\ x.psi \in [Box -> Nat]
    /\ x.cards \subseteq Nat /\ x.keyed \subseteq x.cards
    /\ x.votes \in Seq(VotesPayload)

ASSUME TallyDatasetsAssumption == \A x \in Datasets : IsTallyDataset(x)

-----------------------------------------------------------------------------
(* What the checks read.                                                   *)

BallotBoxes == {d.bb[i].box : i \in DOMAIN d.bb}
VotesIndices(b) == {i \in DOMAIN d.votes : d.votes[i].box = b}
VotesBoxes == {d.votes[i].box : i \in DOMAIN d.votes} \ {NoBox}
VotesPayloadOf(b) == d.votes[CHOOSE i \in VotesIndices(b) : \A k \in VotesIndices(b) : k <= i]

(* Dictionaries by node id: a later payload of a node replaces an earlier  *)
(* one, and the values are those of the nodes that are there.              *)
LastOf(payloads, b, node) ==
    payloads[CHOOSE i \in DOMAIN payloads :
               /\ payloads[i].box = b /\ payloads[i].node = node
               /\ \A k \in DOMAIN payloads :
                    payloads[k].box = b /\ payloads[k].node = node => k <= i]
NodesOf(payloads, b) == {payloads[i].node : i \in {k \in DOMAIN payloads : payloads[k].box = b}}

Count(s, v) == Cardinality({i \in DOMAIN s : s[i] = v})
SameMultiset(s, t) == \A v \in ToSet(s) \cup ToSet(t) : Count(s, v) = Count(t, v)

-----------------------------------------------------------------------------
(* 6.01: both families are there, and complete.  Without one of them the   *)
(* report is returned as it is.                                            *)
Complete ==
    /\ d.bb # <<>> /\ d.shuffles # <<>>
    /\ NodeIdsOk

CheckCompleteness ==
    /\ Record("6.01", Complete, IF d.bb = <<>> \/ d.shuffles = <<>> THEN "done" ELSE "6.02")
    /\ UNCHANGED <<d, loop>>

(* 8.05: no payload is of a ballot box that the context does not list.     *)
(* 8.06 finds the same, besides labels that do not fit.                    *)
BallotBoxIdsOk ==
    /\ BallotBoxes \cup ShuffleBoxes \cup FinalBoxes \cup VotesBoxes \subseteq DOMAIN d.ctx
    /\ FinalIndices(NoBox) = {} /\ VotesIndices(NoBox) = {}

CheckBallotBoxIds(next) == Record("8.05", BallotBoxIdsOk, next) /\ UNCHANGED <<d, loop>>

FormOk(id) == id \notin d.badForm /\ (id = "8.06" => BallotBoxIdsOk)

(* A missing payload is subscripted in 8.01.                               *)
CheckForm(id, next) ==
    /\ UNCHANGED <<d, loop>>
    /\ \/ id = "8.01" /\ d.missing /\ Crash(id)
       \/ ~(id = "8.01" /\ d.missing) /\ Record(id, FormOk(id), next)

(* 8.07: every card that voted is one of the setup's.                      *)
CardsOk == \A i \in DOMAIN d.bb : \A v \in ToSet(d.bb[i].votes) : v.vcid \in d.cards

CheckCards(next) == Record("8.07", CardsOk, next) /\ UNCHANGED <<d, loop>>

(* A mistake: only how many they are is compared.                          *)
SameVotesOkByCount ==
    \A b \in BallotBoxes : \A j, k \in NodesOf(d.bb, b) :
      Len(LastOf(d.bb, b, j).votes) = Len(LastOf(d.bb, b, k).votes)

(* 8.08: the nodes of a ballot box confirmed the same votes.               *)
SameVotesOk ==
    \A b \in BallotBoxes : \A j, k \in NodesOf(d.bb, b) :
      SameMultiset(LastOf(d.bb, b, j).votes, LastOf(d.bb, b, k).votes)

CheckSameVotes(next) == Record("8.08", SameVotesOk, next) /\ UNCHANGED <<d, loop>>

(* 8.09: widths of the votes, and of what the components published; an     *)
(* unknown ballot box is a KeyError.                                       *)
WidthsCrash == ~(BallotBoxes \cup ShuffleBoxes \subseteq DOMAIN d.ctx)

WidthsOk ==
    /\ \A i \in DOMAIN d.bb : \A v \in ToSet(d.bb[i].votes) :
         <<v.ct.w, v.exp, v.codes>> = <<d.ctx[d.bb[i].box], 1, d.psi[d.bb[i].box]>>
    /\ \A i \in DOMAIN d.shuffles :
         \A c \in ToSet(d.shuffles[i].shuffled) \cup ToSet(d.shuffles[i].decrypted) :
           c.w = d.ctx[d.shuffles[i].box]

CheckWidths(next) ==
    /\ UNCHANGED <<d, loop>>
    /\ \/ WidthsCrash /\ Crash("8.09")
       \/ ~WidthsCrash /\ Record("8.09", WidthsOk, next)

(* The messages of a final payload can be read.                            *)
Readable(f) == f.lacks \notin {"decryption", "messages"}

(* 8.10: widths of the plaintexts.                                         *)
PlaintextWidthsOk ==
    d.finals # <<>> =>
      /\ FinalIndices(NoBox) = {}
      /\ \A b \in FinalBoxes :
           /\ Cardinality(FinalIndices(b)) = 1
           /\ b \in DOMAIN d.ctx
           /\ Readable(FinalPayloadOf(b))
           /\ \A p \in ToSet(FinalPayloadOf(b).plain) : p.w = d.ctx[b]

CheckPlaintextWidths(next) == Record("8.10", PlaintextWidthsOk, next) /\ UNCHANGED <<d, loop>>

(* 8.11: how many votes there are at each place.  The expected numbers of  *)
(* a ballot box are known when its nodes agree on the first.               *)
Confirmed(b) == {Len(LastOf(d.bb, b, j).votes) : j \in NodesOf(d.bb, b)}
Shuffled(b) == {Len(LastOf(d.shuffles, b, j).shuffled) : j \in NodesOf(d.shuffles, b)}
Expected(b) == IF Cardinality(Confirmed(b)) = 1 THEN Confirmed(b) ELSE {}
ExpectedHatTwo(b) == {IF nc < 2 THEN 2 ELSE nc : nc \in Expected(b)}   \* a mistake: padded up to 2
ExpectedHat(b) == {IF nc < 2 THEN nc + 2 ELSE nc : nc \in Expected(b)}

VotesCountOkIfWellFormed(i) ==   \* a mistake
    LET p == d.votes[i]
    IN  p.wf /\ p.box # NoBox => Expected(p.box) \subseteq {Len(p.decrypted)}

VotesCountOk(i) ==
    LET p == d.votes[i]
    IN  /\ p.wf /\ p.box # NoBox
        /\ Len(p.decrypted) = Len(p.decoded) /\ Len(p.decrypted) = Len(p.writeIns)
        /\ Expected(p.box) \subseteq {Len(p.decrypted)}

FinalCountOk(i) ==
    LET p == d.finals[i]
    IN  /\ p.lacks \in {"nothing", "proofs"} /\ p.box # NoBox
        /\ Len(p.shuffled) = Len(p.plain)
        /\ ExpectedHat(p.box) \subseteq {Len(p.shuffled)}

CountsOk ==
    /\ \A b \in BallotBoxes : Cardinality(Confirmed(b)) = 1
    /\ \A b \in ShuffleBoxes :
         Cardinality(Shuffled(b)) = 1 /\ ExpectedHat(b) \subseteq Shuffled(b)
    /\ \A i \in DOMAIN d.votes : VotesCountOk(i)
    /\ \A i \in DOMAIN d.finals : FinalCountOk(i)

CheckCounts(next) == Record("8.11", CountsOk, next) /\ UNCHANGED <<d, loop>>

-----------------------------------------------------------------------------
NodeOnePayloads == {i \in DOMAIN d.bb : d.bb[i].node = 1}

(* A mistake: the set seen is emptied for every ballot box.                *)
ProofsOkPerBox ==
    /\ NodeOnePayloads # {}
    /\ \A i \in NodeOnePayloads :
         /\ d.bb[i].box \in DOMAIN d.ctx
         /\ \A k, l \in DOMAIN d.bb[i].votes :
              /\ d.bb[i].votes[k].vcid \in d.keyed /\ d.bb[i].votes[k].proven
              /\ d.bb[i].votes[k].vcid = d.bb[i].votes[l].vcid => k = l

(* 10.01: the votes of node 1, ballot box by ballot box, are of different  *)
(* cards (the set seen goes through all ballot boxes), each with a key     *)
(* that its proofs verify with.                                            *)

ProofsOk ==
    /\ NodeOnePayloads # {}
    /\ \A i \in NodeOnePayloads :
         /\ d.bb[i].box \in DOMAIN d.ctx
         /\ \A k \in DOMAIN d.bb[i].votes :
              LET v == d.bb[i].votes[k]
              IN  /\ v.vcid \in d.keyed
                  /\ v.proven
                  /\ \A j \in NodeOnePayloads : \A l \in DOMAIN d.bb[j].votes :
                       d.bb[j].votes[l].vcid = v.vcid => <<j, l>> = <<i, k>>

CheckProofs(next) == Record("10.01", ProofsOk, next) /\ UNCHANGED <<d, loop>>

-----------------------------------------------------------------------------
(* 11.01: the final payloads are of the election event and of listed       *)
(* ballot boxes.                                                           *)
FinalIdsOk ==
    /\ "11.01" \notin d.badForm
    /\ FinalIndices(NoBox) = {} /\ VotesIndices(NoBox) = {}
    /\ FinalBoxes \cup VotesBoxes \subseteq DOMAIN d.ctx

CheckFinalIds(next) == Record("11.01", FinalIdsOk, next) /\ UNCHANGED <<d, loop>>

(* 11.03: process_plaintexts of a ballot box's final plaintexts.  Rows of  *)
(* ones are dropped; a row that is no valid combination, one of another    *)
(* width, or fewer than two rows are a failure.                            *)
IsOnes(p) == p.m = One /\ \A h \in Holder : p.e[h] = 0
Decodes(p) == p.m \in Valid /\ \A h \in Holder : p.e[h] = 0

ProcessFails(b) ==
    LET plain == FinalPayloadOf(b).plain
    IN  \/ Len(plain) < 2
        \/ \E i \in DOMAIN plain : plain[i].w # d.ctx[b] \/ ~(IsOnes(plain[i]) \/ Decodes(plain[i]))

Rows(plain) == {i \in DOMAIN plain : ~IsOnes(plain[i])}
Cast(plain) == [i \in 1..Cardinality(Rows(plain)) |-> Kept(plain, Rows(plain))[i].m]

Processed(b) == Cast(FinalPayloadOf(b).plain)

(* The votes payload of b is compared once the plaintexts were processed;  *)
(* its keys are subscripted outside of the try.                            *)
Comparable(b) ==
    /\ FinalIndices(b) # {} /\ b \in DOMAIN d.ctx
    /\ Readable(FinalPayloadOf(b)) /\ ~ProcessFails(b)

VotesCrash ==
    /\ d.finals # <<>> /\ d.votes # <<>>
    /\ \E b \in VotesBoxes : Comparable(b) /\ ~VotesPayloadOf(b).wf

VotesOk ==
    \/ d.finals = <<>> /\ d.votes = <<>>
    \/ /\ d.finals # <<>> /\ d.votes # <<>>
       /\ FinalIndices(NoBox) = {} /\ VotesIndices(NoBox) = {}
       /\ \A b \in FinalBoxes : Cardinality(FinalIndices(b)) = 1
       /\ \A b \in VotesBoxes :
            /\ Cardinality(VotesIndices(b)) = 1
            /\ Comparable(b)
            /\ LET p == VotesPayloadOf(b)
               IN  <<p.decrypted, p.decoded, p.writeIns>>
                     = <<Processed(b), Processed(b), Processed(b)>>
       /\ FinalBoxes \subseteq VotesBoxes

CheckVotes(next) ==
    /\ UNCHANGED <<d, loop>>
    /\ \/ VotesCrash /\ Crash("11.03")
       \/ ~VotesCrash /\ Record("11.03", VotesOk, next)

-----------------------------------------------------------------------------
TallyInit == ChainInit /\ ReportInit("6.01")

(* A mistake: the decryptions are checked before the shuffles.             *)
MixDecChecksSwapped ==
    \/ CheckChain("10.02")
    \/ StartBox
    \/ VerifyPayload
    \/ CombineRaises
    \/ CheckShuffles("11.01")
    \/ CheckDecryptions("10.04")

MixDecChecks ==
    \/ CheckChain("10.04")
    \/ StartBox
    \/ VerifyPayload
    \/ CombineRaises
    \/ CheckShuffles("10.02")
    \/ CheckDecryptions("11.01")

TallyNext ==
    \/ CheckCompleteness
    \/ CheckForm("6.02", "6.03")
    \/ CheckForm("6.03", "6.04")
    \/ CheckForm("6.04", "8.01")
    \/ CheckForm("8.01", "8.02")
    \/ CheckNodeIds("8.03")
    \/ CheckForm("8.03", "8.04")
    \/ CheckForm("8.04", "8.05")
    \/ CheckBallotBoxIds("8.06")
    \/ CheckForm("8.06", "8.07")
    \/ CheckCards("8.08")
    \/ CheckSameVotes("8.09")
    \/ CheckWidths("8.10")
    \/ CheckPlaintextWidths("8.11")
    \/ CheckCounts("10.01")
    \/ CheckProofs("10.03")
    \/ MixDecChecks
    \/ CheckFinalIds("11.02")
    \/ CheckFinals("11.03")
    \/ CheckVotes("11.04")
    \/ CheckForm("11.04", "done")

TallySpec == TallyInit /\ [][TallyNext]_vars

-----------------------------------------------------------------------------
(* Properties.                                                             *)

Accepted == pc = "done" /\ ReportOk

(* End to end: when verify_tally returns an ok report on a dataset with    *)
(* final payloads, the published votes of a ballot box are the votes that  *)
(* every single node confirmed for it, each as often.  The chain of checks *)
(* starts at one node only (10.03, 10.04), so the others are tied to it by *)
(* 8.08; its end is a list with padding, which 11.03 removes and 8.11      *)
(* counts.                                                                 *)
PublishedRight(b) ==
    \A j \in NodesOf(d.bb, b) :
      LET votes == LastOf(d.bb, b, j).votes
      IN  SameMultiset(VotesPayloadOf(b).decrypted, [i \in DOMAIN votes |-> votes[i].ct.m])

AcceptedRight ==
    (Accepted /\ d.finals # <<>> /\ KeysGenuine) =>
      /\ VotesBoxes = FinalBoxes
      /\ \A b \in VotesBoxes : VotesEncrypted(b) => PublishedRight(b)

(* One card, one vote: an ok report means that no two entries in the       *)
(* ballot boxes of any nodes are of one card, unless they are the same     *)
(* vote, of the same ballot box, recorded by two nodes.  10.01 looks at    *)
(* node 1 only and 8.08 at one ballot box at a time.                       *)
CardsOnce ==
    Accepted =>
      \A i, j \in DOMAIN d.bb : \A k \in DOMAIN d.bb[i].votes : \A l \in DOMAIN d.bb[j].votes :
        d.bb[i].votes[k].vcid = d.bb[j].votes[l].vcid =>
          /\ d.bb[i].box = d.bb[j].box
          /\ d.bb[i].votes[k] = d.bb[j].votes[l]
          /\ i = j => k = l
          /\ d.bb[i].votes[k].vcid \in d.keyed

(* The one mistake of the setup's keys, and the one of a final payload,    *)
(* that no check of verify_tally looks for before it is tripped over: key  *)
(* lengths are compared by the configuration phase only (3.11, 3.12), and  *)
(* missing proofs by the schemas only (6.03), which are not in the         *)
(* repository.                                                             *)
KeysUncombined == \E i \in DOMAIN d.shuffles : KeysRaise(d.shuffles[i].node)
ProofsLacking == \E b \in FinalBoxes : FinalPayloadOf(b).lacks = "proofs"

(* An exception hides a dataset that would have passed in three cases      *)
(* only: setup payloads are missing, a component's remaining keys are of   *)
(* different lengths (the ValueError of combine_public_keys leaves 10.04), *)
(* or a final payload has no decryption proofs (a KeyError of 11.02).      *)
(* Whatever else a check trips over, an unlisted ballot box, missing parts *)
(* of final or published payloads, an earlier check has reported.          *)
CrashExplained ==
    pc = "crashed" => ~ReportOk \/ d.missing \/ KeysUncombined \/ ProofsLacking

(* An honest tally: besides the evidence of honest components, the setup's *)
(* files are there and list every ballot box and card; every node recorded *)
(* the same votes, one per card, valid, proven and encrypted under the     *)
(* election key; and what is published is what the plaintexts were cast.   *)
HonestVote(v, delta, psi) ==
    /\ v.vcid \in d.keyed /\ v.proven
    /\ v.ct.m \in Valid /\ v.ct.w = delta /\ v.exp = 1 /\ v.codes = psi
    /\ \A h \in Holder : v.ct.e[h] = v.ct.r

HonestBallotBoxes ==
    /\ d.bb # <<>> /\ BallotBoxes \subseteq DOMAIN d.ctx
    /\ \A i \in DOMAIN d.bb : \A v \in ToSet(d.bb[i].votes) :
         HonestVote(v, d.ctx[d.bb[i].box], d.psi[d.bb[i].box])
    /\ \A i, j \in DOMAIN d.bb : d.bb[i].box = d.bb[j].box => SameMultiset(d.bb[i].votes, d.bb[j].votes)
    /\ \A i, j \in DOMAIN d.bb : \A k \in DOMAIN d.bb[i].votes : \A l \in DOMAIN d.bb[j].votes :
         d.bb[i].node = d.bb[j].node /\ d.bb[i].votes[k].vcid = d.bb[j].votes[l].vcid
           => <<i, k>> = <<j, l>>

HonestPublished ==
    /\ VotesIndices(NoBox) = {} /\ VotesBoxes = FinalBoxes
    /\ \A i, k \in DOMAIN d.votes : d.votes[i].box = d.votes[k].box => i = k
    /\ \A i \in DOMAIN d.votes :
         LET p == d.votes[i]
         IN  p.wf /\ \A list \in {p.decrypted, p.decoded, p.writeIns} : list = Processed(p.box)

HonestTally ==
    /\ HonestEvidence /\ d.shuffles # <<>>
    /\ ~d.missing /\ d.badForm = {}
    /\ HonestBallotBoxes /\ HonestPublished

(* No honest tally is turned away: every check passes and none raises, for *)
(* any number of ballot boxes, of votes in them, also none or one, and any *)
(* order of the files.                                                     *)
HonestTallyAccepted == HonestTally => (ReportOk /\ pc # "crashed")

(* What the repository's notes say of malformed datasets: setup files that *)
(* are missing are reported, as the configuration phase does, and do not   *)
(* end the run with an exception.                                          *)
MissingFilesReported == d.missing => pc # "crashed"

(* The checks of MixDecChain run here as they run there: leaving out the   *)
(* entries of the other checks, verify_tally takes the steps of            *)
(* MixDecChain.                                                            *)
ChainPc ==
    CASE Ran("11.02") -> "done"
      [] Ran("10.02") /\ ~Ran("11.02") -> "11.02"
      [] Ran("10.04") /\ ~Ran("10.02") -> "10.02"
      [] Ran("10.03") /\ ~Ran("10.04") -> "10.04"
      [] Ran("8.02") /\ ~Ran("10.03") -> "10.03"
      [] OTHER -> "8.02"

ChainEntries == {k \in DOMAIN report : report[k].id \in CheckIds}
ChainReport == Kept(report, ChainEntries)

Chain == INSTANCE MixDecChain WITH pc <- ChainPc, report <- ChainReport

RunsChain == Chain!Init /\ [][Chain!Next]_(Chain!vars)
=============================================================================
