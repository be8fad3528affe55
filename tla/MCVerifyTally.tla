--------------------------- MODULE MCVerifyTally ----------------------------
(* Instances of VerifyTally for TLC: evidence of MixNet with the setup's   *)
(* card ids and the published votes, and what may happen to it.            *)
EXTENDS MixNet, VerifyTally

CONSTANTS x, y, z, one

Nobody(k) == [b \in 1..k |-> [j \in Holder |-> "honest"]]
Somebody(k) == {[Nobody(k) EXCEPT ![b][j] = deed] : b \in 1..k, j \in Holder, deed \in Deeds}

WithTally(e) ==
    LET cards == UNION {{v.vcid : v \in ToSet(e.bb[i].votes)} : i \in DOMAIN e.bb} \cup {99}
        PublishedOf(f) == [box |-> f.box, wf |-> TRUE, decrypted |-> Cast(f.plain),
                           decoded |-> Cast(f.plain), writeIns |-> Cast(f.plain)]
    IN  [missing |-> FALSE, badForm |-> {}, psi |-> [b \in Box |-> 1], cards |-> cards, keyed |-> cards,
         votes |-> [i \in DOMAIN e.finals |-> PublishedOf(e.finals[i])]] @@ e

(* Faults of the files that MixDecChain does not read, and changes that    *)
(* all nodes' payloads agree on.                                           *)
TallyFaults ==
    {"setup missing", "metadata mismatch", "final of another event", "no ballot boxes", "no shuffles", "no finals",
     "no published votes", "no final payloads at all", "card unknown", "card without key",
     "vote unproven", "vote of a node differs", "vote of a node missing",
     "card votes twice", "card votes in two ballot boxes", "published twice",
     "published of no box", "published garbled", "published vote missing",
     "published vote twice", "published order differs", "write-ins differ", "one node only",
     "node left out", "wide plaintext", "wide vote", "wide codes", "wide exponentiated vote"}

EachNode(e, Change(_)) == [e EXCEPT !.bb = [i \in DOMAIN @ |-> Change(@[i])]]
Twice(s) == IF s = <<>> THEN s ELSE Append(s, s[1])

TallyDisturbed(e, fault) ==
    CASE fault = "setup missing" -> [e EXCEPT !.missing = TRUE]
      [] fault = "metadata mismatch" -> [e EXCEPT !.badForm = {"8.03"}]
      [] fault = "final of another event" -> [e EXCEPT !.badForm = {"8.04", "11.01"}]
      [] fault = "no ballot boxes" -> [e EXCEPT !.bb = <<>>]
      [] fault = "no shuffles" -> [e EXCEPT !.shuffles = <<>>]
      [] fault = "no finals" -> [e EXCEPT !.finals = <<>>]
      [] fault = "no published votes" -> [e EXCEPT !.votes = <<>>]
      [] fault = "no final payloads at all" -> [e EXCEPT !.finals = <<>>, !.votes = <<>>]
      [] fault = "card unknown" -> [e EXCEPT !.cards = {}, !.keyed = {}]
      [] fault = "card without key" -> [e EXCEPT !.keyed = {}]
      [] fault = "vote unproven" ->
           EachNode(e, LAMBDA p : [p EXCEPT !.votes = [i \in DOMAIN @ |-> [@[i] EXCEPT !.proven = FALSE]]])
      [] fault = "vote of a node differs" /\ e.bb[N].votes # <<>> ->
           [e EXCEPT !.bb[N].votes[1].ct.m = Other(@)]
      [] fault = "vote of a node missing" /\ e.bb[N].votes # <<>> ->
           [e EXCEPT !.bb[N].votes = Tail(@)]
      [] fault = "card votes twice" -> EachNode(e, LAMBDA p : [p EXCEPT !.votes = Twice(@)])
      [] fault = "card votes in two ballot boxes" ->
           EachNode(e, LAMBDA p : [p EXCEPT !.votes =
              [i \in DOMAIN @ |-> [@[i] EXCEPT !.vcid = (@ % 10) + 10]]])
      [] fault = "published twice" -> [e EXCEPT !.votes = @ \o @]
      [] fault = "published of no box" -> [e EXCEPT !.votes[1].box = NoBox]
      [] fault = "published garbled" -> [e EXCEPT !.votes[1].wf = FALSE]
      [] fault = "published vote missing" /\ e.votes[1].decrypted # <<>> ->
           [e EXCEPT !.votes[1].decrypted = Tail(@), !.votes[1].decoded = Tail(@),
                     !.votes[1].writeIns = Tail(@)]
      [] fault = "published vote twice" -> [e EXCEPT !.votes[1].decrypted = Twice(@)]
      [] fault = "published order differs" -> [e EXCEPT !.votes[1].decrypted = Reversed(@)]
      [] fault = "write-ins differ" -> [e EXCEPT !.votes[1].writeIns = <<>>]
      [] fault = "one node only" -> [e EXCEPT !.bb = <<e.bb[1]>>]
      [] fault = "node left out" -> [e EXCEPT !.bb = Without(@, 1)]
      [] fault = "wide plaintext" -> [e EXCEPT !.finals[1].plain[1].w = 2]
      [] fault = "wide vote" /\ e.bb[1].votes # <<>> -> [e EXCEPT !.bb[1].votes[1].ct.w = 2]
      [] fault = "wide codes" ->
           EachNode(e, LAMBDA p : [p EXCEPT !.votes = [i \in DOMAIN @ |-> [@[i] EXCEPT !.codes = 2]]])
      [] fault = "wide exponentiated vote" ->
           EachNode(e, LAMBDA p : [p EXCEPT !.votes = [i \in DOMAIN @ |-> [@[i] EXCEPT !.exp = 2]]])
      [] OTHER -> e

Ballots == {<< <<x, y>> >>, << <<x>> >>, << <<>> >>, << <<x, y>>, <<y>> >>, << <<x>>, <<x, y>> >>}
OddBallots == {<< <<x, z>> >>, << <<z>> >>, << <<one, x>> >>, << <<one>> >>} \* z is no valid vote

HonestTallies == {WithTally(Evidence(v, Nobody(Len(v)))) : v \in Ballots}
HonestOdd == {WithTally(Evidence(v, Nobody(Len(v)))) : v \in OddBallots}

TallyDatasets ==
    HonestTallies \cup HonestOdd
      \cup {WithTally(Evidence(v, deeds)) : v \in {<< <<x, y>> >>}, deeds \in Somebody(1)}
      \cup {TallyDisturbed(e, f) : e \in HonestTallies, f \in TallyFaults}
      \cup {Disturbed(e, f, k) : e \in HonestTallies, f \in Faults \cup {"reversed"}, k \in 1..N}
=============================================================================
