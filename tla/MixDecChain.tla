---------------------------- MODULE MixDecChain -----------------------------
(***************************************************************************)
(* The checks of FixtureDataset.verify_tally that follow the votes of a   *)
(* ballot box through the mix net: node ids (8.02), counts and widths      *)
(* along the chain (10.03), shuffle arguments of the control components    *)
(* (10.04), their partial decryptions (10.02), and the electoral board's   *)
(* shuffle and decryption (11.02).                                         *)
(*                                                                         *)
(* The dataset d never changes.  10.04 is the loop of the source, one step *)
(* per payload, because it carries previous_ciphertexts from one payload   *)
(* to the next; the other checks keep nothing between their iterations and *)
(* are one step each.                                                      *)
(*                                                                         *)
(*   d.bb        control-component ballot-box payloads, in file order      *)
(*   d.shuffles  control-component shuffle payloads, in file order         *)
(*   d.finals    tally-component shuffle payloads, in file order           *)
(*   d.ctx       delta of every ballot box the election context lists      *)
(*   d.ccm       node id -> holder of the ccmj election key listed for it  *)
(*   d.eb        holder of the key listed as the electoral board's         *)
(*   d.pk        the key listed as the election public key                 *)
(*   d.width     number of components of the keys: 0 -> the election       *)
(*               public key, node id -> the ccmj election key listed for   *)
(*               it, N + 1 -> the electoral board's                        *)
(***************************************************************************)
EXTENDS ElGamal, Report, Numbers

CONSTANT Datasets

NoBox == 0   \* a final payload without a ballotBoxId

(* A confirmed vote: its verification card, the encrypted vote, how many   *)
(* components its exponentiated vote and its partial choice return codes   *)
(* have, and whether its two voting-client proofs hold.                    *)
Vote == [vcid : Nat, ct : Ciphertext, exp : Nat, codes : Nat, proven : BOOLEAN]

(* lacks of a final payload: the part that is not there, of the shuffle,   *)
(* the plaintext decryption, the messages in it and their proofs.          *)
Lack == {"nothing", "shuffle", "decryption", "messages", "proofs"}

BallotBoxPayload == [box : Box, node : Nat, votes : Seq(Vote)]
ShufflePayload == [box : Box, node : Nat, shuffled : Seq(Ciphertext), arg : Argument,
                   decrypted : Seq(Ciphertext), proofs : Seq(Proof)]
FinalPayload == [box : Box \cup {NoBox}, lacks : Lack, shuffled : Seq(Ciphertext),
                 arg : Argument, plain : Seq(Plaintext), proofs : Seq(Proof)]

IsDataset(x) ==
    /\ x.bb \in Seq(BallotBoxPayload)
    /\ x.shuffles \in Seq(ShufflePayload)
    /\ x.finals \in Seq(FinalPayload)
    /\ DOMAIN x.ctx \subseteq Box /\ \A b \in DOMAIN x.ctx : x.ctx[b] \in Nat
    /\ DOMAIN x.ccm \subseteq Node /\ \A k \in DOMAIN x.ccm : x.ccm[k] \in Holder
    /\ x.eb \in Holder /\ x.pk \in Key
    /\ x.width \in [0..EB -> Nat]

ASSUME DatasetsAssumption == \A x \in Datasets : IsDataset(x)

VARIABLES d,       \* the dataset
          boxes,   \* 10.04: ballot boxes with shuffles not yet started
          cur,     \* 10.04: the ballot box being walked through
          rest,    \* 10.04: indices of its shuffle payloads still to come
          prev,    \* 10.04: previous_ciphertexts
          fails    \* 10.04: failures so far, as <<ballot box, node, reason>>

vars == <<d, pc, report, boxes, cur, rest, prev, fails>>
loop == <<boxes, cur, rest, prev, fails>>

-----------------------------------------------------------------------------
(* What the checks read from the dataset.                                  *)

ShuffleIndices(b) == {i \in DOMAIN d.shuffles : d.shuffles[i].box = b}
ShuffleBoxes == {d.shuffles[i].box : i \in DOMAIN d.shuffles}
BallotBoxIndices(b) == {i \in DOMAIN d.bb : d.bb[i].box = b}

(* The indices of the payloads of b that are of the given node, and the    *)
(* first one in file order, as next(...) finds it.                         *)
NodeOne(b) == {i \in BallotBoxIndices(b) : d.bb[i].node = 1}
NodeLast(b) == {i \in ShuffleIndices(b) : d.shuffles[i].node = N}
First(indices) == CHOOSE i \in indices : \A k \in indices : i <= k

(* sorted(shuffles, key = nodeId) is stable: i comes before k.             *)
Before(i, k) ==
    \/ d.shuffles[i].node < d.shuffles[k].node
    \/ d.shuffles[i].node = d.shuffles[k].node /\ i < k

LeastOfFileOrder(indices) == CHOOSE i \in indices : \A k \in indices : i <= k   \* a mistake
LeastOf(indices) == CHOOSE i \in indices : \A k \in indices \ {i} : Before(i, k)
Previous(i) == {k \in ShuffleIndices(d.shuffles[i].box) : Before(k, i)}

(* The dictionary of confirmed votes by verification card id (the last     *)
(* vote of an id stays), in id order.                                      *)
ConfirmedVotes(votes) ==
    LET Ids == {votes[i].vcid : i \in DOMAIN votes}
        Last(id) == CHOOSE i \in DOMAIN votes :
                      votes[i].vcid = id /\ \A k \in DOMAIN votes : votes[k].vcid = id => k <= i
    IN  [i \in 1..Cardinality(Ids) |-> votes[Last(Ascending(Ids)[i])].ct]

Smaller(a, b) == IF a < b THEN a ELSE b

(* An encryption of One with randomness 1.                                 *)
Trivial(delta) == [r |-> 1, m |-> One, e |-> d.pk, w |-> Smaller(delta, d.width[0])]

(* A mistake: two votes are padded as well.                                *)
InitialCiphertextsOfTwo(b) ==
    LET votes == ConfirmedVotes(d.bb[First(NodeOne(b))].votes)
    IN  IF Len(votes) <= 2
        THEN votes \o <<Trivial(d.ctx[b]), Trivial(d.ctx[b])>>
        ELSE votes

(* get_mixnet_initial_ciphertexts of the node-1 payload: two trivial       *)
(* ciphertexts are appended to fewer than two votes.                       *)
InitialCiphertexts(b) ==
    LET votes == ConfirmedVotes(d.bb[First(NodeOne(b))].votes)
    IN  IF Len(votes) < 2
        THEN votes \o <<Trivial(d.ctx[b]), Trivial(d.ctx[b])>>
        ELSE votes

-----------------------------------------------------------------------------
(* 8.02: in both families, the payloads of a ballot box come from the      *)
(* nodes 1..N, each once.                                                  *)
EachNodeOnce(payloads, b) ==
    LET indices == {i \in DOMAIN payloads : payloads[i].box = b}
    IN  /\ {payloads[i].node : i \in indices} = Node
        /\ \A i, k \in indices : payloads[i].node = payloads[k].node => i = k

NodeIdsOk ==
    /\ \A i \in DOMAIN d.bb : EachNodeOnce(d.bb, d.bb[i].box)
    /\ \A b \in ShuffleBoxes : EachNodeOnce(d.shuffles, b)

CheckNodeIds(next) == Record("8.02", NodeIdsOk, next) /\ UNCHANGED <<d, loop>>

(* 10.03: a known ballot box is looked up with [], and the dictionary's    *)
(* KeyError is not caught.                                                 *)
ChainCrashes == \E b \in ShuffleBoxes : NodeOne(b) # {} /\ b \notin DOMAIN d.ctx

ChainStepOk(i) ==
    LET p == d.shuffles[i]
        count == Len(InitialCiphertexts(p.box))
    IN  /\ Len(p.shuffled) = count /\ Len(p.decrypted) = count
        /\ \A k \in Previous(i) :
             (\A l \in Previous(i) \ {k} : Before(l, k))
               => Len(p.shuffled) = Len(d.shuffles[k].decrypted)
        /\ \A c \in 1..Len(p.shuffled) : p.shuffled[c].w = d.ctx[p.box]
        /\ \A c \in 1..Len(p.decrypted) : p.decrypted[c].w = d.ctx[p.box]

ChainOk ==
    \A b \in ShuffleBoxes :
      /\ NodeOne(b) # {}
      /\ Len(InitialCiphertexts(b)) >= 2
      /\ \A i \in ShuffleIndices(b) : ChainStepOk(i)

CheckChain(next) ==
    /\ UNCHANGED <<d, loop>>
    /\ \/ ChainCrashes /\ Crash("10.03")
       \/ ~ChainCrashes /\ Record("10.03", ChainOk, next)

-----------------------------------------------------------------------------
(* 10.04: the loop over ballot boxes, and over their payloads by node id.  *)

(* What makes the loop skip a ballot box.                                  *)
BoxProblems(b) ==
    IF NodeOne(b) = {} THEN {<<b, 0, "missing node 1 payload">>}
    ELSE IF b \notin DOMAIN d.ctx THEN {<<b, 0, "missing context">>}
    ELSE IF Len(InitialCiphertexts(b)) < 2 THEN {<<b, 0, "count<2">>}
    ELSE {}

StartBox ==
    /\ pc = "10.04" /\ rest = {} /\ boxes # {}
    /\ LET b == CHOOSE x \in boxes : \A y \in boxes : x <= y
       IN  /\ boxes' = boxes \ {b}
           /\ cur' = b
           /\ fails' = fails \cup BoxProblems(b)
           /\ IF BoxProblems(b) = {}
              THEN rest' = ShuffleIndices(b) /\ prev' = InitialCiphertexts(b)
              ELSE UNCHANGED <<rest, prev>>
    /\ UNCHANGED <<d, pc, report>>

(* Node 1 shuffles under the election public key, node j under the keys of *)
(* the nodes j..N and of the electoral board.                              *)
MissingKeys(node) == IF node = 1 THEN {} ELSE (node..N) \ DOMAIN d.ccm
ShuffleKey(node) == IF node = 1 THEN d.pk ELSE CombinedKey(d.ccm, d.eb, node)
KeyWidth(node) == IF node = 1 THEN d.width[0] ELSE d.width[EB]

(* combine_public_keys raises on keys of different lengths, and nothing    *)
(* around the call catches it.                                             *)
KeysRaise(node) ==
    /\ node # 1 /\ MissingKeys(node) = {}
    /\ \E k \in node..N : d.width[k] # d.width[EB]

ShuffleOk(i, cs) ==
    LET p == d.shuffles[i]
        cols == MatrixColumnCount(Len(InitialCiphertexts(p.box)))
    IN  VerifyShuffle(ShuffleKey(p.node), KeyWidth(p.node), cols, cs, p.shuffled, p.arg)

(* A malformed argument is a failure, and not an invalid proof on top.     *)
PayloadProblems(i, cs) ==
    LET p == d.shuffles[i]
    IN  IF MissingKeys(p.node) # {} THEN {<<p.box, p.node, "missing keys">>}
        ELSE IF ShuffleRaises(cs, p.shuffled, p.arg)
             THEN {<<p.box, p.node, "malformed shuffle proof">>}
        ELSE IF ~ShuffleOk(i, cs) THEN {<<p.box, p.node, "invalid shuffle proof">>}
        ELSE {}

(* A mistake in what follows: the next payload is checked against what     *)
(* this one shuffled.                                                      *)
VerifyPayloadPrevShuffled ==
    /\ pc = "10.04" /\ rest # {} /\ ~KeysRaise(d.shuffles[LeastOf(rest)].node)
    /\ LET i == LeastOf(rest)
       IN  /\ fails' = fails \cup PayloadProblems(i, prev)
           /\ prev' = d.shuffles[i].shuffled
           /\ rest' = rest \ {i}
    /\ UNCHANGED <<d, pc, report, boxes, cur>>

(* One payload of the sorted list; the next one is checked against what    *)
(* this one decrypted, whatever the outcome.                               *)
VerifyPayload ==
    /\ pc = "10.04" /\ rest # {} /\ ~KeysRaise(d.shuffles[LeastOf(rest)].node)
    /\ LET i == LeastOf(rest)
       IN  /\ fails' = fails \cup PayloadProblems(i, prev)
           /\ prev' = d.shuffles[i].decrypted
           /\ rest' = rest \ {i}
    /\ UNCHANGED <<d, pc, report, boxes, cur>>

(* The keys of one payload's node do not combine.                          *)
CombineRaises ==
    /\ rest # {} /\ KeysRaise(d.shuffles[LeastOf(rest)].node)
    /\ Crash("10.04")
    /\ UNCHANGED <<d, loop>>

CheckShuffles(next) ==
    /\ rest = {} /\ boxes = {}
    /\ Record("10.04", fails = {}, next)
    /\ UNCHANGED <<d, loop>>

-----------------------------------------------------------------------------
(* 10.02: the partial decryptions, with the key listed for the node.       *)
DecryptionOk(i) ==
    LET p == d.shuffles[i]
    IN  /\ p.node \in DOMAIN d.ccm
        /\ VerifyDecryptions(p.shuffled, KeyOf(d.ccm[p.node]), d.width[p.node], p.decrypted,
                             p.proofs, [box |-> p.box, node |-> p.node])

DecryptionsOkOfLast == \A i \in DOMAIN d.shuffles : i = Len(d.shuffles) => DecryptionOk(i)   \* a mistake
DecryptionsOk == \A i \in DOMAIN d.shuffles : DecryptionOk(i)

CheckDecryptions(next) == Record("10.02", DecryptionsOk, next) /\ UNCHANGED <<d, loop>>

-----------------------------------------------------------------------------
(* 11.02: the final payloads by ballot box; a later payload replaces an    *)
(* earlier one of the same ballot box, and the replacement is a failure.   *)
FinalIndices(b) == {i \in DOMAIN d.finals : d.finals[i].box = b}
FinalBoxes == {d.finals[i].box : i \in DOMAIN d.finals} \ {NoBox}
FinalPayloadOf(b) == d.finals[CHOOSE i \in FinalIndices(b) : \A k \in FinalIndices(b) : k <= i]

(* A final payload of a listed, mixed ballot box is subscripted; only      *)
(* messages that are not there are caught.                                 *)
FinalsCrash ==
    \E b \in FinalBoxes :
      /\ b \in DOMAIN d.ctx /\ NodeLast(b) # {}
      /\ FinalPayloadOf(b).lacks \notin {"nothing", "messages"}

FinalOk(b) ==
    LET f == FinalPayloadOf(b)
        prior == d.shuffles[First(NodeLast(b))].decrypted
        n == Len(prior)
        delta == d.ctx[b]
        width == Smaller(delta, d.width[EB])
    IN  /\ b \in DOMAIN d.ctx
        /\ NodeLast(b) # {}
        /\ f.lacks = "nothing"
        /\ n >= 2
        /\ Len(f.shuffled) = n /\ Len(f.plain) = n /\ Len(f.proofs) = n
        /\ \A i \in 1..n : f.plain[i].w = delta
        /\ ~ShuffleRaises(prior, f.shuffled, f.arg)
        /\ VerifyShuffle(KeyOf(d.eb), width, MatrixColumnCount(n), prior, f.shuffled, f.arg)
        /\ \A i \in 1..n :
             VerifyDecryption(f.shuffled[i], KeyOf(d.eb), width, f.plain[i], f.proofs[i],
                              [box |-> b, node |-> EB])

FinalsOk ==
    /\ FinalIndices(NoBox) = {}
    /\ \A b \in FinalBoxes : Cardinality(FinalIndices(b)) = 1 /\ FinalOk(b)

CheckFinals(next) ==
    /\ UNCHANGED <<d, loop>>
    /\ \/ FinalsCrash /\ Crash("11.02")
       \/ ~FinalsCrash /\ Record("11.02", FinalsOk, next)

-----------------------------------------------------------------------------
ChainInit ==
    /\ d \in Datasets
    /\ boxes = ShuffleBoxes
    /\ cur = NoBox
    /\ rest = {}
    /\ prev = <<>>
    /\ fails = {}

Init == ChainInit /\ ReportInit("8.02")

Next ==
    \/ CheckNodeIds("10.03")
    \/ CheckChain("10.04")
    \/ StartBox
    \/ VerifyPayload
    \/ CombineRaises
    \/ CheckShuffles("10.02")
    \/ CheckDecryptions("11.02")
    \/ CheckFinals("done")

Spec == Init /\ [][Next]_vars

-----------------------------------------------------------------------------
(* Properties.                                                             *)

CheckIds == {"8.02", "10.03", "10.04", "10.02", "11.02"}
Reasons == {"missing node 1 payload", "missing context", "count<2", "missing keys",
            "malformed shuffle proof", "invalid shuffle proof"}

(* The state has the shape the code gives it, and the loop variables stay  *)
(* inside the dataset.                                                     *)
TypeOK ==
    /\ IsDataset(d)
    /\ pc \in CheckIds \cup {"done", "crashed"}
    /\ report \in Seq([id : CheckIds, ok : BOOLEAN])
    /\ boxes \subseteq ShuffleBoxes
    /\ cur \in ShuffleBoxes \cup {NoBox}
    /\ rest \subseteq ShuffleIndices(cur)
    /\ prev \in Seq(Ciphertext)
    /\ fails \subseteq Box \X Nat \X Reasons

(* The setup keys are the ones the components hold: component k's key is   *)
(* listed for node k, and the election key is the product of all of them.  *)
KeysGenuine ==
    /\ d.ccm = [k \in Node |-> k]
    /\ d.eb = EB
    /\ d.pk = [h \in Holder |-> 1]

(* Every confirmed vote is an encryption under the election key.           *)
VotesEncrypted(b) ==
    \A i \in 1..Len(InitialCiphertexts(b)) :
      LET c == InitialCiphertexts(b)[i]
      IN  \A h \in Holder : c.e[h] = c.r

(* cs holds the messages of init, each once, in some order, and exactly    *)
(* the holders from j on must still decrypt them.                          *)
Holds(init, cs, j) ==
    \E p \in [1..Len(init) -> 1..Len(init)] :
      /\ IsPermutation(p, Len(init))
      /\ Len(cs) = Len(init)
      /\ \A i \in 1..Len(init) :
           /\ cs[i].m = init[p[i]].m
           /\ \A h \in Holder : cs[i].e[h] = IF h >= j THEN cs[i].r ELSE 0

HoldsVotes(b, cs, j) == Holds(InitialCiphertexts(b), cs, j)

(* The plaintexts are the messages of init, each once and nothing left on  *)
(* it.                                                                     *)
Tallies(init, plain) ==
    /\ Len(plain) = Len(init)
    /\ \E p \in [1..Len(plain) -> 1..Len(plain)] :
         /\ IsPermutation(p, Len(plain))
         /\ \A i \in 1..Len(plain) :
              /\ plain[i].m = init[p[i]].m
              /\ \A h \in Holder : plain[i].e[h] = 0

TalliesVotes(b) == Tallies(InitialCiphertexts(b), FinalPayloadOf(b).plain)

TalliesRight ==
    KeysGenuine =>
      \A b \in FinalBoxes :
        /\ NodeOne(b) # {} /\ b \in DOMAIN d.ctx
        /\ VotesEncrypted(b) => TalliesVotes(b)

(* A tally that passes is right: when the node ids (8.02), the shuffles    *)
(* (10.04), the partial decryptions (10.02) and the final payloads (11.02) *)
(* are all reported ok, every final payload decrypts to a permutation of   *)
(* the votes confirmed at node 1, whatever the N components and the board  *)
(* did.  No single check says this: 10.04 takes the partial decryptions    *)
(* unverified, 10.02 knows nothing of the chain, and 11.02 starts from     *)
(* whatever node N published.                                              *)
VerdictSound ==
    (/\ Passed("8.02") /\ Passed("10.04") /\ Passed("10.02") /\ Passed("11.02"))
      => TalliesRight

(* Honest evidence, by what the components do, each one with what it got   *)
(* from the one before it: it shuffles and re-encrypts, decrypts its       *)
(* share, and makes its proofs for the ballot box and itself.  That its    *)
(* randomness cancels the one of a ciphertext is left out.                 *)
ShufflesTo(cs, j, ss, arg) ==
    /\ Len(ss) = Len(cs) /\ Len(arg.rho) = Len(cs)
    /\ arg.wf /\ IsPermutation(arg.perm, Len(cs))
    /\ \A i \in 1..Len(cs) : ss[i] = ReEncryption(cs[arg.perm[i]], KeysFrom(j), arg.rho[i])
    /\ \A i \in 1..Len(ss) : ~HasOne(ss[i])

ProvedFor(b, j, proofs, n) ==
    Len(proofs) = n /\ \A i \in 1..n : proofs[i] = [box |-> b, node |-> j]

(* The confirmed votes as node 1 takes them: fewer than two of them get    *)
(* two encryptions of One, with randomness 1, for company.                 *)
Mixable(votes, delta) ==
    LET padding == [r |-> 1, m |-> One, e |-> KeysFrom(1), w |-> delta]
    IN  IF Len(votes) < 2 THEN votes \o <<padding, padding>> ELSE votes

(* What component j gets for ballot box b: the confirmed votes, or what    *)
(* node j - 1 decrypted.                                                   *)
Received(b, j) ==
    IF j = 1 THEN Mixable(ConfirmedVotes(d.bb[First(NodeOne(b))].votes), d.ctx[b])
    ELSE d.shuffles[CHOOSE i \in ShuffleIndices(b) : d.shuffles[i].node = j - 1].decrypted

HonestShuffle(p) ==
    LET n == Len(p.shuffled)
    IN  /\ ShufflesTo(Received(p.box, p.node), p.node, p.shuffled, p.arg)
        /\ Len(p.decrypted) = n
        /\ \A i \in 1..n : p.decrypted[i] = Decryption(p.shuffled[i], p.node)
        /\ ProvedFor(p.box, p.node, p.proofs, n)

HonestFinal(f) ==
    LET n == Len(f.shuffled)
    IN  /\ f.box \in ShuffleBoxes /\ f.lacks = "nothing"
        /\ ShufflesTo(Received(f.box, EB), EB, f.shuffled, f.arg)
        /\ Len(f.plain) = n
        /\ \A i \in 1..n : f.plain[i] = Bare(Decryption(f.shuffled[i], EB))
        /\ ProvedFor(f.box, EB, f.proofs, n)

(* The files are complete, in any order; all keys are of one length; every *)
(* mixed ballot box is listed in the context and every vote has the width  *)
(* listed for it.                                                          *)
HonestFiles ==
    /\ \A k \in 0..EB : d.width[k] = d.width[0]
    /\ \A b \in ShuffleBoxes :
         /\ EachNodeOnce(d.bb, b) /\ EachNodeOnce(d.shuffles, b)
         /\ b \in DOMAIN d.ctx /\ d.ctx[b] \in 1..d.width[0]
    /\ \A i \in DOMAIN d.bb :
         /\ EachNodeOnce(d.bb, d.bb[i].box)
         /\ d.bb[i].box \in ShuffleBoxes =>
              \A k \in DOMAIN d.bb[i].votes : d.bb[i].votes[k].ct.w = d.ctx[d.bb[i].box]
    /\ \A i, k \in DOMAIN d.finals : d.finals[i].box = d.finals[k].box => i = k

HonestEvidence ==
    /\ KeysGenuine /\ HonestFiles
    /\ \A i \in DOMAIN d.shuffles : HonestShuffle(d.shuffles[i])
    /\ \A i \in DOMAIN d.finals : HonestFinal(d.finals[i])

(* No honest run is turned away: evidence of N honest components and an    *)
(* honest board passes every check, in any file order and for any number   *)
(* of votes, and no check raises on it.                                    *)
HonestAccepted == HonestEvidence => (ReportOk /\ pc # "crashed")

(* When the loop of 10.04 is over, its failures are the ones of judging    *)
(* every payload on its own against its predecessor by node id, or the     *)
(* confirmed votes: nothing carries over from an earlier ballot box, a     *)
(* skipped one or a failed payload, whatever the file order.               *)
Predecessor(i) ==
    IF Previous(i) = {} THEN InitialCiphertexts(d.shuffles[i].box)
    ELSE d.shuffles[CHOOSE k \in Previous(i) :
                      \A l \in Previous(i) \ {k} : Before(l, k)].decrypted

LoopVerdict ==
    Ran("10.04") =>
      fails = (UNION {BoxProblems(b) : b \in ShuffleBoxes}) \cup
              (UNION {PayloadProblems(i, Predecessor(i)) :
                        i \in {k \in DOMAIN d.shuffles : BoxProblems(d.shuffles[k].box) = {}}})

(* While 10.04 walks a ballot box whose shuffles have been sound so far    *)
(* and whose decryptions will be found sound by 10.02, previous_ciphertexts *)
(* holds the confirmed votes, still encrypted for exactly the components   *)
(* that come next and the board: the chain is never one node ahead of, or  *)
(* behind, the keys it is verified with.                                   *)
PrevHoldsVotes ==
    (/\ pc = "10.04" /\ rest # {} /\ fails = {}
     /\ KeysGenuine /\ NodeIdsOk /\ DecryptionsOk /\ VotesEncrypted(cur))
      => HoldsVotes(cur, prev, d.shuffles[LeastOf(rest)].node)

(* The invariant behind VerdictSound and PrevHoldsVotes.  Given what the   *)
(* other checks will find, a payload the loop has passed without a failure *)
(* leaves the votes for the holders after its node; report entries say     *)
(* what their check found.                                                 *)
Judged == KeysGenuine /\ NodeIdsOk /\ DecryptionsOk

Walked(i) ==
    LET p == d.shuffles[i]
    IN  /\ NodeOne(p.box) # {} /\ p.box \in DOMAIN d.ctx
        /\ VotesEncrypted(p.box) => HoldsVotes(p.box, p.decrypted, p.node + 1)

FromNode(b, j) == {i \in ShuffleIndices(b) : d.shuffles[i].node >= j}

InLoop ==
    /\ \A i \in DOMAIN d.shuffles :
         d.shuffles[i].box \notin boxes /\ i \notin rest => Walked(i)
    /\ rest # {} =>
         /\ cur \notin boxes /\ NodeOne(cur) # {} /\ cur \in DOMAIN d.ctx
         /\ \E j \in Node :
              /\ rest = FromNode(cur, j)
              /\ VotesEncrypted(cur) => HoldsVotes(cur, prev, j)

ChainInv ==
    /\ pc \in {"8.02", "10.03"} => boxes = ShuffleBoxes /\ rest = {}
    /\ pc = "10.04" /\ fails = {} /\ Judged => InLoop
    /\ Passed("8.02") => NodeIdsOk
    /\ Passed("10.02") => DecryptionsOk
    /\ Passed("11.02") => FinalsOk
    /\ Passed("10.04") /\ Judged => \A i \in DOMAIN d.shuffles : Walked(i)

(* An accepted report keeps the promise; see MixDecPromise.                *)
Promise ==
    INSTANCE MixDecPromise WITH
      correct <- TalliesRight,
      verdict <- IF pc = "crashed" THEN "none"
                 ELSE IF pc # "done" THEN "pending"
                 ELSE IF ReportOk THEN "accepted" ELSE "rejected"

KeepsPromise == Promise!PromiseSpec
=============================================================================
