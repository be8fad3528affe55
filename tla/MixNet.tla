------------------------------- MODULE MixNet -------------------------------
(***************************************************************************)
(* Where the evidence comes from: the control components and the electoral *)
(* board, which are not part of this repository.  Each one takes the       *)
(* ciphertexts the previous one published, shuffles them, decrypts its     *)
(* share and publishes the payload that MixDecChain reads.  A component    *)
(* may do something else than its deed "honest", and the next ones go on   *)
(* from what it published; afterwards the files may be disturbed.          *)
(***************************************************************************)
EXTENDS MixDecChain

(* The sequence f of length n, tabulated.                                  *)
Table(f, n) == SubSeq(f, 1, n)

Other(m) == CHOOSE x \in Msg : x # m

Tabulated(c) == [c EXCEPT !.e = Table(@, EB)]

AllButLast(s) == SubSeq(s, 1, Len(s) - 1)

(* The shuffle of cs that component j publishes: every ciphertext moves    *)
(* one place and is re-encrypted.                                          *)
ShuffleBy(j, deed, cs) ==
    LET n == Len(cs)
        perm == [i \in 1..n |-> IF deed = "copies a vote" THEN 1 ELSE (i % n) + 1]
        key == IF deed = "uses all keys" THEN KeysFrom(1) ELSE KeysFrom(j)
        rho == [i \in 1..n |-> IF deed = "cancels the randomness" THEN -cs[perm[i]].r ELSE i + j]
        ss == Table([i \in 1..n |-> Tabulated(ReEncryption(cs[perm[i]], key, rho[i]))], n)
    IN  [shuffled |-> CASE deed = "replaces a vote" -> [ss EXCEPT ![1].m = Other(@)]
                        [] deed = "omits a vote" -> AllButLast(ss)
                        [] deed = "pads a component" -> [i \in 1..n |-> [ss[i] EXCEPT !.w = @ + 1]]
                        [] OTHER -> ss,
         arg |-> [wf |-> deed # "garbles the argument", perm |-> perm, rho |-> rho]]

(* The decryption of the shuffled ss with the share of component j.        *)
DecryptBy(j, deed, ss) ==
    LET ds == Table([i \in DOMAIN ss |-> Decryption(ss[i], j)], Len(ss))
    IN  CASE deed = "keeps its layer" -> ss
          [] deed = "swaps in a message" -> [ds EXCEPT ![1].m = Other(@)]
          [] deed = "swaps two outputs" /\ Len(ds) > 1 -> [ds EXCEPT ![1].m = ds[2].m, ![2].m = ds[1].m]
          [] deed = "drops an output" -> AllButLast(ds)
          [] deed = "changes gamma" -> [ds EXCEPT ![1].r = @ + 1]
          [] OTHER -> ds

ProofsBy(b, j, deed, n) ==
    [i \in 1..n |-> [box |-> b, node |-> IF deed = "forges a proof" /\ i = n THEN 0 ELSE j]]

Deeds == {"copies a vote", "uses all keys", "replaces a vote", "omits a vote",
          "pads a component", "garbles the argument", "keeps its layer",
          "swaps in a message", "swaps two outputs", "drops an output",
          "changes gamma", "forges a proof", "cancels the randomness"}

(* The votes of ballot box b: message and randomness; the card ids of      *)
(* different ballot boxes differ.                                          *)
BallotBox(b, votes) ==
    [i \in 1..Len(votes) |->
       [vcid |-> 10 * b + i,
        ct |-> [r |-> i, m |-> votes[i], e |-> [h \in Holder |-> i], w |-> 1],
        exp |-> 1, codes |-> 1, proven |-> TRUE]]

(* The payloads of the components 1..N for one ballot box, and after them  *)
(* the board's.  deeds[j] is what component j does.                        *)
Mixed(b, votes, deeds) ==
    LET cast == [i \in 1..Len(votes) |-> BallotBox(b, votes)[i].ct]
        mix[j \in Holder] ==
            LET cs == IF j = 1 THEN Mixable(cast, 1) ELSE mix[j - 1].decrypted
                s == ShuffleBy(j, deeds[j], cs)
                ds == DecryptBy(j, deeds[j], s.shuffled)
            IN  [box |-> b, node |-> j, shuffled |-> s.shuffled, arg |-> s.arg,
                 decrypted |-> ds, proofs |-> ProofsBy(b, j, deeds[j], Len(s.shuffled))]
    IN  mix

Final(p) ==
    [box |-> p.box, lacks |-> "nothing", shuffled |-> p.shuffled, arg |-> p.arg,
     plain |-> [i \in DOMAIN p.decrypted |-> Bare(p.decrypted[i])],
     proofs |-> p.proofs]

(* The dataset of the ballot boxes in DOMAIN votes, ballot box by ballot   *)
(* box and node by node.                                                   *)
Evidence(votes, deeds) ==
    LET bs == DOMAIN votes   \* 1..k
        mix == [b \in bs |-> Mixed(b, votes[b], deeds[b])]
        made == Table([b \in bs |-> Table(mix[b], EB)], Cardinality(bs))
        all == N * Cardinality(bs)
        BoxAt(i) == ((i - 1) \div N) + 1
        NodeAt(i) == ((i - 1) % N) + 1
    IN  [bb |-> [i \in 1..all |-> [box |-> BoxAt(i), node |-> NodeAt(i),
                                   votes |-> BallotBox(BoxAt(i), votes[BoxAt(i)])]],
         shuffles |-> [i \in 1..all |-> made[BoxAt(i)][NodeAt(i)]],
         finals |-> [b \in bs |-> Final(made[b][EB])],
         ctx |-> [b \in bs |-> 1],
         ccm |-> [k \in Node |-> k],
         eb |-> EB,
         pk |-> KeysFrom(1),
         width |-> [k \in 0..EB |-> 1]]

Reversed(s) == [i \in 1..Len(s) |-> s[Len(s) + 1 - i]]
Without(s, k) == SubSeq(s, 1, k - 1) \o SubSeq(s, k + 1, Len(s))

(* What may happen to the files of x, or to the setup keys.  "reversed" is *)
(* no fault: the file order is the file system's.                          *)
Disturbed(x, fault, k) ==
    CASE fault = "reversed" -> [x EXCEPT !.shuffles = Reversed(@), !.bb = Reversed(@)]
      [] fault = "shuffle lost" -> [x EXCEPT !.shuffles = Without(@, k)]
      [] fault = "shuffle twice" -> [x EXCEPT !.shuffles = Append(@, x.shuffles[k])]
      [] fault = "shuffle renumbered" -> [x EXCEPT !.shuffles[k].node = (@ % N) + 1]
      [] fault = "shuffle of node 5" -> [x EXCEPT !.shuffles[k].node = N + 1]
      [] fault = "shuffle of node 0" -> [x EXCEPT !.shuffles[k].node = 0]
      [] fault = "votes of a node lost" -> [x EXCEPT !.bb = Without(@, k)]
      [] fault = "vote recorded twice" -> [x EXCEPT !.bb[1].votes = @ \o @]
      [] fault = "final payload lost" -> [x EXCEPT !.finals = Without(@, 1)]
      [] fault = "final payload twice" -> [x EXCEPT !.finals = @ \o @]
      [] fault = "final payload of no box" -> [x EXCEPT !.finals[1].box = NoBox]
      [] fault \in Lack -> [x EXCEPT !.finals[1].lacks = fault]
      [] fault = "ballot box not in context" ->
           [x EXCEPT !.ctx = [b \in DOMAIN x.ctx \ {1} |-> x.ctx[b]]]
      [] fault = "node key missing" ->
           [x EXCEPT !.ccm = [n \in Node \ {k} |-> x.ccm[n]]]
      [] fault = "node keys exchanged" -> [x EXCEPT !.ccm[k] = 1, !.ccm[1] = k]
      [] fault = "board key is node key" -> [x EXCEPT !.eb = k]
      [] fault = "election key lacks a node" -> [x EXCEPT !.pk[k] = 0]
      [] fault = "node key longer" -> [x EXCEPT !.width[k] = 2]
      [] fault = "board key longer" -> [x EXCEPT !.width[EB] = 2]
      [] fault = "election key longer" -> [x EXCEPT !.width[0] = 2]
      [] fault = "all keys longer" -> [x EXCEPT !.width = [h \in 0..EB |-> 2]]
      [] OTHER -> x

Faults == {"shuffle lost", "shuffle twice", "shuffle renumbered", "shuffle of node 5",
           "shuffle of node 0", "votes of a node lost", "vote recorded twice",
           "final payload lost", "final payload twice", "final payload of no box",
           "ballot box not in context", "node key missing", "node keys exchanged",
           "board key is node key", "election key lacks a node", "node key longer",
           "board key longer", "election key longer", "all keys longer"}
            \cup (Lack \ {"nothing"})
=============================================================================
