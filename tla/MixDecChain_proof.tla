------------------------- MODULE MixDecChain_proof --------------------------
(***************************************************************************)
(* The theorems of MixDecChain, for every number N of control components,  *)
(* every set of ballot boxes and every dataset of the declared shape.      *)
(***************************************************************************)
EXTENDS MixDecChain, Numbers_proof, SequenceTheorems

USE NAssumption, BoxAssumption, MsgAssumption

-----------------------------------------------------------------------------
(* Lemmas about the operators of ElGamal.                                  *)

(* Permutations compose: what the chain of shuffles does to the votes is a *)
(* permutation again.                                                      *)
LEMMA PermutationsCompose ==
    ASSUME NEW n \in Nat, NEW p, NEW q, IsPermutation(p, n), IsPermutation(q, n)
    PROVE  IsPermutation([i \in 1..n |-> q[p[i]]], n)
<1> DEFINE c == [i \in 1..n |-> q[p[i]]]
<1>1. \A i \in 1..n : p[i] \in 1..n /\ q[i] \in 1..n
  BY DEF IsPermutation
<1>2. c \in [1..n -> 1..n]
  BY <1>1
<1>3. ASSUME NEW i \in 1..n, NEW j \in 1..n, c[i] = c[j]
      PROVE  i = j
  BY <1>1, <1>3 DEF IsPermutation
<1>4. ASSUME NEW i \in 1..n
      PROVE  \E j \in 1..n : c[j] = i
  <2>1. PICK k \in 1..n : q[k] = i
    BY DEF IsPermutation
  <2>2. PICK j \in 1..n : p[j] = k
    BY DEF IsPermutation
  <2> QED BY <2>1, <2>2
<1> QED BY <1>2, <1>3, <1>4 DEF IsPermutation

LEMMA IdentityPermutes ==
    ASSUME NEW n \in Nat
    PROVE  IsPermutation([i \in 1..n |-> i], n)
BY DEF IsPermutation

(* With the components' own keys listed, the key that node j's shuffle is  *)
(* verified with has every remaining holder's key exactly once.            *)
LEMMA CombinedKeyIsRemaining ==
    ASSUME NEW ccm, ccm = [k \in Node |-> k], NEW j \in Holder, NEW h \in Holder
    PROVE  CombinedKey(ccm, EB, j)[h] = IF h >= j THEN 1 ELSE 0
<1> DEFINE S == {k \in j..N : ccm[k] = h}
<1>1. CombinedKey(ccm, EB, j)[h] = Cardinality(S) + (IF EB = h THEN 1 ELSE 0)
  BY DEF CombinedKey
<1>2. S = {k \in j..N : k = h}
  BY DEF Node, Holder
<1>3. CASE h \in j..N
  <2>1. S = {h}
    BY <1>2, <1>3
  <2>2. Cardinality(S) = 1
    BY <2>1, FS_Singleton
  <2>3. EB # h /\ h >= j
    BY <1>3 DEF EB
  <2> QED BY <1>1, <2>2, <2>3
<1>4. CASE h \notin j..N
  <2>1. S = {}
    BY <1>2, <1>4
  <2>2. Cardinality(S) = 0
    BY <2>1, FS_EmptySet
  <2>3. CASE h = EB
    <3>1. CombinedKey(ccm, EB, j)[h] = 1
      BY <1>1, <2>2, <2>3
    <3> QED BY <3>1, <2>3 DEF Holder, EB
  <2>4. CASE h # EB
    <3>1. ~(h >= j)
      BY <1>4, <2>4 DEF Holder, EB
    <3> QED BY <1>1, <2>2, <2>4, <3>1
  <2> QED BY <2>3, <2>4
<1> QED BY <1>3, <1>4

(* A shuffle that verifies under the remaining holders' key keeps a list    *)
(* of votes a list of the same votes.                                      *)
LEMMA ShuffleKeepsVotes ==
    ASSUME NEW init, Len(init) \in Nat, NEW cs, NEW ss, NEW arg \in Argument,
           NEW key, NEW width, NEW cols, NEW j \in Holder,
           \A h \in Holder : key[h] = IF h >= j THEN 1 ELSE 0,
           Holds(init, cs, j),
           VerifyShuffle(key, width, cols, cs, ss, arg)
    PROVE  Holds(init, ss, j)
<1> DEFINE n == Len(init)
<1>1. PICK p \in [1..n -> 1..n] :
        /\ IsPermutation(p, n)
        /\ Len(cs) = n
        /\ \A i \in 1..n :
             /\ cs[i].m = init[p[i]].m
             /\ \A h \in Holder : cs[i].e[h] = IF h >= j THEN cs[i].r ELSE 0
  BY DEF Holds
<1> DEFINE q == arg.perm
           c == [i \in 1..n |-> p[q[i]]]
<1>2. /\ Len(ss) = n
      /\ IsPermutation(q, n)
      /\ Len(arg.rho) = n
      /\ \A i \in 1..n : ReEncrypts(ss[i], cs[q[i]], key, arg.rho[i])
  BY <1>1 DEF VerifyShuffle
<1>3. IsPermutation(c, n)
  BY <1>1, <1>2, PermutationsCompose
<1>4. \A i \in 1..n : q[i] \in 1..n
  BY <1>2 DEF IsPermutation
<1>5. \A i \in 1..n : arg.rho[i] \in Int
  BY <1>2 DEF Argument
<1>6. ASSUME NEW i \in 1..n
      PROVE  /\ ss[i].m = init[c[i]].m
             /\ \A h \in Holder : ss[i].e[h] = IF h >= j THEN ss[i].r ELSE 0
  <2>1. ReEncrypts(ss[i], cs[q[i]], key, arg.rho[i])
    BY <1>2
  <2>2. ss[i].m = init[c[i]].m
    BY <1>1, <1>4, <2>1 DEF ReEncrypts
  <2>3. ASSUME NEW h \in Holder
        PROVE  ss[i].e[h] = IF h >= j THEN ss[i].r ELSE 0
    <3>1. ss[i].e[h] = cs[q[i]].e[h] + arg.rho[i] * key[h] /\ ss[i].r = cs[q[i]].r + arg.rho[i]
      BY <2>1 DEF ReEncrypts
    <3>2. cs[q[i]].e[h] = IF h >= j THEN cs[q[i]].r ELSE 0
      BY <1>1, <1>4
    <3>3. CASE h >= j
      <4>1. arg.rho[i] * key[h] = arg.rho[i]
        BY <1>5, <3>3
      <4> QED BY <3>1, <3>2, <3>3, <4>1
    <3>4. CASE ~(h >= j)
      <4>1. arg.rho[i] * key[h] = 0
        BY <1>5, <3>4
      <4> QED BY <3>1, <3>2, <3>4, <4>1
    <3> QED BY <3>3, <3>4
  <2> QED BY <2>2, <2>3
<1>7. c \in [1..n -> 1..n]
  BY <1>3 DEF IsPermutation
<1> QED BY <1>2, <1>3, <1>6, <1>7 DEF Holds

(* A partial decryption that verifies with node j's own key takes exactly  *)
(* node j off the holders of every vote.                                   *)
LEMMA DecryptionTakesOneHolder ==
    ASSUME NEW init, Len(init) \in Nat, NEW ss \in Seq(Ciphertext), NEW ds,
           NEW width, NEW proofs, NEW context, NEW j \in Node,
           Holds(init, ss, j),
           VerifyDecryptions(ss, KeyOf(j), width, ds, proofs, context)
    PROVE  Holds(init, ds, j + 1)
<1> DEFINE n == Len(init)
<1>1. PICK p \in [1..n -> 1..n] :
        /\ IsPermutation(p, n)
        /\ Len(ss) = n
        /\ \A i \in 1..n :
             /\ ss[i].m = init[p[i]].m
             /\ \A h \in Holder : ss[i].e[h] = IF h >= j THEN ss[i].r ELSE 0
  BY DEF Holds
<1>2. /\ Len(ds) = n
      /\ \A i \in 1..n :
           /\ ds[i].r = ss[i].r
           /\ ds[i].m = ss[i].m
           /\ \A h \in Holder : ds[i].e[h] = ss[i].e[h] - ss[i].r * KeyOf(j)[h]
  BY <1>1 DEF VerifyDecryptions, VerifyDecryption
<1>3. ASSUME NEW i \in 1..n
      PROVE  ss[i].r \in Int
  <2>1. ss[i] \in Ciphertext
    BY <1>1
  <2> QED BY <2>1 DEF Ciphertext
<1>4. ASSUME NEW i \in 1..n, NEW h \in Holder
      PROVE  ds[i].e[h] = IF h >= j + 1 THEN ds[i].r ELSE 0
  <2>1. ds[i].e[h] = (IF h >= j THEN ss[i].r ELSE 0) - ss[i].r * (IF h = j THEN 1 ELSE 0)
    BY <1>1, <1>2 DEF KeyOf
  <2>2. CASE h = j
    BY <1>3, <2>1, <2>2 DEF Holder, Node
  <2>3. CASE h # j
    <3>1. ds[i].e[h] = IF h >= j THEN ss[i].r ELSE 0
      BY <1>3, <2>1, <2>3
    <3>2. (h >= j) <=> (h >= j + 1)
      BY <2>3 DEF Holder, Node
    <3> QED BY <1>2, <3>1, <3>2
  <2> QED BY <2>2, <2>3
<1> QED BY <1>1, <1>2, <1>4 DEF Holds

(* The board's last shuffle and decryption leave the bare messages.        *)
LEMMA BoardBaresVotes ==
    ASSUME NEW init, Len(init) \in Nat, NEW ss \in Seq(Ciphertext), NEW plain,
           NEW width, NEW proofs, NEW context,
           Holds(init, ss, EB), Len(plain) = Len(init),
           \A i \in 1..Len(init) :
             VerifyDecryption(ss[i], KeyOf(EB), width, plain[i], proofs[i], context)
    PROVE  Tallies(init, plain)
<1> DEFINE n == Len(init)
<1>1. PICK p \in [1..n -> 1..n] :
        /\ IsPermutation(p, n)
        /\ Len(ss) = n
        /\ \A i \in 1..n :
             /\ ss[i].m = init[p[i]].m
             /\ \A h \in Holder : ss[i].e[h] = IF h >= EB THEN ss[i].r ELSE 0
  BY DEF Holds
<1>2. ASSUME NEW i \in 1..n
      PROVE  ss[i].r \in Int
  <2>1. ss[i] \in Ciphertext
    BY <1>1
  <2> QED BY <2>1 DEF Ciphertext
<1>3. ASSUME NEW i \in 1..n, NEW h \in Holder
      PROVE  plain[i].e[h] = 0
  <2>1. plain[i].e[h] = (IF h >= EB THEN ss[i].r ELSE 0) - ss[i].r * (IF h = EB THEN 1 ELSE 0)
    BY <1>1 DEF VerifyDecryption, KeyOf
  <2>2. (h >= EB) <=> (h = EB)
    BY DEF Holder, EB
  <2> QED BY <1>2, <2>1, <2>2
<1>4. \A i \in 1..n : plain[i].m = init[p[i]].m
  BY <1>1 DEF VerifyDecryption
<1> QED BY <1>1, <1>3, <1>4 DEF Tallies

-----------------------------------------------------------------------------
(* Lemmas about what the checks read from the dataset.                     *)

(* The dictionary of confirmed votes, listed by card id, is a sequence of  *)
(* ciphertexts: every rank is taken, and every id has a last vote.         *)
LEMMA ConfirmedVotesType ==
    ASSUME NEW votes \in Seq(Vote)
    PROVE  /\ ConfirmedVotes(votes) \in Seq(Ciphertext)
           /\ \A i \in 1..Len(ConfirmedVotes(votes)) :
                \E k \in DOMAIN votes : ConfirmedVotes(votes)[i] = votes[k].ct
<1> DEFINE Ids == {votes[i].vcid : i \in DOMAIN votes}
           Last(id) == CHOOSE i \in DOMAIN votes :
                         votes[i].vcid = id /\ \A k \in DOMAIN votes : votes[k].vcid = id => k <= i
           Nth(i) == Ascending(Ids)[i]
<1>1. DOMAIN votes = 1..Len(votes) /\ Len(votes) \in Nat
  OBVIOUS
<1>2. ASSUME NEW i \in DOMAIN votes
      PROVE  votes[i].vcid \in Nat /\ votes[i].ct \in Ciphertext
  <2>1. votes[i] \in Vote
    BY <1>1, ElementOfSeq
  <2> QED BY <2>1 DEF Vote
<1>3. Ids \subseteq Nat
  BY <1>2
<1>4. IsFiniteSet(Ids)
  <2> DEFINE f == [i \in 1..Len(votes) |-> votes[i].vcid]
  <2>1. f \in Surjection(1..Len(votes), Ids)
    BY <1>1 DEF Surjection
  <2>2. IsFiniteSet(1..Len(votes))
    BY <1>1, FS_Interval
  <2> HIDE DEF f, Ids
  <2> QED BY <2>1, <2>2, FS_Surjection
<1>5. Cardinality(Ids) \in Nat
  BY <1>4, FS_CardinalityType
<1>6. ASSUME NEW i \in 1..Cardinality(Ids)
      PROVE  Nth(i) \in Ids
  <2> HIDE DEF Ids
  <2>1. Ascending(Ids) \in [1..Cardinality(Ids) -> Ids]
    BY <1>3, <1>4, AscendingLists, Fun_BijectionProperties
  <2> QED BY <2>1
<1>7. ASSUME NEW id \in Ids
      PROVE  Last(id) \in DOMAIN votes
  <2> DEFINE S == {i \in DOMAIN votes : votes[i].vcid = id}
  <2>1. S # {} /\ S \subseteq 1..Len(votes)
    BY <1>1
  <2>2. PICK m \in S : \A k \in S : k <= m
    <3> HIDE DEF S
    <3> QED BY <1>1, <2>1, GreatestIndex
  <2>3. m \in DOMAIN votes /\ votes[m].vcid = id
         /\ \A k \in DOMAIN votes : votes[k].vcid = id => k <= m
    BY <2>2
  <2> QED BY <2>3
<1>8. \A i \in 1..Cardinality(Ids) : votes[Last(Nth(i))].ct \in Ciphertext
  <2> HIDE DEF Ids, Nth, Last
  <2> QED BY <1>2, <1>6, <1>7
<1>9. ConfirmedVotes(votes) = [i \in 1..Cardinality(Ids) |-> votes[Last(Nth(i))].ct]
  BY DEF ConfirmedVotes
<1>10. \A i \in 1..Cardinality(Ids) : Last(Nth(i)) \in DOMAIN votes
  <2> HIDE DEF Ids, Nth, Last
  <2> QED BY <1>6, <1>7
<1> HIDE DEF Ids, Nth, Last
<1>11. ConfirmedVotes(votes) \in Seq(Ciphertext)
  BY <1>5, <1>8, <1>9
<1>12. Len(ConfirmedVotes(votes)) = Cardinality(Ids)
  BY <1>5, <1>9, <1>11
<1> QED BY <1>9, <1>10, <1>11, <1>12

(* The keys' lengths are numbers.                                          *)
LEMMA WidthTypes ==
    ASSUME IsDataset(d)
    PROVE  /\ 0 \in 0..EB /\ EB \in 0..EB /\ Node \subseteq 0..EB
           /\ \A k \in 0..EB : d.width[k] \in Nat
BY DEF IsDataset, EB, Node

(* get_mixnet_initial_ciphertexts returns two ciphertexts at least.        *)
LEMMA InitialType ==
    ASSUME IsDataset(d), NEW b, NodeOne(b) # {}, b \in DOMAIN d.ctx
    PROVE  InitialCiphertexts(b) \in Seq(Ciphertext) /\ Len(InitialCiphertexts(b)) >= 2
<1> DEFINE f == First(NodeOne(b))
           votes == ConfirmedVotes(d.bb[f].votes)
           t == Trivial(d.ctx[b])
<1>1. NodeOne(b) \subseteq DOMAIN d.bb
  BY DEF NodeOne, BallotBoxIndices
<1>2. DOMAIN d.bb \subseteq Nat
  BY DEF IsDataset
<1>3. f \in DOMAIN d.bb
  <2>1. \E m \in NodeOne(b) : \A k \in NodeOne(b) : m <= k
    BY <1>1, <1>2, LeastNatural
  <2> QED BY <1>1, <2>1 DEF First
<1>4. d.bb[f] \in BallotBoxPayload
  BY <1>3 DEF IsDataset
<1>5. votes \in Seq(Ciphertext)
  BY <1>4, ConfirmedVotesType DEF BallotBoxPayload
<1>6. t \in Ciphertext
  BY WidthTypes DEF IsDataset, Trivial, Smaller, Ciphertext
<1>7. InitialCiphertexts(b) = IF Len(votes) < 2 THEN votes \o <<t, t>> ELSE votes
  BY DEF InitialCiphertexts
<1> HIDE DEF votes, t, f
<1>8. Len(votes) \in Nat
  BY <1>5
<1>9. votes \o <<t, t>> \in Seq(Ciphertext) /\ Len(votes \o <<t, t>>) = Len(votes) + 2
  <2>1. <<t, t>> \in Seq(Ciphertext) /\ Len(<<t, t>>) = 2
    BY <1>6
  <2> QED BY <1>5, <2>1, ConcatProperties
<1> QED BY <1>5, <1>7, <1>8, <1>9

LEMMA PayloadType ==
    ASSUME IsDataset(d), NEW i \in DOMAIN d.shuffles
    PROVE  i \in Nat /\ d.shuffles[i] \in ShufflePayload
BY DEF IsDataset

(* sorted(...) has a next element as long as payloads are left.            *)
LEMMA LeastOfRest ==
    ASSUME IsDataset(d), NEW S, S \subseteq DOMAIN d.shuffles, S # {}
    PROVE  /\ LeastOf(S) \in S
           /\ \A k \in S \ {LeastOf(S)} : Before(LeastOf(S), k)
<1>1. ASSUME NEW i \in DOMAIN d.shuffles
      PROVE  i \in Nat /\ d.shuffles[i].node \in Nat
  BY PayloadType DEF ShufflePayload
<1> DEFINE Nodes == {d.shuffles[i].node : i \in S}
<1>2. Nodes \subseteq Nat /\ Nodes # {}
  BY <1>1
<1>3. PICK n \in Nodes : \A k \in Nodes : n <= k
  <2> HIDE DEF Nodes
  <2> QED BY <1>2, LeastNatural
<1> DEFINE T == {i \in S : d.shuffles[i].node = n}
<1>4. T \subseteq Nat /\ T # {}
  BY <1>1
<1>5. PICK m \in T : \A k \in T : m <= k
  <2> HIDE DEF T
  <2> QED BY <1>4, LeastNatural
<1>6. ASSUME NEW k \in S \ {m}
      PROVE  Before(m, k)
  <2>1. d.shuffles[m].node = n /\ n <= d.shuffles[k].node
    BY <1>3
  <2>2. d.shuffles[k].node = n => m < k
    BY <1>1, <1>5
  <2> QED BY <1>1, <2>1, <2>2 DEF Before
<1>7. m \in S
  OBVIOUS
<1> QED BY <1>6, <1>7 DEF LeastOf

(* min() of the ballot boxes that are left.                                *)
LEMMA LeastBox ==
    ASSUME NEW S, S \subseteq Box, S # {}
    PROVE  (CHOOSE x \in S : \A y \in S : x <= y) \in S
<1>1. \E x \in S : \A y \in S : x <= y
  BY LeastNatural
<1> QED BY <1>1

ReportEntries == [id : CheckIds, ok : BOOLEAN]

LEMMA RecordType ==
    ASSUME report \in Seq(ReportEntries), NEW id \in CheckIds, NEW ok \in BOOLEAN, NEW next,
           Record(id, ok, next)
    PROVE  report' \in Seq(ReportEntries)
BY DEF Record, Entry, ReportEntries

LEMMA FailureType ==
    ASSUME NEW b \in Box, NEW n \in Nat, NEW reason \in Reasons
    PROVE  {<<b, n, reason>>} \subseteq Box \X Nat \X Reasons
<1>1. <<b, n, reason>> \in Box \X Nat \X Reasons
  OBVIOUS
<1> QED BY <1>1

-----------------------------------------------------------------------------
(* Type correctness.                                                       *)

LEMMA KnownIds ==
    /\ "8.02" \in CheckIds /\ "10.03" \in CheckIds /\ "10.04" \in CheckIds
    /\ "10.02" \in CheckIds /\ "11.02" \in CheckIds
BY DEF CheckIds

LEMMA VerdictsAreBooleans ==
    /\ NodeIdsOk \in BOOLEAN /\ ChainOk \in BOOLEAN /\ (fails = {}) \in BOOLEAN
    /\ DecryptionsOk \in BOOLEAN /\ FinalsOk \in BOOLEAN
BY DEF NodeIdsOk, ChainOk, DecryptionsOk, FinalsOk

(* The part of it that is about the loop of 10.04; these lemmas do not say *)
(* which other checks the run has, so that verify_tally may use them.      *)
LoopTyped ==
    /\ IsDataset(d)
    /\ boxes \subseteq ShuffleBoxes
    /\ cur \in ShuffleBoxes \cup {NoBox}
    /\ rest \subseteq ShuffleIndices(cur)
    /\ prev \in Seq(Ciphertext)
    /\ fails \subseteq Box \X Nat \X Reasons

LEMMA UnchangedStaysTyped ==
    ASSUME LoopTyped, d' = d, UNCHANGED loop
    PROVE  LoopTyped'
<1>1. IsDataset(d)' /\ ShuffleBoxes' = ShuffleBoxes /\ \A b : ShuffleIndices(b)' = ShuffleIndices(b)
  BY DEF LoopTyped, IsDataset, ShuffleBoxes, ShuffleIndices
<1> QED BY <1>1 DEF loop, LoopTyped

LEMMA StartBoxStaysTyped ==
    ASSUME LoopTyped, StartBox
    PROVE  LoopTyped'
<1> DEFINE b == CHOOSE x \in boxes : \A y \in boxes : x <= y
<1>1. /\ rest = {} /\ boxes' = boxes \ {b} /\ cur' = b
      /\ fails' = fails \cup BoxProblems(b)
      /\ IF BoxProblems(b) = {}
         THEN rest' = ShuffleIndices(b) /\ prev' = InitialCiphertexts(b)
         ELSE UNCHANGED <<rest, prev>>
      /\ d' = d
  BY DEF StartBox
<1>2. IsDataset(d)' /\ ShuffleBoxes' = ShuffleBoxes /\ \A x : ShuffleIndices(x)' = ShuffleIndices(x)
  BY <1>1 DEF LoopTyped, IsDataset, ShuffleBoxes, ShuffleIndices
<1>3. ShuffleBoxes \subseteq Box
  BY PayloadType DEF ShuffleBoxes, ShufflePayload, LoopTyped
<1>4. b \in ShuffleBoxes /\ b \in Box
  <2>1. boxes \subseteq Box /\ boxes # {}
    BY <1>3 DEF StartBox, LoopTyped
  <2>2. b \in boxes
    BY <2>1, LeastBox
  <2> QED BY <1>3, <2>2 DEF LoopTyped
<1> HIDE DEF b
<1>5. fails' \subseteq Box \X Nat \X Reasons
  <2>1. BoxProblems(b) \subseteq Box \X Nat \X Reasons
    BY <1>4, FailureType DEF BoxProblems, Reasons
  <2> QED BY <1>1, <2>1 DEF LoopTyped
<1>6. prev' \in Seq(Ciphertext)
  <2>1. CASE BoxProblems(b) = {}
    <3>1. NodeOne(b) # {} /\ b \in DOMAIN d.ctx
      BY <2>1 DEF BoxProblems
    <3> QED BY <1>1, <2>1, <3>1, InitialType DEF LoopTyped
  <2>2. CASE BoxProblems(b) # {}
    BY <1>1, <2>2 DEF LoopTyped
  <2> QED BY <2>1, <2>2
<1>7. rest' \subseteq ShuffleIndices(b)
  BY <1>1 DEF LoopTyped
<1> QED BY <1>1, <1>2, <1>4, <1>5, <1>6, <1>7 DEF LoopTyped

LEMMA VerifyPayloadStaysTyped ==
    ASSUME LoopTyped, VerifyPayload
    PROVE  LoopTyped'
<1> DEFINE i == LeastOf(rest)
<1>1. /\ fails' = fails \cup PayloadProblems(i, prev)
      /\ prev' = d.shuffles[i].decrypted
      /\ rest' = rest \ {i}
      /\ UNCHANGED <<d, boxes, cur>>
  BY DEF VerifyPayload
<1>2. IsDataset(d)' /\ ShuffleBoxes' = ShuffleBoxes /\ \A b : ShuffleIndices(b)' = ShuffleIndices(b)
  BY <1>1 DEF LoopTyped, IsDataset, ShuffleBoxes, ShuffleIndices
<1>3. i \in DOMAIN d.shuffles
  BY LeastOfRest DEF VerifyPayload, ShuffleIndices, LoopTyped
<1> HIDE DEF i
<1>4. d.shuffles[i] \in ShufflePayload
  BY <1>3, PayloadType DEF LoopTyped
<1>5. PayloadProblems(i, prev) \subseteq Box \X Nat \X Reasons
  BY <1>4, FailureType DEF PayloadProblems, ShufflePayload, Reasons
<1>6. prev' \in Seq(Ciphertext)
  BY <1>1, <1>4 DEF ShufflePayload
<1> QED BY <1>1, <1>2, <1>5, <1>6 DEF LoopTyped

(* Every step of MixDecChain keeps the state's shape.                      *)
LEMMA StepTypeOK ==
    ASSUME TypeOK, [Next]_vars
    PROVE  TypeOK'
<1>1. LoopTyped
  BY DEF TypeOK, LoopTyped
<1>2. ASSUME UNCHANGED <<d, loop>>,
             NEW id \in CheckIds, NEW ok \in BOOLEAN,
             NEW next \in CheckIds \cup {"done"},
             Record(id, ok, next)
      PROVE  TypeOK'
  <2>1. report' \in Seq([id : CheckIds, ok : BOOLEAN])
    BY <1>2, RecordType DEF ReportEntries, TypeOK
  <2>2. pc' = next
    BY <1>2 DEF Record
  <2>3. LoopTyped'
    BY <1>1, <1>2, UnchangedStaysTyped
  <2> QED BY <1>2, <2>1, <2>2, <2>3 DEF LoopTyped, TypeOK
<1>3. ASSUME LoopTyped', pc' \in {pc, "crashed"}, UNCHANGED report
      PROVE  TypeOK'
  BY <1>3 DEF LoopTyped, TypeOK
<1>5. CASE CheckNodeIds("10.03")
  BY <1>2, <1>5, VerdictsAreBooleans, KnownIds, Zenon DEF CheckNodeIds
<1>6. CASE CheckChain("10.04")
  <2>1. CASE Record("10.03", ChainOk, "10.04") /\ UNCHANGED <<d, loop>>
    BY <1>2, <2>1, VerdictsAreBooleans, KnownIds, Zenon
  <2>2. CASE Crash("10.03") /\ UNCHANGED <<d, loop>>
    BY <1>1, <1>3, <2>2, UnchangedStaysTyped DEF Crash
  <2> QED BY <1>6, <2>1, <2>2 DEF CheckChain
<1>7. CASE StartBox
  BY <1>1, <1>3, <1>7, StartBoxStaysTyped DEF StartBox
<1>8. CASE VerifyPayload
  BY <1>1, <1>3, <1>8, VerifyPayloadStaysTyped DEF VerifyPayload
<1>9. CASE CheckShuffles("10.02")
  BY <1>2, <1>9, VerdictsAreBooleans, KnownIds, Zenon DEF CheckShuffles
<1>10. CASE CheckDecryptions("11.02")
  BY <1>2, <1>10, VerdictsAreBooleans, KnownIds, Zenon DEF CheckDecryptions
<1>11. CASE CheckFinals("done")
  <2>1. CASE Record("11.02", FinalsOk, "done") /\ UNCHANGED <<d, loop>>
    BY <1>2, <2>1, VerdictsAreBooleans, KnownIds, Zenon
  <2>2. CASE Crash("11.02") /\ UNCHANGED <<d, loop>>
    BY <1>1, <1>3, <2>2, UnchangedStaysTyped DEF Crash
  <2> QED BY <1>11, <2>1, <2>2 DEF CheckFinals
<1>12. CASE UNCHANGED vars
  BY <1>1, <1>3, <1>12, UnchangedStaysTyped DEF vars, loop
<1>13. CASE CombineRaises
  BY <1>1, <1>3, <1>13, UnchangedStaysTyped DEF CombineRaises, Crash
<1> QED BY <1>5, <1>6, <1>7, <1>8, <1>9, <1>10, <1>11, <1>12, <1>13 DEF Next

LEMMA InitTypeOK == Init => TypeOK
<1> SUFFICES ASSUME Init PROVE TypeOK
  OBVIOUS
<1>1. IsDataset(d)
  BY DatasetsAssumption DEF Init, ChainInit
<1>2. rest \subseteq ShuffleIndices(cur) /\ fails \subseteq Box \X Nat \X Reasons
  BY DEF Init, ChainInit
<1>3. report \in Seq([id : CheckIds, ok : BOOLEAN]) /\ prev \in Seq(Ciphertext)
  BY DEF Init, ChainInit, ReportInit
<1> QED BY <1>1, <1>2, <1>3, KnownIds DEF Init, ChainInit, ReportInit, TypeOK

(* Types: the verifier never leaves the shape of its state, whatever the   *)
(* dataset (TypeOK).                                                       *)
THEOREM TypeCorrect == Spec => []TypeOK
<1>1. Init => TypeOK
  BY InitTypeOK
<1>2. TypeOK /\ [Next]_vars => TypeOK'
  BY StepTypeOK
<1> QED BY <1>1, <1>2, PTL DEF Spec

-----------------------------------------------------------------------------
(* Soundness of the verdict.                                               *)

(* The dataset does not change, and neither does what is read from it.     *)
LEMMA SameDataset ==
    ASSUME d' = d
    PROVE  /\ ShuffleBoxes' = ShuffleBoxes
           /\ \A b : ShuffleIndices(b)' = ShuffleIndices(b)
           /\ \A b : NodeOne(b)' = NodeOne(b)
           /\ \A b : InitialCiphertexts(b)' = InitialCiphertexts(b)
           /\ NodeIdsOk' <=> NodeIdsOk
           /\ DecryptionsOk' <=> DecryptionsOk
           /\ KeysGenuine' <=> KeysGenuine
           /\ FinalsOk' <=> FinalsOk
<1>1. ShuffleBoxes' = ShuffleBoxes /\ \A b : ShuffleIndices(b)' = ShuffleIndices(b)
  BY DEF ShuffleBoxes, ShuffleIndices
<1>2. \A b : NodeOne(b)' = NodeOne(b)
  BY DEF NodeOne, BallotBoxIndices
<1>3. \A b : InitialCiphertexts(b)' = InitialCiphertexts(b)
  BY DEF InitialCiphertexts, Trivial, NodeOne, BallotBoxIndices
<1>4. NodeIdsOk' <=> NodeIdsOk
  BY DEF NodeIdsOk, ShuffleBoxes
<1>5. DecryptionsOk' <=> DecryptionsOk
  BY DEF DecryptionsOk, DecryptionOk
<1>6. KeysGenuine' <=> KeysGenuine
  BY DEF KeysGenuine
<1>7. FinalsOk' <=> FinalsOk
  BY DEF FinalsOk, FinalOk, FinalIndices, FinalBoxes, FinalPayloadOf, NodeLast, ShuffleIndices
<1> QED BY <1>1, <1>2, <1>3, <1>4, <1>5, <1>6, <1>7

LEMMA SameJudgement ==
    ASSUME d' = d
    PROVE  /\ Judged' <=> Judged
           /\ \A b : VotesEncrypted(b)' <=> VotesEncrypted(b)
           /\ \A b, cs, j : HoldsVotes(b, cs, j)' <=> HoldsVotes(b, cs, j)
           /\ \A i : Walked(i)' <=> Walked(i)
           /\ \A b, j : FromNode(b, j)' = FromNode(b, j)
<1>1. Judged' <=> Judged
  BY SameDataset DEF Judged
<1>2. \A b : VotesEncrypted(b)' <=> VotesEncrypted(b)
  BY SameDataset DEF VotesEncrypted
<1>3. \A b, cs, j : HoldsVotes(b, cs, j)' <=> HoldsVotes(b, cs, j)
  BY SameDataset DEF HoldsVotes
<1>4. \A i : Walked(i)' <=> Walked(i)
  BY SameDataset, <1>2, <1>3 DEF Walked
<1>5. \A b, j : FromNode(b, j)' = FromNode(b, j)
  BY SameDataset DEF FromNode
<1> QED BY <1>1, <1>2, <1>3, <1>4, <1>5

(* A report entry is what its check added.                                 *)
LEMMA PassedAfter ==
    ASSUME TypeOK, NEW id \in CheckIds, NEW ok \in BOOLEAN, NEW next, Record(id, ok, next),
           NEW x, Passed(x)'
    PROVE  Passed(x) \/ (x = id /\ ok)
<1>1. report' = Append(report, Entry(id, ok)) /\ report \in Seq(ReportEntries)
  BY DEF Record, TypeOK, ReportEntries
<1>2. Entry(id, ok) \in ReportEntries
  BY DEF Entry, ReportEntries
<1>3. PICK k \in DOMAIN report' : report'[k].id = x /\ report'[k].ok
  BY DEF Passed
<1>4. /\ DOMAIN report' = 1..(Len(report) + 1) /\ DOMAIN report = 1..Len(report)
      /\ Len(report) \in Nat
      /\ \A i \in 1..Len(report) : report'[i] = report[i]
      /\ report'[Len(report) + 1] = Entry(id, ok)
  BY <1>1, <1>2, AppendProperties
<1>5. CASE k \in 1..Len(report)
  BY <1>3, <1>4, <1>5 DEF Passed
<1>6. CASE k = Len(report) + 1
  BY <1>3, <1>4, <1>6 DEF Entry
<1> QED BY <1>3, <1>4, <1>5, <1>6

(* Before any shuffle, the initial ciphertexts hold the votes for all.     *)
LEMMA InitialHolds ==
    ASSUME IsDataset(d), NEW b, NodeOne(b) # {}, b \in DOMAIN d.ctx, VotesEncrypted(b)
    PROVE  HoldsVotes(b, InitialCiphertexts(b), 1)
<1> DEFINE init == InitialCiphertexts(b)
           n == Len(init)
           p == [i \in 1..n |-> i]
<1>1. n \in Nat
  BY InitialType
<1>2. IsPermutation(p, n) /\ p \in [1..n -> 1..n]
  BY <1>1, IdentityPermutes
<1>3. \A i \in 1..n : \A h \in Holder : init[i].e[h] = IF h >= 1 THEN init[i].r ELSE 0
  BY DEF VotesEncrypted, Holder
<1> HIDE DEF init
<1>4. Holds(init, init, 1)
  BY <1>1, <1>2, <1>3 DEF Holds
<1> QED BY <1>4 DEF HoldsVotes, init

(* With each node once, the payloads of a ballot box are one of each node. *)
LEMMA OneOfEachNode ==
    ASSUME NodeIdsOk, NEW b \in ShuffleBoxes
    PROVE  /\ \A i \in ShuffleIndices(b) : d.shuffles[i].node \in Node
           /\ \A j \in Node : \E i \in ShuffleIndices(b) : d.shuffles[i].node = j
           /\ \A i, k \in ShuffleIndices(b) :
                d.shuffles[i].node = d.shuffles[k].node => i = k
BY DEF NodeIdsOk, EachNodeOnce, ShuffleIndices

(* One pass of the loop body: a payload of node j whose shuffle verifies   *)
(* on a list of votes for the holders from j on, and whose decryption      *)
(* verifies, leaves a list of votes for the holders after j.               *)
LEMMA PayloadKeepsVotes ==
    ASSUME IsDataset(d), Judged, NEW i \in DOMAIN d.shuffles, NEW j \in Node,
           d.shuffles[i].node = j, NEW b, d.shuffles[i].box = b,
           NodeOne(b) # {}, b \in DOMAIN d.ctx,
           NEW cs, PayloadProblems(i, cs) = {}, HoldsVotes(b, cs, j)
    PROVE  HoldsVotes(b, d.shuffles[i].decrypted, j + 1)
<1> DEFINE p == d.shuffles[i]
           init == InitialCiphertexts(b)
<1>1. p \in ShufflePayload
  BY PayloadType
<1>2. Len(init) \in Nat
  BY InitialType
<1>3. j \in Holder
  BY DEF Node, Holder
<1>4. ShuffleOk(i, cs)
  BY DEF PayloadProblems
<1>5. \A h \in Holder : ShuffleKey(j)[h] = IF h >= j THEN 1 ELSE 0
  <2>1. CASE j = 1
    BY <2>1 DEF ShuffleKey, Judged, KeysGenuine, Holder
  <2>2. CASE j # 1
    BY <1>3, <2>2, CombinedKeyIsRemaining DEF ShuffleKey, Judged, KeysGenuine
  <2> QED BY <2>1, <2>2
<1>6. Holds(init, cs, j)
  BY DEF HoldsVotes
<1>7. VerifyShuffle(ShuffleKey(j), KeyWidth(j), MatrixColumnCount(Len(init)), cs, p.shuffled, p.arg)
  BY <1>4 DEF ShuffleOk
<1>8. p.arg \in Argument /\ p.shuffled \in Seq(Ciphertext)
  BY <1>1 DEF ShufflePayload
<1>9. Holds(init, p.shuffled, j)
  <2> HIDE DEF p, init
  <2> QED BY <1>2, <1>3, <1>5, <1>6, <1>7, <1>8, ShuffleKeepsVotes
<1>10. VerifyDecryptions(p.shuffled, KeyOf(j), d.width[j], p.decrypted, p.proofs,
                         [box |-> b, node |-> j])
  BY DEF Judged, DecryptionsOk, DecryptionOk, KeysGenuine
<1>11. Holds(init, p.decrypted, j + 1)
  <2> HIDE DEF p, init
  <2> QED BY <1>2, <1>8, <1>9, <1>10, DecryptionTakesOneHolder
<1> QED BY <1>11 DEF HoldsVotes

(* The loop of 10.04 starts a ballot box.                                  *)
LEMMA StartBoxKeepsLoop ==
    ASSUME LoopTyped, fails = {} => InLoop, StartBox, fails' = {}, Judged
    PROVE  InLoop'
<1> DEFINE b == CHOOSE x \in boxes : \A y \in boxes : x <= y
<1>1. /\ pc = "10.04" /\ rest = {} /\ boxes' = boxes \ {b} /\ cur' = b /\ d' = d
      /\ fails' = fails \cup BoxProblems(b)
      /\ IF BoxProblems(b) = {}
         THEN rest' = ShuffleIndices(b) /\ prev' = InitialCiphertexts(b)
         ELSE UNCHANGED <<rest, prev>>
  BY DEF StartBox
<1>2. b \in ShuffleBoxes
  <2>1. boxes \subseteq ShuffleBoxes /\ boxes # {}
    BY DEF StartBox, LoopTyped
  <2>2. ShuffleBoxes \subseteq Box
    BY PayloadType DEF ShuffleBoxes, ShufflePayload, LoopTyped
  <2>3. b \in boxes
    BY <2>1, <2>2, LeastBox
  <2> QED BY <2>1, <2>3
<1> HIDE DEF b
<1>3. fails = {} /\ BoxProblems(b) = {}
  BY <1>1
<1>4. rest' = ShuffleIndices(b) /\ prev' = InitialCiphertexts(b)
  BY <1>1, <1>3
<1>5. NodeOne(b) # {} /\ b \in DOMAIN d.ctx
  BY <1>3 DEF BoxProblems
<1>6. InLoop
  BY <1>1, <1>3
<1>7. ASSUME NEW i \in DOMAIN d.shuffles, d.shuffles[i].box \notin boxes', i \notin rest'
      PROVE  Walked(i)
  <2>1. d.shuffles[i].box # b
    BY <1>4, <1>7 DEF ShuffleIndices
  <2> QED BY <1>1, <1>6, <1>7, <2>1 DEF InLoop
<1>8. rest' = FromNode(b, 1) /\ 1 \in Node
  <2>1. \A i \in ShuffleIndices(b) : d.shuffles[i].node >= 1
    BY <1>2, OneOfEachNode DEF Judged, Node
  <2> QED BY <1>4, <2>1 DEF FromNode, Node
<1>9. VotesEncrypted(b) => HoldsVotes(b, prev', 1)
  BY <1>4, <1>5, InitialHolds DEF LoopTyped
<1>10. b \notin boxes'
  BY <1>1
<1>11. /\ \A i \in DOMAIN d'.shuffles :
             d'.shuffles[i].box \notin boxes' /\ i \notin rest' => Walked(i)'
       /\ cur' \notin boxes' /\ NodeOne(cur)' # {} /\ cur' \in DOMAIN d'.ctx
       /\ rest' = FromNode(cur, 1)'
       /\ VotesEncrypted(cur)' => HoldsVotes(cur, prev, 1)'
  <2>1. \A i \in DOMAIN d.shuffles : Walked(i)' <=> Walked(i)
    BY <1>1, SameJudgement
  <2>2. NodeOne(cur)' = NodeOne(b) /\ FromNode(cur, 1)' = FromNode(b, 1)
    BY <1>1 DEF NodeOne, BallotBoxIndices, FromNode, ShuffleIndices
  <2>3. VotesEncrypted(cur)' <=> VotesEncrypted(b)
    BY <1>1 DEF VotesEncrypted, InitialCiphertexts, Trivial, NodeOne, BallotBoxIndices
  <2>4. HoldsVotes(cur, prev, 1)' <=> HoldsVotes(b, prev', 1)
    BY <1>1 DEF HoldsVotes, InitialCiphertexts, Trivial, NodeOne, BallotBoxIndices
  <2> QED BY <1>1, <1>5, <1>7, <1>8, <1>9, <1>10, <2>1, <2>2, <2>3, <2>4
<1> QED BY <1>8, <1>11 DEF InLoop

(* The next payload of the walk is the one of the node the walk is at.     *)
LEMMA NextNode ==
    ASSUME LoopTyped, Judged, rest # {}, NEW j \in Node, rest = FromNode(cur, j)
    PROVE  LeastOf(rest) \in rest /\ d.shuffles[LeastOf(rest)].node = j
<1> DEFINE i == LeastOf(rest)
<1>1. /\ rest \subseteq DOMAIN d.shuffles /\ rest \subseteq ShuffleIndices(cur)
      /\ cur \in ShuffleBoxes
  BY DEF LoopTyped, ShuffleIndices, ShuffleBoxes
<1>2. i \in rest /\ \A k \in rest \ {i} : Before(i, k)
  BY <1>1, LeastOfRest DEF LoopTyped
<1> HIDE DEF i
<1>3. /\ \A k \in ShuffleIndices(cur) : d.shuffles[k].node \in Node
      /\ \E k \in ShuffleIndices(cur) : d.shuffles[k].node = j
  BY <1>1, OneOfEachNode DEF Judged
<1>4. PICK k \in ShuffleIndices(cur) : d.shuffles[k].node = j
  BY <1>3
<1>5. k \in rest
  BY <1>4 DEF FromNode, Node
<1>6. d.shuffles[i].node >= j /\ d.shuffles[i].node \in Nat
  BY <1>1, <1>2, <1>3 DEF FromNode, Node
<1>7. CASE k = i
  BY <1>2, <1>4, <1>7 DEF i
<1>8. CASE k # i
  BY <1>2, <1>4, <1>5, <1>6, <1>8 DEF Before, Node, i
<1> QED BY <1>7, <1>8

(* The loop of 10.04 verifies a payload.                                   *)
LEMMA VerifyPayloadKeepsLoop ==
    ASSUME LoopTyped, fails = {} => InLoop, VerifyPayload, fails' = {}, Judged
    PROVE  InLoop'
<1> DEFINE i == LeastOf(rest)
<1>1. /\ pc = "10.04" /\ rest # {} /\ d' = d /\ cur' = cur /\ boxes' = boxes
      /\ fails' = fails \cup PayloadProblems(i, prev)
      /\ prev' = d.shuffles[i].decrypted
      /\ rest' = rest \ {i}
  BY DEF VerifyPayload
<1>2. InLoop /\ fails = {}
  BY <1>1
<1>3. PICK j \in Node :
        /\ rest = FromNode(cur, j)
        /\ VotesEncrypted(cur) => HoldsVotes(cur, prev, j)
  BY <1>1, <1>2 DEF InLoop
<1>4. cur \notin boxes /\ NodeOne(cur) # {} /\ cur \in DOMAIN d.ctx
  BY <1>1, <1>2 DEF InLoop
<1>5. /\ rest \subseteq DOMAIN d.shuffles
      /\ \A k \in rest : d.shuffles[k].box = cur
      /\ cur \in ShuffleBoxes
  BY <1>1 DEF LoopTyped, ShuffleIndices, ShuffleBoxes
<1>6. i \in rest
  BY <1>1, <1>3, NextNode
<1> HIDE DEF i
<1>7. i \in DOMAIN d.shuffles /\ d.shuffles[i].box = cur /\ i \in ShuffleIndices(cur)
  BY <1>5, <1>6 DEF ShuffleIndices
<1>8. /\ \A k \in ShuffleIndices(cur) : d.shuffles[k].node \in Node
      /\ \A m \in Node : \E k \in ShuffleIndices(cur) : d.shuffles[k].node = m
      /\ \A k, l \in ShuffleIndices(cur) : d.shuffles[k].node = d.shuffles[l].node => k = l
  BY <1>5, OneOfEachNode DEF Judged
<1>9. d.shuffles[i].node = j
  BY <1>1, <1>3, NextNode DEF i
<1>10. rest' = FromNode(cur, j + 1)
  <2>1. ASSUME NEW k \in ShuffleIndices(cur)
        PROVE  d.shuffles[k].node >= j + 1 <=> d.shuffles[k].node >= j /\ k # i
    BY <1>7, <1>8, <1>9, <2>1 DEF Node
  <2> QED BY <1>1, <1>3, <2>1 DEF FromNode
<1>11. VotesEncrypted(cur) => HoldsVotes(cur, prev', j + 1)
  BY <1>1, <1>2, <1>3, <1>4, <1>7, <1>9, PayloadKeepsVotes DEF LoopTyped
<1>12. Walked(i)
  BY <1>1, <1>4, <1>7, <1>9, <1>11 DEF Walked
<1>13. \A k \in DOMAIN d.shuffles : d.shuffles[k].box \notin boxes /\ k \notin rest' => Walked(k)
  BY <1>1, <1>2, <1>12 DEF InLoop
<1>14. rest' # {} => j + 1 \in Node
  BY <1>8, <1>10 DEF FromNode, Node
<1>15. /\ \A k \in DOMAIN d.shuffles : Walked(k)' <=> Walked(k)
       /\ NodeOne(cur)' = NodeOne(cur) /\ FromNode(cur, j + 1)' = FromNode(cur, j + 1)
       /\ VotesEncrypted(cur)' <=> VotesEncrypted(cur)
       /\ HoldsVotes(cur, prev, j + 1)' <=> HoldsVotes(cur, prev', j + 1)
  <2>1. \A k \in DOMAIN d.shuffles : Walked(k)' <=> Walked(k)
    BY <1>1, SameJudgement
  <2>2. NodeOne(cur)' = NodeOne(cur) /\ FromNode(cur, j + 1)' = FromNode(cur, j + 1)
    BY <1>1 DEF NodeOne, BallotBoxIndices, FromNode, ShuffleIndices
  <2>3. VotesEncrypted(cur)' <=> VotesEncrypted(cur)
    BY <1>1 DEF VotesEncrypted, InitialCiphertexts, Trivial, NodeOne, BallotBoxIndices
  <2>4. HoldsVotes(cur, prev, j + 1)' <=> HoldsVotes(cur, prev', j + 1)
    BY <1>1 DEF HoldsVotes, InitialCiphertexts, Trivial, NodeOne, BallotBoxIndices
  <2> QED BY <2>1, <2>2, <2>3, <2>4
<1>16. \A k \in DOMAIN d'.shuffles : d'.shuffles[k].box \notin boxes' /\ k \notin rest' => Walked(k)'
  BY <1>1, <1>13, <1>15
<1>17. /\ cur' \notin boxes' /\ NodeOne(cur)' # {} /\ cur' \in DOMAIN d'.ctx
       /\ rest' = FromNode(cur, j + 1)'
       /\ VotesEncrypted(cur)' => HoldsVotes(cur, prev, j + 1)'
  BY <1>1, <1>4, <1>10, <1>11, <1>15
<1>18. Node' = Node
  BY DEF Node
<1> QED BY <1>14, <1>16, <1>17, <1>18 DEF InLoop

(* A check other than 10.04 leaves the invariant alone when what it        *)
(* records is what the invariant says of its id.                           *)
LEMMA RecordKeepsInv ==
    ASSUME TypeOK, ChainInv, d' = d, UNCHANGED loop,
           NEW id \in CheckIds, NEW ok \in BOOLEAN, NEW next,
           Record(id, ok, next), next \notin {"8.02"},
           next = "10.03" => pc = "8.02",
           next = "10.04" => boxes = ShuffleBoxes /\ rest = {},
           id = "8.02" /\ ok => NodeIdsOk,
           id = "10.02" /\ ok => DecryptionsOk,
           id = "11.02" /\ ok => FinalsOk,
           id = "10.04" /\ ok /\ Judged => \A i \in DOMAIN d.shuffles : Walked(i)
    PROVE  ChainInv'
<1>1. pc = id /\ pc' = next
  BY DEF Record
<1>2. \A x : Passed(x)' => Passed(x) \/ (x = id /\ ok)
  BY PassedAfter
<1>3. (pc \in {"8.02", "10.03"} => boxes = ShuffleBoxes /\ rest = {})'
  BY <1>1, SameDataset DEF ChainInv, loop
<1>4. (pc = "10.04" /\ fails = {} /\ Judged => InLoop)'
  <2>1. ASSUME next = "10.04"
        PROVE  InLoop'
    <3>1. boxes' = ShuffleBoxes /\ rest' = {}
      BY <2>1 DEF loop
    <3>2. \A i \in DOMAIN d.shuffles : d.shuffles[i].box \in ShuffleBoxes
      BY DEF ShuffleBoxes
    <3> QED BY <3>1, <3>2 DEF InLoop
  <2> QED BY <1>1, <2>1
<1>5. (Passed("8.02") => NodeIdsOk)'
  BY <1>2, SameDataset DEF ChainInv
<1>6. (Passed("10.02") => DecryptionsOk)'
  BY <1>2, SameDataset DEF ChainInv
<1>7. (Passed("11.02") => FinalsOk)'
  BY <1>2, SameDataset DEF ChainInv
<1>8. (Passed("10.04") /\ Judged => \A i \in DOMAIN d.shuffles : Walked(i))'
  <2>1. Judged' <=> Judged
    BY SameJudgement
  <2>2. \A i : Walked(i)' <=> Walked(i)
    BY SameJudgement
  <2> QED BY <1>2, <2>1, <2>2 DEF ChainInv
<1> QED BY <1>3, <1>4, <1>5, <1>6, <1>7, <1>8 DEF ChainInv

(* Every step of MixDecChain keeps the invariant.                          *)
LEMMA StepChainInv ==
    ASSUME TypeOK, ChainInv, [Next]_vars
    PROVE  ChainInv'
<1>1. d' = d
  BY DEF Next, vars, loop, CheckNodeIds, CheckChain, StartBox, VerifyPayload, CombineRaises,
         CheckShuffles, CheckDecryptions, CheckFinals
<1>2. /\ \A i : Walked(i)' <=> Walked(i)
      /\ Judged' <=> Judged
      /\ NodeIdsOk' <=> NodeIdsOk
      /\ DecryptionsOk' <=> DecryptionsOk
      /\ FinalsOk' <=> FinalsOk
      /\ ShuffleBoxes' = ShuffleBoxes
  BY <1>1, SameDataset, SameJudgement
<1>3. ASSUME UNCHANGED report
      PROVE  \A x : Passed(x)' <=> Passed(x)
  BY <1>3 DEF Passed
<1>4. CASE CheckNodeIds("10.03")
  <2>1. PICK ok \in BOOLEAN : ok = NodeIdsOk /\ Record("8.02", ok, "10.03")
    BY <1>4, VerdictsAreBooleans, Zenon DEF CheckNodeIds
  <2>2. pc = "8.02" /\ UNCHANGED loop
    BY <1>4 DEF CheckNodeIds, Record
  <2> QED BY <1>1, <2>1, <2>2, RecordKeepsInv, KnownIds
<1>5. CASE CheckChain("10.04")
  <2>1. CASE Record("10.03", ChainOk, "10.04")
    <3>1. boxes = ShuffleBoxes /\ rest = {}
      BY <2>1 DEF ChainInv, Record
    <3>2. PICK ok \in BOOLEAN : Record("10.03", ok, "10.04")
      BY <2>1, VerdictsAreBooleans, Zenon
    <3>3. UNCHANGED loop
      BY <1>5 DEF CheckChain
    <3> QED BY <1>1, <3>1, <3>2, <3>3, RecordKeepsInv, KnownIds
  <2>2. CASE Crash("10.03") /\ UNCHANGED <<d, loop>>
    BY <1>1, <1>2, <1>3, <2>2 DEF Crash, ChainInv
  <2> QED BY <1>5, <2>1, <2>2 DEF CheckChain
<1>6. CASE StartBox
  <2>1. pc = "10.04" /\ UNCHANGED <<pc, report>>
    BY <1>6 DEF StartBox
  <2>2. fails' = {} /\ Judged => InLoop'
    BY <1>6, <2>1, StartBoxKeepsLoop DEF ChainInv, TypeOK, LoopTyped
  <2> QED BY <1>1, <1>2, <1>3, <2>1, <2>2 DEF ChainInv
<1>7. CASE VerifyPayload
  <2>1. pc = "10.04" /\ UNCHANGED <<pc, report>>
    BY <1>7 DEF VerifyPayload
  <2>2. fails' = {} /\ Judged => InLoop'
    BY <1>7, <2>1, VerifyPayloadKeepsLoop DEF ChainInv, TypeOK, LoopTyped
  <2> QED BY <1>1, <1>2, <1>3, <2>1, <2>2 DEF ChainInv
<1>8. CASE CheckShuffles("10.02")
  <2>1. pc = "10.04" /\ rest = {} /\ boxes = {} /\ UNCHANGED loop
    BY <1>8 DEF CheckShuffles, Record
  <2>2. fails = {} /\ Judged => \A i \in DOMAIN d.shuffles : Walked(i)
    BY <2>1 DEF ChainInv, InLoop
  <2>3. PICK ok \in BOOLEAN : ok = (fails = {}) /\ Record("10.04", ok, "10.02")
    BY <1>8, VerdictsAreBooleans DEF CheckShuffles
  <2>4. ok /\ Judged => \A i \in DOMAIN d.shuffles : Walked(i)
    BY <2>2, <2>3
  <2>5. Record("10.04", ok, "10.02")
    BY <2>3
  <2> QED BY <1>1, <2>1, <2>4, <2>5, RecordKeepsInv, KnownIds
<1>9. CASE CheckDecryptions("11.02")
  <2>1. PICK ok \in BOOLEAN : ok = DecryptionsOk /\ Record("10.02", ok, "11.02")
    BY <1>9, VerdictsAreBooleans, Zenon DEF CheckDecryptions
  <2>2. UNCHANGED loop
    BY <1>9 DEF CheckDecryptions
  <2> QED BY <1>1, <2>1, <2>2, RecordKeepsInv, KnownIds
<1>10. CASE CheckFinals("done")
  <2>1. CASE Record("11.02", FinalsOk, "done")
    <3>1. PICK ok \in BOOLEAN : ok = FinalsOk /\ Record("11.02", ok, "done")
      BY <2>1, VerdictsAreBooleans, Zenon
    <3>2. UNCHANGED loop
      BY <1>10 DEF CheckFinals
    <3> QED BY <1>1, <3>1, <3>2, RecordKeepsInv, KnownIds
  <2>2. CASE Crash("11.02")
    BY <1>1, <1>2, <1>3, <2>2 DEF Crash, ChainInv
  <2> QED BY <1>10, <2>1, <2>2 DEF CheckFinals
<1>11. CASE UNCHANGED vars
  <2>1. UNCHANGED <<pc, report, boxes, cur, rest, prev, fails>>
    BY <1>11 DEF vars
  <2>2. InLoop' <=> InLoop
    <3>1. UNCHANGED <<d, boxes, cur, rest, prev>>
      BY <1>1, <2>1
    <3> QED BY <3>1, SameJudgement DEF InLoop, Walked, HoldsVotes, VotesEncrypted, FromNode,
                ShuffleIndices, InitialCiphertexts, Trivial, NodeOne, BallotBoxIndices
  <2> QED BY <1>1, <1>2, <1>3, <2>1, <2>2 DEF ChainInv
<1>12. CASE CombineRaises
  BY <1>1, <1>2, <1>3, <1>12 DEF CombineRaises, Crash, ChainInv
<1> QED BY <1>4, <1>5, <1>6, <1>7, <1>8, <1>9, <1>10, <1>11, <1>12 DEF Next

LEMMA InitChainInv == Init => ChainInv
<1> SUFFICES ASSUME Init PROVE ChainInv
  OBVIOUS
<1>1. pc = "8.02" /\ report = <<>> /\ boxes = ShuffleBoxes /\ rest = {}
  BY DEF Init, ChainInit, ReportInit
<1>2. \A x : ~Passed(x)
  BY <1>1 DEF Passed
<1> QED BY <1>1, <1>2 DEF ChainInv

(* The invariant of the walk through the chain.  PrevHoldsVotes and        *)
(* VerdictSound follow from it; neither is inductive, because a report     *)
(* entry keeps only one bit of what its check saw.                         *)
THEOREM ChainInvariant == Spec => []ChainInv
<1>1. Init => ChainInv
  BY InitChainInv
<1>2. TypeOK /\ ChainInv /\ [Next]_vars => ChainInv'
  BY StepChainInv
<1> QED BY <1>1, <1>2, TypeCorrect, PTL DEF Spec

(* The payload of the last node, and the last final payload, of a ballot   *)
(* box the final payloads name.                                            *)
LEMMA FinalEvidence ==
    ASSUME IsDataset(d), NEW b \in FinalBoxes, FinalOk(b)
    PROVE  /\ First(NodeLast(b)) \in DOMAIN d.shuffles
           /\ d.shuffles[First(NodeLast(b))].box = b
           /\ d.shuffles[First(NodeLast(b))].node = N
           /\ FinalPayloadOf(b) \in FinalPayload
<1> DEFINE i == First(NodeLast(b))
<1>1. DOMAIN d.shuffles \subseteq Nat /\ NodeLast(b) \subseteq DOMAIN d.shuffles
  BY DEF IsDataset, NodeLast, ShuffleIndices
<1>2. NodeLast(b) # {}
  BY DEF FinalOk
<1>3. i \in NodeLast(b)
  <2>1. \E m \in NodeLast(b) : \A k \in NodeLast(b) : m <= k
    BY <1>1, <1>2, LeastNatural
  <2> QED BY <2>1 DEF First
<1>4. FinalPayloadOf(b) \in FinalPayload
  <2>1. DOMAIN d.finals = 1..Len(d.finals) /\ Len(d.finals) \in Nat
        /\ \A k \in DOMAIN d.finals : d.finals[k] \in FinalPayload
    BY DEF IsDataset
  <2>2. FinalIndices(b) \subseteq 1..Len(d.finals) /\ FinalIndices(b) # {}
    BY <2>1 DEF FinalIndices, FinalBoxes
  <2>3. \E m \in FinalIndices(b) : \A k \in FinalIndices(b) : k <= m
    BY <2>1, <2>2, GreatestIndex
  <2> QED BY <2>1, <2>2, <2>3 DEF FinalPayloadOf
<1> QED BY <1>1, <1>3, <1>4 DEF NodeLast, ShuffleIndices

(* 11.02 bares what node N left.                                           *)
LEMMA FinalTallies ==
    ASSUME IsDataset(d), NEW b \in FinalBoxes, FinalOk(b), KeysGenuine,
           NodeOne(b) # {}, b \in DOMAIN d.ctx,
           HoldsVotes(b, d.shuffles[First(NodeLast(b))].decrypted, N + 1)
    PROVE  TalliesVotes(b)
<1> DEFINE f == FinalPayloadOf(b)
           prior == d.shuffles[First(NodeLast(b))].decrypted
           init == InitialCiphertexts(b)
           width == Smaller(d.ctx[b], d.width[EB])
           context == [box |-> b, node |-> EB]
<1>1. f.arg \in Argument /\ f.shuffled \in Seq(Ciphertext)
  BY FinalEvidence DEF FinalPayload
<1>2. /\ VerifyShuffle(KeyOf(EB), width, MatrixColumnCount(Len(prior)), prior, f.shuffled, f.arg)
      /\ Len(f.plain) = Len(prior)
      /\ \A i \in 1..Len(prior) :
           VerifyDecryption(f.shuffled[i], KeyOf(EB), width, f.plain[i], f.proofs[i], context)
  BY DEF FinalOk, KeysGenuine
<1>3. Len(init) \in Nat
  BY InitialType
<1>4. Holds(init, prior, EB)
  BY DEF HoldsVotes, EB
<1>5. EB \in Holder /\ \A h \in Holder : KeyOf(EB)[h] = IF h >= EB THEN 1 ELSE 0
  BY NAssumption DEF EB, Holder, KeyOf
<1> HIDE DEF f, prior, init, width, context
<1>6. Holds(init, f.shuffled, EB)
  BY <1>1, <1>2, <1>3, <1>4, <1>5, ShuffleKeepsVotes
<1>7. Len(prior) = Len(init)
  BY <1>4 DEF Holds
<1>8. Tallies(init, f.plain)
  <2>1. \A i \in 1..Len(init) :
          VerifyDecryption(f.shuffled[i], KeyOf(EB), width, f.plain[i], f.proofs[i], context)
    BY <1>2, <1>7
  <2> QED BY <1>1, <1>2, <1>3, <1>6, <1>7, <2>1, BoardBaresVotes
<1> QED BY <1>8 DEF TalliesVotes, f, init

LEMMA VerdictFromInv == TypeOK /\ ChainInv => VerdictSound
<1> SUFFICES ASSUME TypeOK, ChainInv,
                    Passed("8.02"), Passed("10.04"), Passed("10.02"), Passed("11.02"),
                    KeysGenuine, NEW b \in FinalBoxes
             PROVE  /\ NodeOne(b) # {} /\ b \in DOMAIN d.ctx
                    /\ VotesEncrypted(b) => TalliesVotes(b)
  BY DEF VerdictSound, TalliesRight
<1> DEFINE i == First(NodeLast(b))
<1>1. Judged /\ FinalsOk
  BY DEF ChainInv, Judged
<1>2. FinalOk(b)
  BY <1>1 DEF FinalsOk
<1>3. i \in DOMAIN d.shuffles /\ d.shuffles[i].box = b /\ d.shuffles[i].node = N
  BY <1>2, FinalEvidence DEF TypeOK
<1>4. Walked(i)
  BY <1>1, <1>3 DEF ChainInv
<1> QED BY <1>2, <1>3, <1>4, FinalTallies DEF Walked, TypeOK

(* Soundness, for every number of components, every message space and      *)
(* every dataset: when 8.02, 10.04, 10.02 and 11.02 are reported ok, every *)
(* final payload decrypts to a permutation of the votes confirmed at       *)
(* node 1 (VerdictSound).                                                  *)
THEOREM Soundness == Spec => []VerdictSound
BY TypeCorrect, ChainInvariant, VerdictFromInv, PTL

LEMMA PrevFromInv == TypeOK /\ ChainInv => PrevHoldsVotes
<1> SUFFICES ASSUME TypeOK, ChainInv, pc = "10.04", rest # {}, fails = {}, Judged,
                    VotesEncrypted(cur)
             PROVE  HoldsVotes(cur, prev, d.shuffles[LeastOf(rest)].node)
  BY DEF PrevHoldsVotes, Judged
<1>1. PICK j \in Node : rest = FromNode(cur, j) /\ HoldsVotes(cur, prev, j)
  BY DEF ChainInv, InLoop
<1> QED BY <1>1, NextNode DEF TypeOK, LoopTyped

(* previous_ciphertexts is in step with the keys: at every payload of the  *)
(* loop it holds the votes for the components from that payload's node on  *)
(* (PrevHoldsVotes).                                                       *)
THEOREM ChainInStep == Spec => []PrevHoldsVotes
BY TypeCorrect, ChainInvariant, PrevFromInv, PTL

-----------------------------------------------------------------------------
(* The loop.                                                               *)

(* The stable sort by node id is a total order of the payloads.            *)
LEMMA BeforeOrder ==
    ASSUME IsDataset(d), NEW i \in DOMAIN d.shuffles, NEW k \in DOMAIN d.shuffles,
           NEW l \in DOMAIN d.shuffles
    PROVE  /\ ~(Before(i, k) /\ Before(k, i))
           /\ i # k => Before(i, k) \/ Before(k, i)
           /\ Before(i, k) /\ Before(k, l) => Before(i, l)
<1>1. \A m \in DOMAIN d.shuffles : m \in Nat /\ d.shuffles[m].node \in Nat
  BY PayloadType DEF ShufflePayload
<1> QED BY <1>1 DEF Before

(* The payloads judged so far, and what judging them gives.                *)
Judgeable == {i \in DOMAIN d.shuffles : BoxProblems(d.shuffles[i].box) = {}}
JudgedSoFar == {i \in Judgeable : d.shuffles[i].box \notin boxes /\ i \notin rest}

Verdicts(started, judged) ==
    (UNION {BoxProblems(b) : b \in started})
      \cup (UNION {PayloadProblems(i, Predecessor(i)) : i \in judged})

(* The payloads still to come are the last ones of their ballot box, and   *)
(* previous_ciphertexts is what the one before the next has decrypted.     *)
InStep ==
    /\ cur \notin boxes /\ BoxProblems(cur) = {}
    /\ \A i \in rest : \A k \in ShuffleIndices(cur) : Before(i, k) => k \in rest
    /\ prev = Predecessor(LeastOf(rest))

LoopSoFar ==
    /\ fails = Verdicts(ShuffleBoxes \ boxes, JudgedSoFar)
    /\ rest # {} => InStep

LoopInv ==
    /\ pc \in {"8.02", "10.03"} => boxes = ShuffleBoxes /\ rest = {} /\ fails = {}
    /\ pc \in {"8.02", "10.03", "10.04"} => ~Ran("10.04")
    /\ pc = "10.04" => LoopSoFar
    /\ Ran("10.04") => fails = Verdicts(ShuffleBoxes, Judgeable)

(* Nothing that is judged, or judged by, changes.                          *)
LEMMA SameVerdicts ==
    ASSUME d' = d
    PROVE  /\ ShuffleBoxes' = ShuffleBoxes
           /\ \A b : ShuffleIndices(b)' = ShuffleIndices(b)
           /\ \A b : InitialCiphertexts(b)' = InitialCiphertexts(b)
           /\ \A b : BoxProblems(b)' = BoxProblems(b)
           /\ \A i, k : Before(i, k)' <=> Before(i, k)
           /\ \A i : Predecessor(i)' = Predecessor(i)
           /\ Judgeable' = Judgeable
           /\ \A started, judged : Verdicts(started, judged)' = Verdicts(started, judged)
<1>1. /\ ShuffleBoxes' = ShuffleBoxes
      /\ \A b : ShuffleIndices(b)' = ShuffleIndices(b)
      /\ \A b : InitialCiphertexts(b)' = InitialCiphertexts(b)
      /\ \A b : NodeOne(b)' = NodeOne(b)
  BY SameDataset
<1>2. \A b : BoxProblems(b)' = BoxProblems(b)
  BY <1>1 DEF BoxProblems
<1>3. \A i, k : Before(i, k)' <=> Before(i, k)
  BY DEF Before
<1>4. \A i : Previous(i)' = Previous(i)
  BY DEF Previous, Before, ShuffleIndices
<1>5. \A i : Predecessor(i)' = Predecessor(i)
  BY DEF Predecessor, Previous, Before, ShuffleIndices, InitialCiphertexts, Trivial, NodeOne,
         BallotBoxIndices
<1>6. Judgeable' = Judgeable
  BY <1>2 DEF Judgeable
<1>7. \A i, cs : PayloadProblems(i, cs)' = PayloadProblems(i, cs)
  BY DEF PayloadProblems, MissingKeys, ShuffleOk, ShuffleKey, KeyWidth, InitialCiphertexts, Trivial,
         NodeOne, BallotBoxIndices
<1>8. \A started, judged : Verdicts(started, judged)' = Verdicts(started, judged)
  BY <1>2, <1>5, <1>7 DEF Verdicts
<1> QED BY <1>1, <1>2, <1>3, <1>5, <1>6, <1>8

LEMMA SameLoop ==
    ASSUME d' = d, UNCHANGED loop
    PROVE  LoopSoFar' <=> LoopSoFar
<1>1. UNCHANGED <<d, boxes, cur, rest, prev, fails>>
  BY DEF loop
<1>2. JudgedSoFar' = JudgedSoFar
  BY <1>1, SameVerdicts DEF JudgedSoFar
<1>3. LeastOf(rest)' = LeastOf(rest)
  BY <1>1 DEF LeastOf, Before
<1>4. InStep' <=> InStep
  <2>1. Predecessor(LeastOf(rest))' = Predecessor(LeastOf(rest))
    BY <1>1, <1>3, SameVerdicts
  <2> QED BY <1>1, <2>1, SameVerdicts DEF InStep
<1>5. Verdicts(ShuffleBoxes \ boxes, JudgedSoFar)' = Verdicts(ShuffleBoxes \ boxes, JudgedSoFar)
  BY <1>1, <1>2, SameVerdicts
<1> QED BY <1>1, <1>4, <1>5 DEF LoopSoFar

(* Before the loop nothing is judged.                                      *)
LEMMA NothingJudged ==
    ASSUME boxes = ShuffleBoxes, rest = {}, fails = {}
    PROVE  LoopSoFar
<1>1. JudgedSoFar = {}
  BY DEF JudgedSoFar, Judgeable, ShuffleBoxes
<1>2. ShuffleBoxes \ boxes = {}
  OBVIOUS
<1>3. Verdicts({}, {}) = {}
  BY DEF Verdicts
<1> QED BY <1>1, <1>2, <1>3 DEF LoopSoFar

LEMMA StartBoxStep ==
    ASSUME LoopTyped, LoopSoFar, StartBox
    PROVE  LoopSoFar'
<1> DEFINE b == CHOOSE x \in boxes : \A y \in boxes : x <= y
<1>1. /\ pc = "10.04" /\ rest = {} /\ boxes # {}
      /\ boxes' = boxes \ {b} /\ cur' = b
      /\ fails' = fails \cup BoxProblems(b)
      /\ IF BoxProblems(b) = {}
         THEN rest' = ShuffleIndices(b) /\ prev' = InitialCiphertexts(b)
         ELSE UNCHANGED <<rest, prev>>
      /\ d' = d
  BY DEF StartBox
<1>2. b \in boxes
  <2>1. ShuffleBoxes \subseteq Box
    BY PayloadType DEF ShuffleBoxes, ShufflePayload, LoopTyped
  <2>2. boxes \subseteq Box
    BY <2>1 DEF LoopTyped
  <2> QED BY <1>1, <2>2, LeastBox
<1>3. b \in ShuffleBoxes
  BY <1>2 DEF LoopTyped
<1> HIDE DEF b
<1>4. fails = Verdicts(ShuffleBoxes \ boxes, JudgedSoFar)
  BY <1>1 DEF LoopSoFar
<1>5. JudgedSoFar' = JudgedSoFar
  <2>1. JudgedSoFar' = {i \in Judgeable : d.shuffles[i].box \notin boxes' /\ i \notin rest'}
    BY <1>1, SameVerdicts DEF JudgedSoFar
  <2>2. ASSUME NEW i \in Judgeable
        PROVE  (d.shuffles[i].box \notin boxes' /\ i \notin rest')
                 <=> (d.shuffles[i].box \notin boxes /\ i \notin rest)
    <3>1. CASE d.shuffles[i].box = b
      <4>1. BoxProblems(b) = {} /\ i \in ShuffleIndices(b)
        BY <3>1 DEF Judgeable, ShuffleIndices
      <4> QED BY <1>1, <1>2, <3>1, <4>1
    <3>2. CASE d.shuffles[i].box # b
      <4>1. i \notin ShuffleIndices(b)
        BY <3>2 DEF ShuffleIndices
      <4> QED BY <1>1, <3>2, <4>1
    <3> QED BY <3>1, <3>2
  <2> QED BY <2>1, <2>2 DEF JudgedSoFar
<1>6. ShuffleBoxes \ boxes' = (ShuffleBoxes \ boxes) \cup {b}
  BY <1>1, <1>2, <1>3
<1>7. fails' = Verdicts(ShuffleBoxes \ boxes', JudgedSoFar')
  BY <1>1, <1>4, <1>5, <1>6 DEF Verdicts
<1>8. ASSUME rest' # {}
      PROVE  InStep'
  <2>1. BoxProblems(b) = {} /\ rest' = ShuffleIndices(b) /\ prev' = InitialCiphertexts(b)
    BY <1>1, <1>8
  <2>2. ShuffleIndices(b) \subseteq DOMAIN d.shuffles /\ ShuffleIndices(b) # {}
    BY <1>8, <2>1 DEF ShuffleIndices
  <2> DEFINE i == LeastOf(ShuffleIndices(b))
  <2>3. i \in ShuffleIndices(b) /\ \A k \in ShuffleIndices(b) \ {i} : Before(i, k)
    BY <2>2, LeastOfRest DEF LoopTyped
  <2> HIDE DEF i
  <2>4. d.shuffles[i].box = b /\ i \in DOMAIN d.shuffles
    BY <2>3 DEF ShuffleIndices
  <2>5. Previous(i) = {}
    <3> SUFFICES ASSUME NEW k \in ShuffleIndices(b), Before(k, i) PROVE FALSE
      BY <2>4 DEF Previous
    <3>1. k \in DOMAIN d.shuffles
      BY <2>2
    <3> QED BY <2>3, <2>4, <3>1, BeforeOrder DEF LoopTyped
  <2>6. Predecessor(i) = InitialCiphertexts(b)
    BY <2>4, <2>5 DEF Predecessor
  <2>7. LeastOf(rest)' = i
    BY <1>1, <2>1 DEF i, LeastOf, Before
  <2>8. prev' = Predecessor(LeastOf(rest))'
    <3>1. Predecessor(LeastOf(rest))' = Predecessor(i)
      BY <1>1, <2>7, SameVerdicts
    <3> QED BY <2>1, <2>6, <3>1
  <2>9. cur' \notin boxes' /\ BoxProblems(cur)' = {}
    BY <1>1, <2>1, SameVerdicts
  <2>10. (\A l \in rest : \A k \in ShuffleIndices(cur) : Before(l, k) => k \in rest)'
    BY <1>1, <2>1, SameVerdicts
  <2> QED BY <2>8, <2>9, <2>10 DEF InStep
<1>9. (fails = Verdicts(ShuffleBoxes \ boxes, JudgedSoFar))'
  BY <1>1, <1>7, SameVerdicts
<1> QED BY <1>8, <1>9 DEF LoopSoFar

LEMMA VerifyPayloadStep ==
    ASSUME LoopTyped, LoopSoFar, VerifyPayload
    PROVE  LoopSoFar'
<1> DEFINE i == LeastOf(rest)
<1>1. /\ pc = "10.04" /\ rest # {}
      /\ fails' = fails \cup PayloadProblems(i, prev)
      /\ prev' = d.shuffles[i].decrypted
      /\ rest' = rest \ {i}
      /\ d' = d /\ boxes' = boxes /\ cur' = cur
  BY DEF VerifyPayload
<1>2. rest \subseteq ShuffleIndices(cur) /\ ShuffleIndices(cur) \subseteq DOMAIN d.shuffles
  BY DEF LoopTyped, ShuffleIndices
<1>3. i \in rest /\ \A k \in rest \ {i} : Before(i, k)
  BY <1>1, <1>2, LeastOfRest DEF LoopTyped
<1>4. i \in DOMAIN d.shuffles /\ d.shuffles[i].box = cur
  BY <1>2, <1>3 DEF ShuffleIndices
<1>5. InStep /\ fails = Verdicts(ShuffleBoxes \ boxes, JudgedSoFar)
  BY <1>1 DEF LoopSoFar
<1>6. prev = Predecessor(i)
  BY <1>5 DEF InStep
<1> HIDE DEF i
<1>7. JudgedSoFar' = JudgedSoFar \cup {i}
  <2>1. JudgedSoFar' = {k \in Judgeable : d.shuffles[k].box \notin boxes /\ k \notin rest'}
    BY <1>1, SameVerdicts DEF JudgedSoFar
  <2>2. i \in Judgeable /\ d.shuffles[i].box \notin boxes
    BY <1>4, <1>5 DEF Judgeable, InStep
  <2> QED BY <1>1, <2>1, <2>2 DEF JudgedSoFar
<1>8. fails' = Verdicts(ShuffleBoxes \ boxes', JudgedSoFar')
  BY <1>1, <1>5, <1>6, <1>7 DEF Verdicts
<1>9. ASSUME rest' # {}
      PROVE  InStep'
  <2> DEFINE k == LeastOf(rest \ {i})
  <2>1. k \in rest \ {i} /\ \A l \in (rest \ {i}) \ {k} : Before(k, l)
    BY <1>1, <1>2, <1>9, LeastOfRest DEF LoopTyped
  <2>2. LeastOf(rest)' = k
    BY <1>1 DEF LeastOf, Before
  <2> HIDE DEF k
  <2>3. k \in DOMAIN d.shuffles /\ d.shuffles[k].box = cur /\ Before(i, k)
    BY <1>2, <1>3, <2>1 DEF ShuffleIndices
  <2>4. i \in Previous(k)
    BY <1>2, <1>3, <2>3 DEF Previous
  <2>5. ASSUME NEW l \in Previous(k), l # i
        PROVE  Before(l, i)
    <3>1. l \in ShuffleIndices(cur) /\ Before(l, k) /\ l \in DOMAIN d.shuffles
      BY <1>2, <2>3, <2>5 DEF Previous
    <3>2. SUFFICES ASSUME Before(i, l) PROVE FALSE
      BY <1>4, <2>5, <3>1, BeforeOrder DEF LoopTyped
    <3>3. l \in rest
      BY <1>3, <1>5, <3>1, <3>2 DEF InStep
    <3>4. l # k
      BY <2>3, <3>1, BeforeOrder DEF LoopTyped
    <3>5. Before(k, l)
      BY <2>1, <2>5, <3>3, <3>4
    <3> QED BY <2>3, <3>1, <3>5, BeforeOrder DEF LoopTyped
  <2>6. \A m \in Previous(k) : (\A l \in Previous(k) \ {m} : Before(l, m)) => m = i
    <3> SUFFICES ASSUME NEW m \in Previous(k), \A l \in Previous(k) \ {m} : Before(l, m), m # i
                 PROVE  FALSE
      OBVIOUS
    <3>1. Before(i, m) /\ Before(m, i)
      BY <2>4, <2>5
    <3>2. m \in DOMAIN d.shuffles
      BY <1>2, <2>3 DEF Previous
    <3> QED BY <1>4, <3>1, <3>2, BeforeOrder DEF LoopTyped
  <2>7. \A l \in Previous(k) \ {i} : Before(l, i)
    BY <2>5
  <2>8. (CHOOSE m \in Previous(k) : \A l \in Previous(k) \ {m} : Before(l, m)) = i
    BY <2>4, <2>6, <2>7
  <2>9. Predecessor(k) = d.shuffles[i].decrypted
    BY <2>4, <2>8 DEF Predecessor
  <2>10. prev' = Predecessor(LeastOf(rest))'
    <3>1. Predecessor(LeastOf(rest))' = Predecessor(k)
      BY <1>1, <2>2, SameVerdicts
    <3> QED BY <1>1, <2>9, <3>1
  <2>11. cur' \notin boxes' /\ BoxProblems(cur)' = {}
    <3>1. cur \notin boxes /\ BoxProblems(cur) = {}
      BY <1>5 DEF InStep
    <3> QED BY <1>1, <3>1, SameVerdicts
  <2>12. (\A l \in rest : \A m \in ShuffleIndices(cur) : Before(l, m) => m \in rest)'
    <3>1. ASSUME NEW l \in rest \ {i}, NEW m \in ShuffleIndices(cur), Before(l, m)
          PROVE  m \in rest \ {i}
      <4>1. m \in rest
        BY <1>5, <3>1 DEF InStep
      <4>2. Before(i, l) /\ l \in DOMAIN d.shuffles
        BY <1>2, <1>3
      <4>3. m # i
        BY <1>4, <3>1, <4>2, BeforeOrder DEF LoopTyped
      <4> QED BY <4>1, <4>3
    <3> QED BY <1>1, <3>1, SameVerdicts
  <2> QED BY <2>10, <2>11, <2>12 DEF InStep
<1>10. (fails = Verdicts(ShuffleBoxes \ boxes, JudgedSoFar))'
  BY <1>1, <1>8, SameVerdicts
<1> QED BY <1>9, <1>10 DEF LoopSoFar

(* Entries of other checks do not count as that of 10.04.                  *)
LEMMA RanAfter ==
    ASSUME TypeOK, NEW id \in CheckIds, NEW ok \in BOOLEAN, NEW next, Record(id, ok, next)
    PROVE  /\ \A x : Ran(x)' <=> Ran(x) \/ x = id
           /\ ReportOk' <=> ReportOk /\ ok
<1>1. report' = Append(report, Entry(id, ok)) /\ report \in Seq(ReportEntries)
  BY DEF Record, TypeOK, ReportEntries
<1>2. Entry(id, ok) \in ReportEntries
  BY DEF Entry, ReportEntries
<1> DEFINE n == Len(report)
<1>3. /\ DOMAIN report' = 1..(n + 1) /\ DOMAIN report = 1..n /\ n \in Nat
      /\ \A i \in 1..n : report'[i] = report[i]
      /\ report'[n + 1].id = id /\ report'[n + 1].ok = ok
  BY <1>1, <1>2, AppendProperties DEF Entry
<1>4. \A k : k \in 1..(n + 1) <=> k \in 1..n \/ k = n + 1
  BY <1>3
<1> HIDE DEF n
<1>5. \A x : Ran(x)' <=> Ran(x) \/ x = id
  BY <1>3, <1>4 DEF Ran
<1>6. ReportOk' <=> ReportOk /\ ok
  BY <1>3, <1>4 DEF ReportOk, Failing
<1> QED BY <1>5, <1>6

LEMMA RecordKeepsLoop ==
    ASSUME TypeOK, LoopInv, UNCHANGED <<d, loop>>,
           NEW id \in CheckIds \ {"10.04"}, NEW ok \in BOOLEAN, NEW next,
           Record(id, ok, next),
           id \in {"8.02", "10.03"} \/ next \notin {"8.02", "10.03", "10.04"}
    PROVE  LoopInv'
<1>1. pc = id /\ pc' = next
  BY DEF Record
<1>2. Ran("10.04")' <=> Ran("10.04")
  BY RanAfter
<1>3. Ran("10.04") => (fails = Verdicts(ShuffleBoxes, Judgeable))'
  BY SameVerdicts DEF LoopInv, loop
<1>4. CASE id \in {"8.02", "10.03"}
  <2>1. boxes = ShuffleBoxes /\ rest = {} /\ fails = {} /\ ~Ran("10.04")
    BY <1>1, <1>4 DEF LoopInv
  <2>2. LoopSoFar'
    BY <2>1, NothingJudged, SameLoop
  <2>3. boxes' = ShuffleBoxes' /\ rest' = {} /\ fails' = {}
    BY <2>1, SameVerdicts DEF loop
  <2> QED BY <1>2, <1>3, <2>1, <2>2, <2>3 DEF LoopInv
<1>5. CASE next \notin {"8.02", "10.03", "10.04"}
  BY <1>1, <1>2, <1>3, <1>5 DEF LoopInv
<1> QED BY <1>4, <1>5

LEMMA StepLoopInv ==
    ASSUME TypeOK, LoopInv, [Next]_vars
    PROVE  LoopInv'
<1>1. CASE CheckNodeIds("10.03")
  <2>1. PICK ok \in BOOLEAN : Record("8.02", ok, "10.03")
    BY <1>1, VerdictsAreBooleans, Zenon DEF CheckNodeIds
  <2>2. UNCHANGED <<d, loop>>
    BY <1>1 DEF CheckNodeIds
  <2> QED BY <2>1, <2>2, RecordKeepsLoop, KnownIds
<1>2. ASSUME pc' = "crashed", UNCHANGED <<d, report, fails>>
      PROVE  LoopInv'
  <2>1. Ran("10.04")' <=> Ran("10.04")
    BY <1>2 DEF Ran
  <2> QED BY <1>2, <2>1, SameVerdicts DEF LoopInv
<1>3. CASE CheckChain("10.04")
  <2>1. CASE Record("10.03", ChainOk, "10.04")
    <3>1. PICK ok \in BOOLEAN : Record("10.03", ok, "10.04")
      BY <2>1, VerdictsAreBooleans, Zenon
    <3>2. UNCHANGED <<d, loop>>
      BY <1>3 DEF CheckChain
    <3> QED BY <3>1, <3>2, RecordKeepsLoop, KnownIds
  <2>2. CASE Crash("10.03") /\ UNCHANGED <<d, loop>>
    BY <1>2, <2>2 DEF Crash, loop
  <2> QED BY <1>3, <2>1, <2>2 DEF CheckChain
<1>4. ASSUME pc = "10.04", UNCHANGED <<d, pc, report>>, LoopSoFar'
      PROVE  LoopInv'
  <2>1. ~Ran("10.04")'
    BY <1>4 DEF LoopInv, Ran
  <2> QED BY <1>4, <2>1 DEF LoopInv
<1>5. CASE StartBox
  <2>1. LoopTyped /\ LoopSoFar
    BY <1>5 DEF TypeOK, LoopTyped, LoopInv, StartBox
  <2> QED BY <1>4, <1>5, <2>1, StartBoxStep DEF StartBox
<1>6. CASE VerifyPayload
  <2>1. LoopTyped /\ LoopSoFar
    BY <1>6 DEF TypeOK, LoopTyped, LoopInv, VerifyPayload
  <2> QED BY <1>4, <1>6, <2>1, VerifyPayloadStep DEF VerifyPayload
<1>7. CASE CheckShuffles("10.02")
  <2>1. /\ pc = "10.04" /\ pc' = "10.02" /\ rest = {} /\ boxes = {}
        /\ UNCHANGED <<d, fails>>
    BY <1>7 DEF CheckShuffles, Record, loop
  <2>2. JudgedSoFar = Judgeable /\ ShuffleBoxes \ boxes = ShuffleBoxes
    BY <2>1 DEF JudgedSoFar
  <2>3. fails = Verdicts(ShuffleBoxes, Judgeable)
    BY <2>1, <2>2 DEF LoopInv, LoopSoFar
  <2>4. (fails = Verdicts(ShuffleBoxes, Judgeable))'
    BY <2>1, <2>3, SameVerdicts
  <2> QED BY <2>1, <2>4 DEF LoopInv
<1>8. CASE CheckDecryptions("11.02")
  <2>1. PICK ok \in BOOLEAN : Record("10.02", ok, "11.02")
    BY <1>8, VerdictsAreBooleans, Zenon DEF CheckDecryptions
  <2>2. UNCHANGED <<d, loop>>
    BY <1>8 DEF CheckDecryptions
  <2> QED BY <2>1, <2>2, RecordKeepsLoop, KnownIds
<1>9. CASE CheckFinals("done")
  <2>1. CASE Record("11.02", FinalsOk, "done")
    <3>1. PICK ok \in BOOLEAN : Record("11.02", ok, "done")
      BY <2>1, VerdictsAreBooleans, Zenon
    <3>2. UNCHANGED <<d, loop>>
      BY <1>9 DEF CheckFinals
    <3> QED BY <3>1, <3>2, RecordKeepsLoop, KnownIds
  <2>2. CASE Crash("11.02") /\ UNCHANGED <<d, loop>>
    BY <1>2, <2>2 DEF Crash, loop
  <2> QED BY <1>9, <2>1, <2>2 DEF CheckFinals
<1>10. CASE UNCHANGED vars
  <2>1. UNCHANGED <<d, pc, report, boxes, cur, rest, prev, fails>>
    BY <1>10 DEF vars
  <2>2. Ran("10.04")' <=> Ran("10.04")
    BY <2>1 DEF Ran
  <2>3. LoopSoFar' <=> LoopSoFar
    BY <2>1, SameLoop DEF loop
  <2> QED BY <2>1, <2>2, <2>3, SameVerdicts DEF LoopInv
<1>11. CASE CombineRaises
  BY <1>2, <1>11 DEF CombineRaises, Crash, loop
<1> QED BY <1>1, <1>3, <1>5, <1>6, <1>7, <1>8, <1>9, <1>10, <1>11 DEF Next

LEMMA InitLoopInv == Init => LoopInv
<1> SUFFICES ASSUME Init PROVE LoopInv
  OBVIOUS
<1>1. pc = "8.02" /\ report = <<>> /\ boxes = ShuffleBoxes /\ rest = {} /\ fails = {}
  BY DEF Init, ChainInit, ReportInit
<1>2. ~Ran("10.04")
  BY <1>1 DEF Ran
<1> QED BY <1>1, <1>2 DEF LoopInv

(* The verdict of 10.04 does not depend on the order of the files, on the  *)
(* ballot boxes before, or on payloads that failed: for any number of      *)
(* them, its failures are those of judging each payload on its own against *)
(* its predecessor by node id (LoopVerdict).                               *)
THEOREM LoopJudgesEachAlone == Spec => []LoopVerdict
<1>1. Init => LoopInv
  BY InitLoopInv
<1>2. TypeOK /\ LoopInv /\ [Next]_vars => LoopInv'
  BY StepLoopInv
<1>3. LoopInv => LoopVerdict
  BY DEF LoopInv, LoopVerdict, Verdicts, Judgeable
<1> QED BY <1>1, <1>2, <1>3, TypeCorrect, PTL DEF Spec

-----------------------------------------------------------------------------
(* The promise.                                                            *)

(* Where the run is, the checks before have been recorded.                 *)
DoneInOrder ==
    pc # "crashed" =>
      /\ pc # "8.02" => Ran("8.02")
      /\ pc \in {"10.02", "11.02", "done"} => Ran("10.04")
      /\ pc \in {"11.02", "done"} => Ran("10.02")
      /\ pc = "done" => Ran("11.02")

LEMMA StepInOrder ==
    ASSUME TypeOK, DoneInOrder, [Next]_vars
    PROVE  DoneInOrder'
<1>1. ASSUME NEW id \in CheckIds, NEW ok \in BOOLEAN, NEW next, Record(id, ok, next),
             <<id, next>> \in {<<"8.02", "10.03">>, <<"10.03", "10.04">>, <<"10.04", "10.02">>,
                               <<"10.02", "11.02">>, <<"11.02", "done">>}
      PROVE  DoneInOrder'
  <2>1. pc = id /\ pc' = next
    BY <1>1 DEF Record
  <2>2. \A x : Ran(x)' <=> Ran(x) \/ x = id
    BY <1>1, RanAfter
  <2> QED BY <1>1, <2>1, <2>2 DEF DoneInOrder
<1>2. CASE CheckNodeIds("10.03")
  <2>1. PICK ok \in BOOLEAN : Record("8.02", ok, "10.03")
    BY <1>2, VerdictsAreBooleans, Zenon DEF CheckNodeIds
  <2> QED BY <1>1, <2>1, KnownIds
<1>3. CASE CheckChain("10.04")
  <2>1. CASE Record("10.03", ChainOk, "10.04")
    <3>1. PICK ok \in BOOLEAN : Record("10.03", ok, "10.04")
      BY <2>1, VerdictsAreBooleans, Zenon
    <3> QED BY <1>1, <3>1, KnownIds
  <2>2. CASE Crash("10.03")
    BY <2>2 DEF Crash, DoneInOrder
  <2> QED BY <1>3, <2>1, <2>2 DEF CheckChain
<1>4. CASE CheckShuffles("10.02")
  <2>1. PICK ok \in BOOLEAN : Record("10.04", ok, "10.02")
    BY <1>4, VerdictsAreBooleans DEF CheckShuffles
  <2> QED BY <1>1, <2>1, KnownIds
<1>5. CASE CheckDecryptions("11.02")
  <2>1. PICK ok \in BOOLEAN : Record("10.02", ok, "11.02")
    BY <1>5, VerdictsAreBooleans, Zenon DEF CheckDecryptions
  <2> QED BY <1>1, <2>1, KnownIds
<1>6. CASE CheckFinals("done")
  <2>1. CASE Record("11.02", FinalsOk, "done")
    <3>1. PICK ok \in BOOLEAN : Record("11.02", ok, "done")
      BY <2>1, VerdictsAreBooleans, Zenon
    <3> QED BY <1>1, <3>1, KnownIds
  <2>2. CASE Crash("11.02")
    BY <2>2 DEF Crash, DoneInOrder
  <2> QED BY <1>6, <2>1, <2>2 DEF CheckFinals
<1>7. CASE UNCHANGED <<pc, report>>
  <2>1. \A x : Ran(x)' <=> Ran(x)
    BY <1>7 DEF Ran
  <2> QED BY <1>7, <2>1 DEF DoneInOrder
<1>8. CASE CombineRaises
  BY <1>8 DEF CombineRaises, Crash, DoneInOrder
<1> QED BY <1>2, <1>3, <1>4, <1>5, <1>6, <1>7, <1>8 DEF Next, StartBox, VerifyPayload, vars

LEMMA SameTallies ==
    ASSUME d' = d
    PROVE  TalliesRight' = TalliesRight
<1>1. /\ KeysGenuine' <=> KeysGenuine
      /\ \A b : NodeOne(b)' = NodeOne(b)
      /\ \A b : InitialCiphertexts(b)' = InitialCiphertexts(b)
      /\ \A b : VotesEncrypted(b)' <=> VotesEncrypted(b)
  BY SameDataset, SameJudgement
<1>2. FinalBoxes' = FinalBoxes
  BY DEF FinalBoxes
<1>3. \A b : TalliesVotes(b)' <=> TalliesVotes(b)
  BY DEF TalliesVotes, FinalPayloadOf, FinalIndices, InitialCiphertexts, Trivial, NodeOne,
         BallotBoxIndices
<1> QED BY <1>1, <1>2, <1>3 DEF TalliesRight

(* An ok report at the end is right.                                       *)
RightWhenDone == pc = "done" /\ ReportOk => TalliesRight

LEMMA DoneIsRight == TypeOK /\ ChainInv /\ DoneInOrder => RightWhenDone
<1> SUFFICES ASSUME TypeOK, ChainInv, DoneInOrder, pc = "done", ReportOk
             PROVE  TalliesRight
  BY DEF RightWhenDone
<1>1. Ran("8.02") /\ Ran("10.04") /\ Ran("10.02") /\ Ran("11.02")
  BY DEF DoneInOrder
<1>2. \A x : Ran(x) => Passed(x)
  BY DEF ReportOk, Failing, Ran, Passed
<1> QED BY <1>1, <1>2, VerdictFromInv DEF VerdictSound

LEMMA StepKeepsPromise ==
    ASSUME [Next]_vars, RightWhenDone'
    PROVE  [Promise!PromiseNext]_<<TalliesRight,
             IF pc = "crashed" THEN "none"
             ELSE IF pc # "done" THEN "pending"
             ELSE IF ReportOk THEN "accepted" ELSE "rejected">>
<1> DEFINE verdict == IF pc = "crashed" THEN "none"
                      ELSE IF pc # "done" THEN "pending"
                      ELSE IF ReportOk THEN "accepted" ELSE "rejected"
<1>1. d' = d
  BY DEF Next, vars, loop, CheckNodeIds, CheckChain, StartBox, VerifyPayload, CombineRaises,
         CheckShuffles, CheckDecryptions, CheckFinals
<1>2. TalliesRight' = TalliesRight
  BY <1>1, SameTallies
<1>3. pc' = "done" /\ ReportOk' => TalliesRight
  BY <1>2 DEF RightWhenDone
<1>4. \/ /\ pc \notin {"done", "crashed"} /\ pc' \in {"done", "crashed"}
      \/ /\ pc \notin {"done", "crashed"} /\ pc' \notin {"done", "crashed"}
      \/ UNCHANGED <<pc, report>>
  BY DEF Next, vars, CheckNodeIds, CheckChain, StartBox, VerifyPayload, CombineRaises,
         CheckShuffles, CheckDecryptions, CheckFinals, Record, Crash
<1>5. CASE pc \notin {"done", "crashed"} /\ pc' \in {"done", "crashed"}
  <2>1. verdict = "pending"
    BY <1>5
  <2>2. \/ verdict' = "accepted" /\ TalliesRight
        \/ verdict' = "rejected"
        \/ verdict' = "none"
    BY <1>3, <1>5
  <2> HIDE DEF verdict
  <2>3. Promise!PromiseNext
    BY <1>2, <2>1, <2>2 DEF Promise!PromiseNext, Promise!Accept, Promise!Reject, Promise!GiveUp,
                            verdict
  <2> QED BY <2>3
<1>6. CASE pc \notin {"done", "crashed"} /\ pc' \notin {"done", "crashed"}
  BY <1>2, <1>6
<1>7. CASE UNCHANGED <<pc, report>>
  <2>1. ReportOk' <=> ReportOk
    BY <1>7 DEF ReportOk, Failing
  <2> QED BY <1>2, <1>7, <2>1
<1> QED BY <1>4, <1>5, <1>6, <1>7

(* The checks of MixDecChain implement MixDecPromise, for any number of    *)
(* components and any dataset: one verdict, given once, and "accepted"     *)
(* only when the plaintexts are the confirmed votes.                       *)
THEOREM PromiseKept == Spec => KeepsPromise
<1>1. Init => Promise!PromiseInit
  <2> SUFFICES ASSUME Init PROVE Promise!PromiseInit
    OBVIOUS
  <2>1. pc = "8.02"
    BY DEF Init, ReportInit
  <2>2. TalliesRight \in BOOLEAN
    BY DEF TalliesRight
  <2> QED BY <2>1, <2>2 DEF Promise!PromiseInit
<1>2. Init => DoneInOrder
  BY DEF Init, ReportInit, DoneInOrder
<1>3. TypeOK /\ DoneInOrder /\ [Next]_vars => DoneInOrder'
  BY StepInOrder
<1>4. Spec => []DoneInOrder
  BY <1>2, <1>3, TypeCorrect, PTL DEF Spec
<1>5. Spec => []RightWhenDone
  BY <1>4, TypeCorrect, ChainInvariant, DoneIsRight, PTL
<1>6. [Next]_vars /\ RightWhenDone'
      => [Promise!PromiseNext]_<<TalliesRight,
           IF pc = "crashed" THEN "none"
           ELSE IF pc # "done" THEN "pending"
           ELSE IF ReportOk THEN "accepted" ELSE "rejected">>
  BY StepKeepsPromise
<1> QED
  BY <1>1, <1>5, <1>6, PTL
     DEF Spec, KeepsPromise, Promise!PromiseSpec

-----------------------------------------------------------------------------
(* No honest run is turned away.                                           *)

LEMMA ReEncryptionFields ==
    ASSUME NEW c \in Ciphertext, NEW key, NEW rho
    PROVE  /\ ReEncryption(c, key, rho).r = c.r + rho
           /\ ReEncryption(c, key, rho).m = c.m
           /\ ReEncryption(c, key, rho).w = c.w
           /\ \A h \in Holder : ReEncryption(c, key, rho).e[h] = c.e[h] + rho * key[h]
BY DEF ReEncryption, Ciphertext

LEMMA DecryptionFields ==
    ASSUME NEW c \in Ciphertext, NEW j \in Holder
    PROVE  /\ Decryption(c, j).r = c.r
           /\ Decryption(c, j).m = c.m
           /\ Decryption(c, j).w = c.w
           /\ \A h \in Holder : Decryption(c, j).e[h] = IF h = j THEN c.e[h] - c.r ELSE c.e[h]
BY DEF Decryption, Ciphertext, Key

(* matrix_dimensions has a result.                                         *)
LEMMA ColumnCountType ==
    ASSUME NEW n \in Nat \ {0}
    PROVE  MatrixColumnCount(n) \in Nat
<1> DEFINE S == {m \in 1..n : n % m = 0 /\ m * m <= n}
<1>1. 1 \in S
  OBVIOUS
<1>2. PICK m \in S : \A k \in S : k <= m
  <2>1. S \subseteq 1..n /\ S # {}
    BY <1>1
  <2> HIDE DEF S
  <2> QED BY <2>1, GreatestIndex
<1> DEFINE rows == CHOOSE x \in 1..n :
                     /\ n % x = 0 /\ x * x <= n
                     /\ \A k \in 1..n : n % k = 0 /\ k * k <= n => k <= x
<1>3. rows \in 1..n
  <2>1. /\ m \in 1..n /\ n % m = 0 /\ m * m <= n
        /\ \A k \in 1..n : n % k = 0 /\ k * k <= n => k <= m
    BY <1>2
  <2> QED BY <2>1
<1>4. MatrixColumnCount(n) = n \div rows
  BY DEF MatrixColumnCount
<1> HIDE DEF rows
<1> QED BY <1>3, <1>4

(* A list of the length and the width of its ballot box, mixed honestly,   *)
(* keeps both, and the argument verifies.                                  *)
Sized(cs, n, delta) ==
    /\ cs \in Seq(Ciphertext) /\ Len(cs) = n
    /\ \A i \in 1..n : cs[i].w = delta

IsRemaining(key, j) == \A h \in Holder : key[h] = IF h >= j THEN 1 ELSE 0

LEMMA HonestShuffleVerifies ==
    ASSUME NEW cs, NEW n \in Nat, n >= 2, NEW delta \in Nat, NEW width \in Nat, delta <= width,
           Sized(cs, n, delta), NEW j \in Holder, NEW ss \in Seq(Ciphertext),
           NEW arg \in Argument, ShufflesTo(cs, j, ss, arg),
           NEW key, IsRemaining(key, j)
    PROVE  /\ Sized(ss, n, delta)
           /\ ~ShuffleRaises(cs, ss, arg)
           /\ VerifyShuffle(key, width, MatrixColumnCount(n), cs, ss, arg)
<1>1. /\ Len(cs) = n /\ Len(ss) = n /\ Len(arg.rho) = n /\ arg.wf
      /\ IsPermutation(arg.perm, n)
      /\ \A i \in 1..n : ss[i] = ReEncryption(cs[arg.perm[i]], KeysFrom(j), arg.rho[i])
      /\ cs \in Seq(Ciphertext) /\ \A i \in 1..n : cs[i].w = delta
  BY DEF ShufflesTo, Sized
<1>2. ASSUME NEW i \in 1..n
      PROVE  ReEncrypts(ss[i], cs[arg.perm[i]], key, arg.rho[i]) /\ ss[i].w = delta
  <2>1. arg.perm[i] \in 1..n
    BY <1>1 DEF IsPermutation
  <2> DEFINE c == cs[arg.perm[i]]
  <2>2. c \in Ciphertext /\ c.w = delta
    BY <1>1, <2>1
  <2>3. ss[i] = ReEncryption(c, KeysFrom(j), arg.rho[i])
    BY <1>1
  <2>4. \A h \in Holder : KeysFrom(j)[h] = key[h]
    BY DEF KeysFrom, IsRemaining
  <2> HIDE DEF c
  <2>5. /\ ss[i].r = c.r + arg.rho[i] /\ ss[i].m = c.m /\ ss[i].w = c.w
        /\ \A h \in Holder : ss[i].e[h] = c.e[h] + arg.rho[i] * key[h]
    BY <2>2, <2>3, <2>4, ReEncryptionFields
  <2> QED BY <2>2, <2>5 DEF ReEncrypts, c
<1>3. cs # <<>> /\ 1 \in 1..n
  BY <1>1
<1>4. MatrixColumnCount(n) <= MatrixColumnCount(n)
  BY ColumnCountType
<1>5. VerifyShuffle(key, width, MatrixColumnCount(n), cs, ss, arg)
  BY <1>1, <1>2, <1>3, <1>4 DEF VerifyShuffle
<1> QED BY <1>1, <1>2, <1>5 DEF Sized, ShuffleRaises

(* What an honest holder decrypts, with its proofs, verifies one by one.   *)
LEMMA HonestDecryptionVerifies ==
    ASSUME NEW c \in Ciphertext, NEW j \in Holder, NEW width \in Nat, c.w \in 1..width,
           ~HasOne(c), NEW msg, NEW proof, NEW context, proof = context,
           msg.m = Decryption(c, j).m, msg.e = Decryption(c, j).e, msg.w = Decryption(c, j).w
    PROVE  VerifyDecryption(c, KeyOf(j), width, msg, proof, context)
<1>1. c.r \in Int /\ c.e \in Key /\ c.w \in Nat
  BY DEF Ciphertext
<1>2. \A h \in Holder : KeyOf(j)[h] = IF h = j THEN 1 ELSE 0
  BY DEF KeyOf
<1>3. \A h \in Holder : msg.e[h] = IF h = j THEN c.e[h] - c.r ELSE c.e[h]
  BY DecryptionFields
<1>4. \A h \in Holder : msg.e[h] = c.e[h] - c.r * KeyOf(j)[h]
  <2> SUFFICES ASSUME NEW h \in Holder PROVE msg.e[h] = c.e[h] - c.r * KeyOf(j)[h]
    OBVIOUS
  <2>1. c.e[h] \in Int
    BY <1>1 DEF Key
  <2>2. CASE h = j
    <3>1. c.r * KeyOf(j)[h] = c.r
      BY <1>1, <1>2, <2>2
    <3> QED BY <1>3, <2>1, <2>2, <3>1
  <2>3. CASE h # j
    <3>1. c.r * KeyOf(j)[h] = 0
      BY <1>1, <1>2, <2>3
    <3> QED BY <1>3, <2>1, <2>3, <3>1
  <2> QED BY <2>2, <2>3
<1> QED BY <1>1, <1>4, DecryptionFields DEF VerifyDecryption

(* The payload of node j of a ballot box, and what it got.                 *)
LEMMA HonestNodeIds ==
    ASSUME HonestFiles
    PROVE  NodeIdsOk
BY DEF HonestFiles, NodeIdsOk

(* Their keys are of one length.                                           *)
LEMMA HonestWidths ==
    ASSUME IsDataset(d), KeysGenuine, HonestFiles
    PROVE  /\ \A k \in 0..EB : d.width[k] = d.width[0]
           /\ \A node : KeyWidth(node) = d.width[0] /\ ~KeysRaise(node)
<1>1. \A k \in 0..EB : d.width[k] = d.width[0]
  BY DEF HonestFiles
<1>2. DOMAIN d.ccm = Node
  BY DEF KeysGenuine
<1>3. ASSUME NEW node, KeysRaise(node)
      PROVE  FALSE
  <2>1. PICK k \in node..N : d.width[k] # d.width[EB]
    BY <1>3 DEF KeysRaise
  <2>2. k \in Node
    BY <1>2, <1>3, <2>1 DEF KeysRaise, MissingKeys
  <2> QED BY <1>1, <2>1, <2>2, WidthTypes
<1> QED BY <1>1, <1>3, WidthTypes DEF KeyWidth

LEMMA HonestStart ==
    ASSUME IsDataset(d), KeysGenuine, HonestFiles, NEW b \in ShuffleBoxes
    PROVE  /\ NodeOne(b) # {} /\ b \in DOMAIN d.ctx
           /\ d.ctx[b] \in 1..d.width[0] /\ d.width[0] \in Nat
           /\ Len(InitialCiphertexts(b)) \in Nat /\ Len(InitialCiphertexts(b)) >= 2
           /\ Received(b, 1) = InitialCiphertexts(b)
           /\ Sized(InitialCiphertexts(b), Len(InitialCiphertexts(b)), d.ctx[b])
<1>1. /\ b \in DOMAIN d.ctx /\ EachNodeOnce(d.bb, b)
      /\ d.ctx[b] \in 1..d.width[0] /\ d.width[0] \in Nat
  BY WidthTypes DEF HonestFiles
<1>2. NodeOne(b) # {}
  <2>1. 1 \in Node
    BY DEF Node
  <2> QED BY <1>1, <2>1 DEF EachNodeOnce, NodeOne, BallotBoxIndices
<1> DEFINE i == First(NodeOne(b))
           votes == ConfirmedVotes(d.bb[i].votes)
           n == Len(InitialCiphertexts(b))
<1>3. InitialCiphertexts(b) \in Seq(Ciphertext) /\ n >= 2
  BY <1>1, <1>2, InitialType
<1>4. i \in DOMAIN d.bb /\ d.bb[i].box = b /\ d.bb[i].votes \in Seq(Vote)
  <2>1. DOMAIN d.bb = 1..Len(d.bb) /\ Len(d.bb) \in Nat /\ d.bb \in Seq(BallotBoxPayload)
    BY DEF IsDataset
  <2>2. NodeOne(b) \subseteq Nat
    BY <2>1 DEF NodeOne, BallotBoxIndices
  <2>3. i \in NodeOne(b)
    BY <1>2, <2>2, LeastNatural DEF First
  <2>4. i \in DOMAIN d.bb /\ d.bb[i].box = b
    BY <2>3 DEF NodeOne, BallotBoxIndices
  <2>5. d.bb[i] \in BallotBoxPayload
    BY <2>1, <2>4, ElementOfSeq
  <2> QED BY <2>4, <2>5 DEF BallotBoxPayload
<1> HIDE DEF i
<1>5. /\ votes \in Seq(Ciphertext)
      /\ \A k \in 1..Len(votes) : votes[k].w = d.ctx[b]
  <2>1. /\ votes \in Seq(Ciphertext)
        /\ \A k \in 1..Len(votes) : \E l \in DOMAIN d.bb[i].votes : votes[k] = d.bb[i].votes[l].ct
    BY <1>4, ConfirmedVotesType
  <2>2. \A l \in DOMAIN d.bb[i].votes : d.bb[i].votes[l].ct.w = d.ctx[b]
    BY <1>4 DEF HonestFiles
  <2> QED BY <2>1, <2>2
<1> DEFINE one == [r |-> 1, m |-> One, e |-> KeysFrom(1), w |-> d.ctx[b]]
<1>6. Trivial(d.ctx[b]) = one
  <2>1. d.pk = KeysFrom(1)
    BY DEF KeysGenuine, KeysFrom, Holder
  <2>2. Smaller(d.ctx[b], d.width[0]) = d.ctx[b]
    BY <1>1 DEF Smaller
  <2> QED BY <2>1, <2>2 DEF Trivial
<1>7. one \in Ciphertext /\ one.w = d.ctx[b]
  BY <1>1, MsgAssumption DEF Ciphertext, Key, KeysFrom
<1>8. InitialCiphertexts(b) = IF Len(votes) < 2 THEN votes \o <<one, one>> ELSE votes
  BY <1>6 DEF InitialCiphertexts, i
<1>9. Received(b, 1) = InitialCiphertexts(b)
  BY <1>8 DEF Received, Mixable, i
<1>10. Sized(InitialCiphertexts(b), n, d.ctx[b])
  <2> HIDE DEF one, votes
  <2>1. CASE Len(votes) < 2
    <3>1. n = Len(votes) + 2
      BY <1>5, <1>7, <1>8, <2>1
    <3>2. \A k \in 1..n : \/ k \in 1..Len(votes) /\ InitialCiphertexts(b)[k] = votes[k]
                          \/ InitialCiphertexts(b)[k] = one
      BY <1>5, <1>7, <1>8, <2>1, <3>1
    <3> QED BY <1>3, <1>5, <1>7, <3>2 DEF Sized
  <2>2. CASE ~(Len(votes) < 2)
    BY <1>3, <1>5, <1>8, <2>2 DEF Sized
  <2> QED BY <2>1, <2>2
<1> QED BY <1>1, <1>2, <1>3, <1>9, <1>10

(* One honest component keeps the length and the widths.                   *)
LEMMA HonestStep ==
    ASSUME IsDataset(d), NEW i \in DOMAIN d.shuffles, HonestShuffle(d.shuffles[i]),
           NEW n \in Nat, n >= 2, NEW delta \in Nat,
           d.shuffles[i].node \in Node,
           Sized(Received(d.shuffles[i].box, d.shuffles[i].node), n, delta)
    PROVE  Sized(d.shuffles[i].shuffled, n, delta) /\ Sized(d.shuffles[i].decrypted, n, delta)
<1> DEFINE p == d.shuffles[i]
           cs == Received(p.box, p.node)
           key == KeysFrom(p.node)
<1>1. p \in ShufflePayload
  BY PayloadType
<1>2. p.shuffled \in Seq(Ciphertext) /\ p.decrypted \in Seq(Ciphertext) /\ p.arg \in Argument
  BY <1>1 DEF ShufflePayload
<1>3. p.node \in Holder
  BY DEF Node, Holder
<1>4. ShufflesTo(cs, p.node, p.shuffled, p.arg)
  BY DEF HonestShuffle
<1>5. IsRemaining(key, p.node)
  BY DEF KeysFrom, IsRemaining
<1>6. Sized(cs, n, delta)
  OBVIOUS
<1>7. /\ Len(p.decrypted) = Len(p.shuffled)
      /\ \A k \in 1..Len(p.shuffled) : p.decrypted[k] = Decryption(p.shuffled[k], p.node)
  BY DEF HonestShuffle
<1> HIDE DEF p, cs, key
<1>8. Sized(p.shuffled, n, delta)
  <2>1. delta <= delta
    OBVIOUS
  <2> QED BY <1>2, <1>3, <1>4, <1>5, <1>6, <2>1, HonestShuffleVerifies
<1>9. \A k \in 1..n : p.decrypted[k].w = delta
  <2> SUFFICES ASSUME NEW k \in 1..n PROVE p.decrypted[k].w = delta
    OBVIOUS
  <2>1. p.shuffled[k] \in Ciphertext /\ p.shuffled[k].w = delta
    BY <1>2, <1>8 DEF Sized
  <2>2. p.decrypted[k] = Decryption(p.shuffled[k], p.node)
    BY <1>7, <1>8 DEF Sized
  <2> QED BY <1>3, <2>1, <2>2, DecryptionFields
<1>10. Sized(p.decrypted, n, delta)
  BY <1>2, <1>7, <1>8, <1>9 DEF Sized
<1> QED BY <1>8, <1>10 DEF p

(* Along the nodes, by the first one that would break it.                  *)
LEMMA HonestMixKeepsSize ==
    ASSUME IsDataset(d), HonestEvidence, NEW b \in ShuffleBoxes
    PROVE  \A i \in ShuffleIndices(b) :
             LET n == Len(InitialCiphertexts(b))
             IN  /\ Sized(Received(b, d.shuffles[i].node), n, d.ctx[b])
                 /\ Sized(d.shuffles[i].shuffled, n, d.ctx[b])
                 /\ Sized(d.shuffles[i].decrypted, n, d.ctx[b])
<1> DEFINE n == Len(InitialCiphertexts(b))
           Got(i) == Sized(Received(b, d.shuffles[i].node), n, d.ctx[b])
           Keeps(i) == /\ Sized(d.shuffles[i].shuffled, n, d.ctx[b])
                       /\ Sized(d.shuffles[i].decrypted, n, d.ctx[b])
<1>1. /\ n \in Nat /\ n >= 2 /\ d.ctx[b] \in Nat
      /\ Received(b, 1) = InitialCiphertexts(b)
      /\ Sized(InitialCiphertexts(b), n, d.ctx[b])
  BY HonestStart DEF HonestEvidence, IsDataset
<1>2. /\ \A i \in ShuffleIndices(b) : d.shuffles[i].node \in Node
      /\ \A j \in Node : \E i \in ShuffleIndices(b) : d.shuffles[i].node = j
      /\ \A i, k \in ShuffleIndices(b) : d.shuffles[i].node = d.shuffles[k].node => i = k
  BY HonestNodeIds, OneOfEachNode DEF HonestEvidence
<1>3. ASSUME NEW i \in ShuffleIndices(b), Got(i)
      PROVE  Keeps(i)
  <2>1. i \in DOMAIN d.shuffles /\ d.shuffles[i].box = b
    BY DEF ShuffleIndices
  <2>2. HonestShuffle(d.shuffles[i])
    BY <2>1 DEF HonestEvidence
  <2> HIDE DEF n
  <2> QED BY <1>1, <1>2, <1>3, <2>1, <2>2, HonestStep
<1> DEFINE Bad == {j \in Node : \E i \in ShuffleIndices(b) : d.shuffles[i].node = j /\ ~Got(i)}
<1>4. Bad = {}
  <2> SUFFICES ASSUME Bad # {} PROVE FALSE
    OBVIOUS
  <2>1. Bad \subseteq Nat
    BY DEF Node
  <2>2. PICK j \in Bad : \A k \in Bad : j <= k
    <3> HIDE DEF Bad
    <3> QED BY <2>1, LeastNatural
  <2>3. PICK i \in ShuffleIndices(b) : d.shuffles[i].node = j /\ ~Got(i)
    BY <2>2
  <2>4. j # 1
    BY <1>1, <2>3
  <2>5. j - 1 \in Node /\ j - 1 \notin Bad
    <3>1. j \in Node
      BY <2>2
    <3>2. j - 1 \in Node /\ ~(j <= j - 1)
      BY <2>4, <3>1 DEF Node
    <3> QED BY <2>2, <3>2
  <2>6. PICK k \in ShuffleIndices(b) : d.shuffles[k].node = j - 1
    BY <1>2, <2>5
  <2>7. Got(k)
    BY <2>5, <2>6
  <2>8. (CHOOSE l \in ShuffleIndices(b) : d.shuffles[l].node = j - 1) = k
    BY <1>2, <2>6
  <2>9. Received(b, j) = d.shuffles[k].decrypted
    BY <2>4, <2>8 DEF Received
  <2> QED BY <1>3, <2>3, <2>7, <2>9
<1>5. \A i \in ShuffleIndices(b) : Got(i)
  BY <1>2, <1>4
<1> QED BY <1>3, <1>5

(* The predecessor in the sorted list is the node before.                  *)
LEMMA PredecessorIsNodeBefore ==
    ASSUME IsDataset(d), HonestEvidence, NEW i \in DOMAIN d.shuffles
    PROVE  Predecessor(i) = Received(d.shuffles[i].box, d.shuffles[i].node)
<1> DEFINE b == d.shuffles[i].box
           j == d.shuffles[i].node
<1>1. b \in ShuffleBoxes /\ i \in ShuffleIndices(b)
  BY DEF ShuffleBoxes, ShuffleIndices
<1>2. /\ \A k \in ShuffleIndices(b) : d.shuffles[k].node \in Node
      /\ \A l \in Node : \E k \in ShuffleIndices(b) : d.shuffles[k].node = l
      /\ \A k, l \in ShuffleIndices(b) : d.shuffles[k].node = d.shuffles[l].node => k = l
  BY <1>1, HonestNodeIds, OneOfEachNode DEF HonestEvidence
<1>3. j \in Node /\ Previous(i) \subseteq ShuffleIndices(b)
  BY <1>1, <1>2 DEF Previous
<1>4. \A k \in ShuffleIndices(b) : k \in Previous(i) <=> d.shuffles[k].node < j
  <2> SUFFICES ASSUME NEW k \in ShuffleIndices(b)
               PROVE  k \in Previous(i) <=> d.shuffles[k].node < j
    OBVIOUS
  <2>1. d.shuffles[k].node = j => k = i
    BY <1>1, <1>2
  <2>2. i \in Nat
    BY PayloadType
  <2> QED BY <2>1, <2>2 DEF Previous, Before
<1>5. CASE j = 1
  <2>1. Previous(i) = {}
    BY <1>2, <1>3, <1>4, <1>5 DEF Node
  <2> QED BY <1>1, <1>5, <2>1, HonestStart DEF Predecessor, HonestEvidence
<1>6. CASE j # 1
  <2>1. j - 1 \in Node
    BY <1>3, <1>6 DEF Node
  <2>2. PICK k \in ShuffleIndices(b) : d.shuffles[k].node = j - 1
    BY <1>2, <2>1
  <2>3. k \in Previous(i)
    BY <1>3, <1>4, <2>2 DEF Node
  <2>4. ASSUME NEW l \in Previous(i), l # k
        PROVE  Before(l, k) /\ ~Before(k, l)
    <3>1. d.shuffles[l].node \in Node /\ d.shuffles[l].node < j /\ d.shuffles[l].node # j - 1
      BY <1>2, <1>3, <1>4, <2>2, <2>4
    <3> QED BY <1>3, <2>2, <3>1 DEF Before, Node
  <2>5. (CHOOSE m \in Previous(i) : \A l \in Previous(i) \ {m} : Before(l, m)) = k
    BY <2>3, <2>4
  <2>6. (CHOOSE l \in ShuffleIndices(b) : d.shuffles[l].node = j - 1) = k
    BY <1>2, <2>2
  <2>7. Predecessor(i) = d.shuffles[k].decrypted
    BY <2>3, <2>5 DEF Predecessor
  <2>8. Received(b, j) = d.shuffles[k].decrypted
    BY <1>6, <2>6 DEF Received
  <2> QED BY <2>7, <2>8
<1> QED BY <1>5, <1>6

(* 10.03 and 10.04 have nothing to say of honest evidence.                 *)
LEMMA HonestChain ==
    ASSUME IsDataset(d), HonestEvidence
    PROVE  ~ChainCrashes /\ ChainOk
<1>1. ~ChainCrashes
  BY HonestStart DEF ChainCrashes, HonestEvidence
<1>2. ASSUME NEW b \in ShuffleBoxes
      PROVE  NodeOne(b) # {} /\ Len(InitialCiphertexts(b)) >= 2
  BY HonestStart DEF HonestEvidence
<1>3. ASSUME NEW b \in ShuffleBoxes, NEW i \in ShuffleIndices(b)
      PROVE  ChainStepOk(i)
  <2> DEFINE n == Len(InitialCiphertexts(b))
  <2>1. /\ Sized(d.shuffles[i].shuffled, n, d.ctx[b])
        /\ \A k \in ShuffleIndices(b) : Sized(d.shuffles[k].decrypted, n, d.ctx[b])
    BY HonestMixKeepsSize
  <2>2. d.shuffles[i].box = b
    BY DEF ShuffleIndices
  <2>3. \A k \in Previous(i) : k \in ShuffleIndices(b)
    BY <2>2 DEF Previous
  <2> QED BY <2>1, <2>2, <2>3 DEF ChainStepOk, Sized
<1> QED BY <1>1, <1>2, <1>3 DEF ChainOk

LEMMA HonestBoxes ==
    ASSUME IsDataset(d), HonestEvidence, NEW b \in ShuffleBoxes
    PROVE  BoxProblems(b) = {}
<1>1. /\ NodeOne(b) # {} /\ b \in DOMAIN d.ctx
      /\ Len(InitialCiphertexts(b)) \in Nat /\ Len(InitialCiphertexts(b)) >= 2
  BY HonestStart DEF HonestEvidence
<1>2. ~(Len(InitialCiphertexts(b)) < 2)
  BY <1>1
<1> QED BY <1>1, <1>2, Zenon DEF BoxProblems

LEMMA HonestPayloads ==
    ASSUME IsDataset(d), HonestEvidence, NEW i \in DOMAIN d.shuffles
    PROVE  PayloadProblems(i, Predecessor(i)) = {}
<1> DEFINE p == d.shuffles[i]
           b == p.box
           n == Len(InitialCiphertexts(b))
           cs == Received(b, p.node)
<1>1. b \in ShuffleBoxes /\ i \in ShuffleIndices(b)
  BY DEF ShuffleBoxes, ShuffleIndices
<1>2. Sized(cs, n, d.ctx[b])
  BY <1>1, HonestMixKeepsSize
<1> DEFINE width == KeyWidth(p.node)
<1>3. n \in Nat /\ n >= 2 /\ d.ctx[b] \in Nat /\ width \in Nat /\ d.ctx[b] <= width
  BY <1>1, HonestStart, HonestWidths DEF HonestEvidence
<1>4. p.node \in Node /\ p.node \in Holder
  BY <1>1, HonestNodeIds, OneOfEachNode DEF HonestEvidence, Node, Holder
<1>5. p.shuffled \in Seq(Ciphertext) /\ p.arg \in Argument
  BY PayloadType DEF ShufflePayload
<1>6. ShufflesTo(cs, p.node, p.shuffled, p.arg)
  BY DEF HonestEvidence, HonestShuffle
<1>7. MissingKeys(p.node) = {}
  BY <1>4 DEF MissingKeys, HonestEvidence, KeysGenuine, Node
<1>8. IsRemaining(ShuffleKey(p.node), p.node)
  <2>1. CASE p.node = 1
    BY <2>1 DEF ShuffleKey, HonestEvidence, KeysGenuine, Holder, IsRemaining
  <2>2. CASE p.node # 1
    BY <1>4, <2>2, CombinedKeyIsRemaining
       DEF ShuffleKey, HonestEvidence, KeysGenuine, IsRemaining
  <2> QED BY <2>1, <2>2
<1>9. Predecessor(i) = cs
  BY PredecessorIsNodeBefore
<1> DEFINE key == ShuffleKey(p.node)
<1> HIDE DEF n, cs, key, width
<1>10. /\ ~ShuffleRaises(cs, p.shuffled, p.arg)
       /\ VerifyShuffle(key, width, MatrixColumnCount(n), cs, p.shuffled, p.arg)
  BY <1>2, <1>3, <1>4, <1>5, <1>6, <1>8, HonestShuffleVerifies DEF key
<1>11. ShuffleOk(i, cs)
  BY <1>10 DEF ShuffleOk, key, width, n
<1> QED BY <1>7, <1>9, <1>10, <1>11 DEF PayloadProblems

(* Neither have 10.02 and 11.02.                                           *)
LEMMA HonestDecryptions ==
    ASSUME IsDataset(d), HonestEvidence
    PROVE  DecryptionsOk
<1> SUFFICES ASSUME NEW i \in DOMAIN d.shuffles PROVE DecryptionOk(i)
  BY DEF DecryptionsOk
<1> DEFINE p == d.shuffles[i]
           b == p.box
           n == Len(InitialCiphertexts(b))
           context == [box |-> b, node |-> p.node]
<1>1. b \in ShuffleBoxes /\ i \in ShuffleIndices(b)
  BY DEF ShuffleBoxes, ShuffleIndices
<1>2. p.node \in Node /\ p.node \in Holder
  BY <1>1, HonestNodeIds, OneOfEachNode DEF HonestEvidence, Node, Holder
<1>3. Sized(p.shuffled, n, d.ctx[b]) /\ Sized(p.decrypted, n, d.ctx[b])
  BY <1>1, HonestMixKeepsSize
<1> DEFINE width == d.width[p.node]
<1>4. n \in Nat /\ n >= 2 /\ d.ctx[b] \in 1..width /\ width \in Nat
  <2>1. width = d.width[0]
    BY <1>2, HonestWidths, WidthTypes DEF HonestEvidence
  <2> QED BY <1>1, <2>1, HonestStart DEF HonestEvidence
<1>5. HonestShuffle(p)
  BY DEF HonestEvidence
<1>6. p.node \in DOMAIN d.ccm /\ d.ccm[p.node] = p.node
  BY <1>2 DEF HonestEvidence, KeysGenuine
<1> HIDE DEF n, context, width
<1>7. /\ p.shuffled \in Seq(Ciphertext) /\ Len(p.shuffled) = n /\ Len(p.decrypted) = n
      /\ \A k \in 1..n : p.shuffled[k].w = d.ctx[b]
  BY <1>3 DEF Sized
<1>8. /\ \A k \in 1..n : p.decrypted[k] = Decryption(p.shuffled[k], p.node)
      /\ Len(p.proofs) = n /\ \A k \in 1..n : p.proofs[k] = context
      /\ \A k \in 1..n : ~HasOne(p.shuffled[k])
  BY <1>5, <1>7 DEF HonestShuffle, ShufflesTo, ProvedFor, context
<1>9. ASSUME NEW k \in 1..n
      PROVE  /\ p.decrypted[k].r = p.shuffled[k].r
             /\ VerifyDecryption(p.shuffled[k], KeyOf(p.node), width, p.decrypted[k],
                                 p.proofs[k], context)
  <2>1. p.shuffled[k] \in Ciphertext /\ p.shuffled[k].w \in 1..width /\ ~HasOne(p.shuffled[k])
    BY <1>4, <1>7, <1>8
  <2>2. p.decrypted[k] = Decryption(p.shuffled[k], p.node) /\ p.proofs[k] = context
    BY <1>8
  <2>3. p.decrypted[k].r = p.shuffled[k].r
    BY <1>2, <2>1, <2>2, DecryptionFields
  <2> HIDE DEF p
  <2> QED BY <1>2, <1>4, <2>1, <2>2, <2>3, HonestDecryptionVerifies
<1>10. p.shuffled # <<>>
  BY <1>4, <1>7
<1>11. VerifyDecryptions(p.shuffled, KeyOf(p.node), width, p.decrypted, p.proofs, context)
  BY <1>7, <1>8, <1>9, <1>10 DEF VerifyDecryptions
<1> QED BY <1>6, <1>11 DEF DecryptionOk, context, width

LEMMA HonestFinals ==
    ASSUME IsDataset(d), HonestEvidence
    PROVE  FinalsOk
<1>1. \A i \in DOMAIN d.finals : d.finals[i].box \in ShuffleBoxes
  BY DEF HonestEvidence, HonestFinal
<1>2. NoBox \notin ShuffleBoxes
  <2>1. \A i \in DOMAIN d.shuffles : d.shuffles[i].box \in Box
    BY PayloadType DEF ShufflePayload
  <2> QED BY <2>1, BoxAssumption DEF ShuffleBoxes, NoBox
<1>3. FinalIndices(NoBox) = {}
  BY <1>1, <1>2 DEF FinalIndices
<1>4. ASSUME NEW b \in FinalBoxes
      PROVE  Cardinality(FinalIndices(b)) = 1 /\ FinalOk(b)
  <2>1. PICK i \in DOMAIN d.finals : d.finals[i].box = b
    BY DEF FinalBoxes
  <2>2. FinalIndices(b) = {i}
    BY <2>1 DEF FinalIndices, HonestEvidence, HonestFiles
  <2>3. FinalPayloadOf(b) = d.finals[i] /\ d.finals[i] \in FinalPayload
    <3>1. i \in Nat /\ d.finals[i] \in FinalPayload
      BY <2>1 DEF IsDataset
    <3> QED BY <2>2, <3>1 DEF FinalPayloadOf
  <2>4. b \in ShuffleBoxes
    BY <1>1, <2>1
  <2>5. /\ \A k \in ShuffleIndices(b) : d.shuffles[k].node \in Node
        /\ \A l \in Node : \E k \in ShuffleIndices(b) : d.shuffles[k].node = l
        /\ \A k, l \in ShuffleIndices(b) : d.shuffles[k].node = d.shuffles[l].node => k = l
    BY <2>4, HonestNodeIds, OneOfEachNode DEF HonestEvidence
  <2>6. PICK k \in ShuffleIndices(b) : d.shuffles[k].node = N
    BY <2>5 DEF Node
  <2>7. k \in DOMAIN d.shuffles /\ k \in Nat
    BY <2>6, PayloadType DEF ShuffleIndices
  <2>8. NodeLast(b) = {k}
    BY <2>5, <2>6 DEF NodeLast
  <2>9. First(NodeLast(b)) = k
    BY <2>7, <2>8 DEF First
  <2> DEFINE f == d.finals[i]
             prior == d.shuffles[k].decrypted
             n == Len(InitialCiphertexts(b))
             delta == d.ctx[b]
             context == [box |-> b, node |-> EB]
  <2>10. Received(b, EB) = prior
    <3>1. EB # 1 /\ EB - 1 = N
      BY DEF EB
    <3>2. (CHOOSE l \in ShuffleIndices(b) : d.shuffles[l].node = EB - 1) = k
      BY <2>5, <2>6, <3>1
    <3> QED BY <3>1, <3>2 DEF Received
  <2>11. Sized(prior, n, delta)
    BY <2>4, <2>6, HonestMixKeepsSize
  <2>12. /\ n \in Nat /\ n >= 2 /\ delta \in Nat /\ b \in DOMAIN d.ctx
         /\ d.width[EB] \in Nat /\ delta \in 1..d.width[EB]
    <3>1. d.width[EB] = d.width[0]
      BY HonestWidths, WidthTypes DEF HonestEvidence
    <3> QED BY <2>4, <3>1, HonestStart DEF HonestEvidence
  <2>13. Smaller(delta, d.width[EB]) = delta /\ delta <= delta /\ EB \in Holder
    BY <2>12 DEF Smaller, EB, Holder
  <2>14. HonestFinal(f) /\ f.box = b
    BY <2>1 DEF HonestEvidence
  <2>15. f.shuffled \in Seq(Ciphertext) /\ f.arg \in Argument
    BY <2>3 DEF FinalPayload
  <2> HIDE DEF f, prior, n, delta, context
  <2>16. /\ f.lacks = "nothing" /\ ShufflesTo(prior, EB, f.shuffled, f.arg)
         /\ Len(f.plain) = Len(f.shuffled)
         /\ \A l \in 1..Len(f.shuffled) : f.plain[l] = Bare(Decryption(f.shuffled[l], EB))
         /\ Len(f.proofs) = Len(f.shuffled)
         /\ \A l \in 1..Len(f.shuffled) : f.proofs[l] = context
    BY <2>10, <2>14 DEF HonestFinal, ProvedFor, context
  <2>17. IsRemaining(KeyOf(EB), EB)
    BY DEF IsRemaining, KeyOf, Holder, EB
  <2>18. /\ Sized(f.shuffled, n, delta)
         /\ ~ShuffleRaises(prior, f.shuffled, f.arg)
         /\ VerifyShuffle(KeyOf(EB), delta, MatrixColumnCount(n), prior, f.shuffled, f.arg)
    BY <2>11, <2>12, <2>13, <2>15, <2>16, <2>17, HonestShuffleVerifies
  <2>19. Len(f.shuffled) = n /\ Len(prior) = n
    BY <2>11, <2>18 DEF Sized
  <2>20. ASSUME NEW l \in 1..n
         PROVE  /\ f.plain[l].w = delta
                /\ VerifyDecryption(f.shuffled[l], KeyOf(EB), delta, f.plain[l], f.proofs[l], context)
    <3>1. /\ f.shuffled[l] \in Ciphertext /\ f.shuffled[l].w = delta /\ delta \in 1..delta
          /\ ~HasOne(f.shuffled[l])
      BY <2>12, <2>15, <2>16, <2>18, <2>19 DEF Sized, ShufflesTo
    <3>2. f.plain[l] = Bare(Decryption(f.shuffled[l], EB)) /\ f.proofs[l] = context
      BY <2>16, <2>19
    <3>3. /\ f.plain[l].m = Decryption(f.shuffled[l], EB).m
          /\ f.plain[l].e = Decryption(f.shuffled[l], EB).e
          /\ f.plain[l].w = Decryption(f.shuffled[l], EB).w
      BY <3>2 DEF Bare
    <3>4. f.plain[l].w = delta
      BY <2>13, <3>1, <3>3, DecryptionFields
    <3> QED BY <2>12, <2>13, <3>1, <3>2, <3>3, <3>4, HonestDecryptionVerifies
  <2>21. FinalOk(b)
    <3>1. FinalPayloadOf(b) = f /\ d.shuffles[First(NodeLast(b))].decrypted = prior
          /\ NodeLast(b) # {} /\ d.ctx[b] = delta /\ d.eb = EB
      BY <2>3, <2>8, <2>9 DEF f, prior, delta, HonestEvidence, KeysGenuine
    <3> QED BY <2>12, <2>13, <2>16, <2>18, <2>19, <2>20, <3>1 DEF FinalOk, context
  <2> QED BY <2>2, <2>21, FS_Singleton
<1> QED BY <1>3, <1>4 DEF FinalsOk

LEMMA HonestLoop ==
    ASSUME IsDataset(d), HonestEvidence, LoopSoFar
    PROVE  fails = {}
<1>1. \A b \in ShuffleBoxes \ boxes : BoxProblems(b) = {}
  BY HonestBoxes
<1>2. \A i \in JudgedSoFar : PayloadProblems(i, Predecessor(i)) = {}
  BY HonestPayloads DEF JudgedSoFar, Judgeable
<1> QED BY <1>1, <1>2 DEF LoopSoFar, Verdicts

LEMMA StepHonest ==
    ASSUME TypeOK, LoopInv, HonestAccepted, [Next]_vars
    PROVE  HonestAccepted'
<1>1. IsDataset(d)
  BY DEF TypeOK
<1>2. d' = d
  BY DEF Next, vars, loop, CheckNodeIds, CheckChain, StartBox, VerifyPayload, CombineRaises,
         CheckShuffles, CheckDecryptions, CheckFinals
<1>3. HonestEvidence' <=> HonestEvidence
  BY <1>2 DEF HonestEvidence, KeysGenuine, HonestFiles, HonestShuffle, HonestFinal, Received,
              ShuffleBoxes, ShuffleIndices, NodeOne, BallotBoxIndices
<1> SUFFICES ASSUME HonestEvidence, ReportOk, pc # "crashed"
             PROVE  ReportOk' /\ pc' # "crashed"
  BY <1>3 DEF HonestAccepted
<1>4. ASSUME NEW id \in CheckIds, NEW ok \in BOOLEAN, NEW next, next # "crashed", ok,
             Record(id, ok, next)
      PROVE  ReportOk' /\ pc' # "crashed"
  BY <1>4, RanAfter DEF Record
<1>5. CASE CheckNodeIds("10.03")
  <2>1. PICK ok \in BOOLEAN : ok = NodeIdsOk
    BY VerdictsAreBooleans
  <2>2. Record("8.02", ok, "10.03")
    BY <1>5, <2>1, Zenon DEF CheckNodeIds
  <2>3. ok
    BY <2>1, HonestNodeIds DEF HonestEvidence
  <2> QED BY <1>4, <2>2, <2>3, KnownIds
<1>6. CASE CheckChain("10.04")
  <2>1. Record("10.03", ChainOk, "10.04")
    BY <1>1, <1>6, HonestChain DEF CheckChain
  <2>2. PICK ok \in BOOLEAN : ok = ChainOk
    BY VerdictsAreBooleans
  <2>3. Record("10.03", ok, "10.04")
    BY <2>1, <2>2, Zenon
  <2>4. ok
    BY <1>1, <2>2, HonestChain
  <2> QED BY <1>4, <2>3, <2>4, KnownIds
<1>7. CASE CheckShuffles("10.02")
  <2>1. PICK ok \in BOOLEAN : ok = (fails = {})
    BY VerdictsAreBooleans
  <2>2. Record("10.04", ok, "10.02")
    BY <1>7, <2>1, Zenon DEF CheckShuffles
  <2>3. LoopSoFar
    BY <2>2 DEF LoopInv, Record
  <2>4. ok
    BY <1>1, <2>1, <2>3, HonestLoop
  <2> QED BY <1>4, <2>2, <2>4, KnownIds
<1>8. CASE CheckDecryptions("11.02")
  <2>1. PICK ok \in BOOLEAN : ok = DecryptionsOk
    BY VerdictsAreBooleans
  <2>2. Record("10.02", ok, "11.02")
    BY <1>8, <2>1, Zenon DEF CheckDecryptions
  <2>3. ok
    BY <1>1, <2>1, HonestDecryptions
  <2> QED BY <1>4, <2>2, <2>3, KnownIds
<1>9. CASE CheckFinals("done")
  <2>1. PICK ok \in BOOLEAN : ok = FinalsOk
    BY VerdictsAreBooleans
  <2>2. Record("11.02", ok, "done")
    <3>1. FinalsOk /\ ~FinalsCrash
      BY <1>1, HonestFinals DEF FinalsOk, FinalOk, FinalsCrash
    <3>2. Record("11.02", FinalsOk, "done")
      BY <1>9, <3>1 DEF CheckFinals
    <3> QED BY <2>1, <3>2, Zenon
  <2>3. ok
    BY <1>1, <2>1, HonestFinals
  <2> QED BY <1>4, <2>2, <2>3, KnownIds
<1>10. CASE UNCHANGED <<pc, report>>
  BY <1>10 DEF ReportOk, Failing
<1>11. ~CombineRaises
  BY <1>1, HonestWidths DEF CombineRaises, HonestEvidence
<1> QED BY <1>5, <1>6, <1>7, <1>8, <1>9, <1>10, <1>11 DEF Next, StartBox, VerifyPayload, vars

(* Completeness: evidence of honest components passes every check and      *)
(* raises nothing, for any number of components, ballot boxes and votes,   *)
(* and any order of the files (HonestAccepted).                            *)
THEOREM HonestChainAccepted == Spec => []HonestAccepted
<1>1. Init => HonestAccepted
  BY DEF Init, ReportInit, HonestAccepted, ReportOk, Failing
<1>2. Init => LoopInv
  BY InitLoopInv
<1>3. TypeOK /\ LoopInv /\ [Next]_vars => LoopInv'
  BY StepLoopInv
<1>4. TypeOK /\ LoopInv /\ HonestAccepted /\ [Next]_vars => HonestAccepted'
  BY StepHonest
<1> QED BY <1>1, <1>2, <1>3, <1>4, TypeCorrect, PTL DEF Spec
=============================================================================
