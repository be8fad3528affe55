# TLA+ models of the independent Swiss Post verifier

The program reads the files of an election event and reports, check by check,
whether the setup (`verify_config_phase`) or the tally (`verify_tally`) can be
trusted. It is sequential: nothing runs concurrently and nothing is persisted.
What is hard about it is that no single check says what the report as a whole
is for. The verdict rests on some fifty checks over lists that other parties
wrote, in whatever order, with payloads missing, repeated or malformed; on a
loop that carries state from one payload to the next; on padding that is added
in one place and removed in another; and on exceptions, after which there is no
report at all. The models ask whether the checks *together* mean what a reader
of an ok report takes them to mean, and whether honest evidence is accepted.
Below the checks they look at what the verdicts rest on: the verifiers of
zero-knowledge proofs, the derivation of groups and commitment keys, hashes,
signatures, and which files are read at all.

Paths below are relative to `src/swisspost_independent_verifier/`.

## 1. Inventory

| Component | Code | State | Operations | What makes it hard | What makes it correct |
|---|---|---|---|---|---|
| Report | `result.py` | list of entries | `add`, `ok`, `failing` | a run may end early or by an exception | entries are only appended; `ok` is over all of them |
| Tally verification | `dataset.py` 105–133, 8.x, 10.x, 11.x | the report | 22 handlers | checks depend on each other's premises; dictionaries by node or ballot box keep the last payload | an ok report means the published votes are those that every node confirmed, one per card |
| Mix-net chain | `dataset.py` 568–579, 1324–1461, 1480–1553 | `previous_ciphertexts`, `failures`, the position in two nested loops | 8.02, 10.02, 10.03, 10.04, 11.02 | state carried across iterations and `continue`s; keys that depend on the node; decryptions verified elsewhere | the plaintexts are a permutation of the confirmed votes |
| Shuffle argument | `mixnet.py` 196–646 | none | `verify_shuffle_argument` and five sub-arguments | index arithmetic over matrices | accepts what an honest prover makes; its equations are those of the relation |
| Commitment key | `mixnet.py` 154–167 | `values`, `index`, `count` | one loop | rejection sampling close to the size of the group | distinct generators, and the loop can always end |
| Sigma proofs, parameters | `crypto.py` | a cache of parameters | verifiers, primality, `get_encryption_parameters` | lengths, ranges, members; sieving by residues | reject what is out of range, accept what is honest |
| Plaintext processing | `plaintexts.py`, `electoral_model.py` | three output lists | `process_plaintexts` and helpers | trial division against tables; order of lists | a decoded vote is what was voted; every valid ballot decodes |
| Write-in codec | `write_ins.py` | none | encode, decode | which of two square roots | round trip for every word that encodes |
| Configuration verification | `dataset.py` 78–103, 3.x, 5.x, C.01 | the report | 23 entries from 21 handlers | the same key, node or card in several lists | keys are the four components', one card per voter, tables decodable |
| Discovery and loading | `dataset.py` 58–76, 135–267 | the lists of labelled payloads, `missing_setup_files` | loaders | two roots that are chosen by what exists; aggregated file, single files or both; labels decide which checks apply | one dataset is read, no payload twice, and an accepted path tells the truth |
| Configuration XML, eCH-0222 | `dataset.py` 840–967, 1603–1757 | none | tree walks | order of ballots and options | triples in the order of the table; selections compared as multisets |
| Schemas | `schema.py` | stores of schemas | validation | recursion | the verdict of the schema |
| Signatures | `signatures.py` | certificates by signer | `verify_signature`, signed encodings | several files for one signer, validity in time, payloads that are signed in a normal form | what is accepted was signed, by the component it names, with a certificate valid at that moment |
| Hash contexts | `context.py`, `crypto.py` 45–68 | none | encodings | nesting and lengths | different values are encoded differently |
| Command line | `__main__.py` | none | runs one phase | – | – |

All components are called from `verify_config_phase` and `verify_tally`, in one
process; they share the payloads, which never change after loading, and the
report, to which each appends. The control components, the electoral board and
the setup component are outside of the repository: they wrote the files.

## 2. Modules

| Module | Models | Composed with |
|---|---|---|
| `Report` | the report and the control state `pc` of a phase: the id of the next check, `done` or `crashed` | extended by the phases |
| `ElGamal` | ciphertexts, keys, and what the proof verifiers accept, ideally | extended by `MixDecChain` |
| `MixDecChain` | 8.02, 10.03, 10.04, 10.02, 11.02 | `Report`, `ElGamal` |
| `MixDecPromise` | abstract specification: one verdict, accepted only if the tally is right | refined by `MixDecChain` (`KeepsPromise`) |
| `MixNet` | environment (external): components and board that mix, decrypt and publish, and what they and the files may get wrong | supplies the datasets of the tally |
| `VerifyTally` | all of `verify_tally` | extends `MixDecChain`, and is shown to refine it (`RunsChain`) |
| `Numbers` | lists in the order of numbers (`Ascending`), the entries of a list that a loop does not skip (`Kept`), primes, products of some numbers of a list | extended by `MixDecChain`, `WriteIns` and `VerifyConfig` |
| `WriteIns` | the codec | extended by `ProcessPlaintexts` |
| `ProcessPlaintexts` | `process_plaintexts` and the electoral model | – |
| `VerifyConfig` | all of `verify_config_phase` | `Report` |
| `DatasetLoad` | `FixtureDataset.__init__`: roots, loaders, labels; 1.01, 3.02, 3.03, 3.05, 3.06, 6.01, 8.02, 8.03, 8.05, 8.06 on what was loaded | `Report` |
| `Signatures` | the trust store file by file, and 2.x and 7.x signature by signature while time goes by | `Report` |
| `Group` | membership in the group, powers | extended by the two below |
| `SigmaProofs` | Schnorr, exponentiation, decryption and plaintext-equality proofs, `verify_decryptions` | – |
| `SubArguments` | the zero, single-value product, Hadamard and multi-exponentiation arguments | extended by `BayerGroth` |
| `BayerGroth` | `verify_shuffle_argument`: statements and challenges, one challenge per step | – |
| `BayerGrothProver` | environment (external): a prover that follows the protocol, for permutations and for what is none | supplies the arguments |
| `Parameters` | `get_encryption_parameters` and `get_small_prime_group_members`, one candidate per step | beside `CommitmentKey` in `MCDerivations` |
| `CommitmentKey` | `get_verifiable_commitment_key` | – |
| `HashContexts` | `recursive_hash`, `context.py`, what the challenges are hashed over | – |
| `ConfigTriples` | the options of a card set by the configuration XML (3.13) | beside `Ech0222` in `MCContents` |
| `Ech0222` | the eCH-0222 file against the decoded votes (11.04) | – |
| `MC*` | instances for TLC, the inputs they need, and properties of those inputs | |
| `*_proof` | lemmas and theorems | extend the module they are about |

`MCProofs` runs the four modules of proofs and hashes, `MCDerivations` the two
of derivations and `MCContents` the two of XML files side by side, one of
them in each behaviour: they share no state in the code either, so that a
behaviour of one has nothing to interleave with.

### How state and actions correspond to the code

*A phase.* The dataset (`d`, `c`) is a variable that no action changes; `Init`
takes it from the CONSTANT `Datasets` (`Configs`). Every handler
`_check_…` is one action: it appends its entry, or entries, and sets `pc` to the id of the
check that the phase calls next. `Crash(id)` is an exception that leaves the
phase. Messages (`detail`) are left out. Payloads have the fields that the code subscripts, except where a
model says otherwise: the parts of final payloads (`Lack`) and their ballot-box ids, card-set ids and node ids.
That `get_verifiable_commitment_key` raises, for a group with too few members, is not an
outcome of 10.04 here. A definition ending in `Ok` is the verdict of the handler; its comment
names the check. What honest evidence is
(`HonestEvidence`, `HonestTally`, `IsHonest`) is a predicate on the dataset, in
the module of the phase: the instances only have to contain some.

*10.04.* The loop is the exception to one action per handler, because it keeps
`previous_ciphertexts` (`prev`), `failures` (`fails`) and two positions
(`boxes`, and `cur` with `rest`) between iterations. `StartBox` is an iteration
of the outer loop up to the inner one, `VerifyPayload` an iteration of the
inner one, `CheckShuffles` the `report.add`. Positions are sets of indices:
the code walks `sorted(...)` lists, and `LeastOf` is the next of them by node
id and file order. `CombineRaises` is an iteration that ends in an exception: the keys of the
payload's node are of different lengths (`d.width` has the length of each, `KeysRaise`), and the exception leaves the phase.

*Cryptography.* In the chain a ciphertext is written with its exponents (`ElGamal`):
`gamma = g^r`, `phis = m * PROD pk_h^e[h]`, one exponent per key holder. What
components outside of the repository compute (`ReEncryption`, `Decryption`, `KeysFrom`) is there, too. This
makes multiplication, re-encryption and decryption what they are in the group,
without residues. Proofs are ideal there: a shuffle argument is its witness, and a
decryption proof the context (ballot box, node) it was made for. The equality of `gamma` and
all tests of lengths and widths are the code's. What the ideal verdicts stand
for is modelled in `SigmaProofs`, with residues in small groups, and in
`SubArguments` and `BayerGroth`, where group elements are logarithms modulo
Q, a commitment is the vector of its exponents (binding is assumed by this),
and a challenge is drawn after what it is hashed over. That the challenge *is*
over all of it is `HashContexts`, where SHA3 is injective and the encodings
are the code's. A part of an argument with a wrong length is refused by the
code before its challenge is derived, in the model with its verdict: the derivation has no effect.

*`process_plaintexts`.* One step per vote of the list; a `ValueError` is a
status. Group elements and primes are numbers.

*`VerifyConfig`.* Group elements are numbers modulo a small safe prime. The
result of `get_encryption_parameters(seed)` is the CONSTANT `Derived`, with
which the bit lengths and the form of the group are compared in one: p is prime and g
is 2 or 3 (`crypto.py` 136–145, and `FirstSafePrimeGroup`). What the
walk over the configuration XML yields is the field `configured` of a context.

*`DatasetLoad`.* A store is a set of files: tree, directory, family, the
number in the name, and the payloads. `Load` is one family of `__init__`;
roots are operators, because they depend on which files exist only.
A store has at most one XML file that a glob of the code matches beside those
with a fixed name: the code takes the first in file-system order.

*`Signatures`.* `LoadCertificates` and `LoadKeystores` take one file of the
sorted directory per step; `LoadRaises` is a file that does not parse.
`BuildChecks` makes the list of checks, `Verify` carries one out, and `Tick`
is the clock, which each verification reads anew. The names of the signers
that the checks ask for are all a store is kept of; RSA-PSS and the hash are ideal.
`Message` is the normal form the code signs: what it sorts stably is a sorted
sequence (`BySortKey`: equal keys keep their order), what it leaves out is not there.

*`Parameters`.* `Sieve` is one turn of the inner loop, `TestFails` and
`TestPasses` the Miller–Rabin tests, `Consider` one number of
`get_small_prime_group_members`. Numbers are the code's, for bit lengths of 8 to 16.

*`ConfigTriples`, `Ech0222`.* One step per vote or election group, and per raw
data of a question or an election. Options, which the code joins with `|`,
are sequences of their parts.

*The operators marked "a mistake"* beside a definition are how a plausible
slip would have written it. They are in no specification; each one is
there to show which property notices it (`mutants` in `PROJECT.json`).

## 3. Runs

All runs use `CHECK_DEADLOCK FALSE`, because a verification ends.

| Run | Instance | States | Properties |
|---|---|---|---|
| `MixDecChain_one` | N = 4, one ballot box of 0–3 votes; any one, and for two votes any two, of the five mixing steps deviate in 13 ways | 19 426 | `VerdictSound`, `PrevHoldsVotes`, `HonestAccepted`, and the refinement `KeepsPromise` |
| `MixDecChain_two` | N = 2, two ballot boxes, both file orders; one deviation, or one of 23 faults of the files and setup keys | 5 044 | `LoopVerdict`, `ChainInv` |
| `VerifyTally` | N = 4, one and two ballot boxes with valid, invalid and blank plaintexts; one deviation, one fault of the files, or one change that all nodes agree on | 13 615 | `AcceptedRight`, `CardsOnce`, `CrashExplained`, `HonestTallyAccepted`, and the refinement `RunsChain` of `MixDecChain` |
| `VerifyTally_missing` | as `VerifyTally` | – | violation of `MissingFilesReported`: the first finding |
| `ProcessPlaintexts` | P = 383, six tables with one or two questions, seats, blanks and write-ins; every ballot with words up to 4 characters over 3; odd rows | 8 476 | `DecodedSound`, `EnoughWriteIns`, `RoundTrip` |
| `VerifyConfig` | group of squares mod 359; honest setups in 7 layouts, all pairs of 14 lists of components, cards in every combination of directory, card set and list, tables, primes and selections | 25 764 | `KeysGenuine`, `CardsCountVoters`, `TablesDecodable`, `HonestConfigAccepted` |
| `DatasetLoad` | six layouts, alone and beside each other, 2 ballot boxes and card sets, 4 nodes; one file lost, broken, added, altered, renamed (also to a name that contains its id), repackaged, or two exchanged | 51 592 | `NoSecondCopy`, `PathsTruthful`, `OneTree`, `HonestDatasetAccepted` |
| `DatasetLoad_keys` | the aggregated layouts without faults | – | violation of `KeyListAccepted`: the second finding |
| `Signatures` | two components, setup and tally component; four good and twelve odd trust stores; one change to an item, a signature or the XML; times 0–2 | 290 902 | `AcceptedAsSigned`, `EveryCheckReported`, `HonestSignaturesAccepted`, `ExpiredRefused` |
| `Derivations` | the parameter search of 8 bits from every start, of 16 bits from four; commitment keys of P = 11 for all hashes, sizes 0–4, 12 turns of the loop (`MaxIndex`) | 2 283 | `FirstSafePrimeGroup`, `MembersInOrder`, `KeySound`, `LimitRight`, `SearchEnds` |
| `Proofs` | Q = 5 or 7; shuffles of 1–9 ciphertexts in one to three rows; any prover of small claims, all challenges; every pair of small hashed values | 489 188 | `Sound`, `HonestProversAccepted`, `VerdictByAlgebra`, `OfOneStatement`, `HashesApart` |
| `Contents` | configurations with votes and elections in every document order; two ballots of five, in one or two payloads, and one change to the file | 43 736 | `TriplesRight`, `VotesAreInFile`, `HonestFileAccepted` |

**The bounds.** Faults cancel each other, if at all, between neighbouring
components: hence two deviations in all pairs of steps. Carrying state over
needs two ballot boxes, one of them skipped or failed, in both orders of id
and file. 0, 1, 2 and 3 votes are the cases of the padding rule (2 votes are
not padded, 1 becomes 3) and of `MatrixColumnCount`. What holds beyond these
bounds is proved, below, for both phases, plaintexts, loading, signatures and the commitment key. In
`ProcessPlaintexts`, P is large enough that all ballots of the tables have
different products and a word of three characters fits; in `Derivations`
the group of the commitment key is small enough that the largest key exhausts it.

In `Derivations`, 8 bits give every residue of the start modulo 6 and starts
with several composites in a row for the sieve with four primes
(`PrimeCount`); among 16-bit starts there are such where one of the pair
passes the test and the other does not. In `Proofs` the number of challenges,
5 or 7, is larger than the number of roots that a false statement leaves a
prover (2m for the zero argument), and matrices of one row, which have no
Hadamard argument, of two and of three are all there. The challenges of
composed shuffles are drawn from three numbers, 0 among them
(`MCChallenges`). In `Signatures` a certificate may
begin, or end, between the first verification and the last one. One fault per store is
enough in `DatasetLoad` where a single check looks at each path; two files
exchanged are what counts do not notice.

**Fairness.** `WF` of the joint next-state action in
`Derivations`: a sequential process left running takes its next
step. Only `SearchEnds` uses it. The phases have no fairness: their loops run over finite
lists, and that these end is no property of this code. The loop of a commitment key is bounded by
`MaxIndex` and its end is not claimed: whether it comes is up to the
hash. What is claimed, and proved, is that some hash value always goes on (`LimitRight`).

**What the properties mean, precisely.**

* `VerdictSound`: if 8.02, 10.04, 10.02 and 11.02 pass, and the listed setup
  keys are the ones the components hold (`KeysGenuine`, which is what the
  configuration phase is for), then every final payload decrypts to a
  permutation of the votes confirmed at node 1. The components and the board
  may have done anything else. A ballot box that has confirmed votes but no
  shuffles, or shuffles but no final payload, is in no check of the five, and
  the property says nothing of it: a tally is right for the ballot boxes that
  it has final payloads of.
* `AcceptedRight`: an ok report of the whole phase with final payloads means that the
  published votes payloads are those of the same ballot boxes, each with the multiset of
  votes that *each* node confirmed. Without any final payloads the phase
  passes (11.01–11.03 say "no … present"), and nothing is said.
* `CardsOnce`: no two entries of any nodes are of one card, unless they are
  the same vote of the same ballot box at two nodes.
* `CrashExplained`: an exception comes only after a failing entry (an unknown
  ballot box makes 8.09 raise a `KeyError`, after 8.05 and 8.06 failed), or
  because of one of three mistakes that no earlier check of `verify_tally` looks for: setup payloads are
  missing; the keys of a node's remaining components and the board's are of different
  lengths, on which `combine_public_keys` raises a `ValueError` outside of the `try` of 10.04
  (`dataset.py:1437`; the lengths are compared by 3.11 and 3.12, in the other phase only); a
  final payload has no decryption proofs, which 11.02 subscripts (`dataset.py:1512`; 6.03 may
  report it, by a schema that is not in the repository). All that the tally's other
  payloads lack has been reported before it is tripped over. This is under the premise on fields and
  on `get_verifiable_commitment_key` in section 2. The case "missing verification-card-set
  context" of 10.04 is therefore never reached in the phase: 8.09 and 10.03
  raise before. `MixDecChain_two`, which has no 8.09, shows 10.03 doing so.
* `HonestConfigAccepted` is for CCR keys other than 1, as `verify_schnorr` refuses that
  statement (`crypto.py:241`), with proofs made for the group, the event and the node.
* `KeysGenuine` (of `VerifyConfig`) has a premise the code does not check: when the
  components' own payloads are present, 3.02 does not look at the setup's
  list, and a node that is in it twice would enter the product twice.
* `TablesDecodable` is for choices of at most `psiMax` options. That the
  number of selections of a table is at most `psiMax` is checked nowhere.
* `RoundTrip` is for tables as an accepted setup has them, with different prime
  codes and the options of a question beside each other. `Words` are any words of
  the alphabet that fit, and longer ones, which are cut (`Cut`).
* Honest components re-encrypt with randomness that leaves no 1 in a ciphertext, which the verifiers refuse
  (`HasOne`; `crypto.py:287`): one that cancels the randomness of a vote is among the deviations.
* `HonestAccepted`, `HonestTallyAccepted`, `HonestConfigAccepted`,
  `HonestDatasetAccepted`, `HonestSignaturesAccepted`, `HonestFileAccepted`,
  `HonestProversAccepted`: evidence made as the protocol says passes. These are
  what a check that is too strict, or a padding that is wrong by one, violates.
* `LoopVerdict`: the failures of 10.04 are those of judging every payload alone, against
  its predecessor by node id.
* `NoSecondCopy`: accepted evidence has no second file with a payload for
  the same node and ballot box, or card set, in the tree that is read and in
  places the layouts name. `PathsTruthful`: a node number or a card set's directory in the path of an
  accepted file is the payload's own. For ballot boxes this is so only if no other listed
  id is part of the path (`Unmistakable`): 8.06 asks whether the payload's id occurs
  anywhere in the label (`dataset.py:1091`), so a payload of ballot box `b1` is accepted in a
  directory `b12`, as the run has it, or in that of a ballot box with a longer id. Which texts have which ids in them is the CONSTANT
  `Occurs`, with the one assumption that a directory's name is part of the paths in it. `OneTree`: the setup files are of
  one tree, and the tally files are; they may be two different ones (`D2`,
  `D3`), which is the exchange layout.
* `AcceptedAsSigned`: with a trust store whose last file for each signer is
  genuine, and all payloads in one group (3.01, 8.01), every accepted payload is one that its own
  component signed, for this event and ballot box, up to the order of what is
  sorted before it is signed. A store in which the last file for a signer is
  somebody else's is trusted as it is.
* `ExpiredRefused` is an action property: at the moment of an accepting
  entry, a certificate of the directory with the signature's key has begun and has not
  reached its end, which is exclusive.
* `Sound`: for the zero, product, multi-exponentiation and Hadamard
  arguments, a prover who is committed and can answer more challenges than
  the degree of the argument's polynomial has told the truth; for the four
  proofs of knowledge, more than one. This is the property from which
  knowledge soundness follows; the random oracle is not modelled. For the
  composed argument, committed places that are no permutation meet the
  product for few y and z only.
* `VerdictByAlgebra`: of the provers of `BayerGrothProver`, honest or not,
  exactly those are accepted whose products agree at the challenges drawn.
* `OfOneStatement`: a proof that passes for one statement and context
  passes for no other. Of a longer key only the elements in use matter.
* `HashesApart`: different contexts, event contexts and arguments have
  different hashes, except event contexts with the same card sets in another
  order, which have the same. Card sets with the same id are not told to be in order.
* `FirstSafePrimeGroup`: the group is the first pair of primes after the start and no
  earlier one is passed by. `MembersInOrder`: the members are the first
  primes from 5 on that are squares, and the list is refused only if there are too few.
* `TriplesRight` needs candidates that differ within an election for the
  order. Positions that are equal keep the order of the document.
* `VotesAreInFile`: a file that passes 11.04 has every decoded vote; the
  other direction holds for write-ins only, because the file also has
  invalid ballots. A list and a candidate of an election are
  written alike in the code (election, then id), so no candidate may have the id of a list
  for the property to tell them apart.
* CCM Schnorr proofs are compared (3.10) but not verified; 5.04 verifies the
  CCR ones only. The models do as the code does.

**Findings.** `VerifyTally_missing`: without the election context or the setup
public keys, `verify_tally` ends with a `TypeError` in 8.01
(`dataset.py:515`), where `DEVELOPMENT_ISSUES.md:129` and `:140` have missing
files as a case for the report; `verify_config_phase` returns early
(`dataset.py:81`). `DatasetLoad_keys`: the keys of all components in one
`controlComponentPublicKeysPayloads.json`, which the loader reads
(`dataset.py:186`) and labels with the position from 0, fail 3.03, which looks for
the node id, from 1, in the label (`dataset.py:564`). `DEVELOPMENT_ISSUES.md:45`
speaks of loading both layouts, and `:46` of file-name checks where paths carry ids.

## 4. Proofs

Eight modules hold proofs. Each theorem is about every value of the constants, under
the assumptions named in the module it extends.

**`Numbers_proof`.** A finite set of naturals can be listed in order: every rank is
taken, by one element (`RankExists`, `RanksDiffer`), so `Ascending` is a
bijection from 1..n (`AscendingLists`), a greater number comes last and moves
none of the others (`AscendingAppends`), and appending to a list appends to
what a loop keeps of it (`KeptAppends`). `SameCount`: what a bijection carries
over is as much there as here. These replace induction in all modules that count.
Where induction itself is needed, a least counterexample stands in for it
(`LeastNatural`): so a function defined by recursion does what each of its steps
says (`Recursion`, `ProductPlaces`). Of products: a prime that divides one divides a factor
(`PrimeOfFactor`, by the least multiple; `PrimeOfProduct`), hence different
primes have different products (`FactorIsPlace`), and no places of an ascending list have
a larger product than as many of the last ones (`LargestProduct`). Of remainders:
factors may be reduced first (`Reduced`), and equal remainders differ by a multiple.

**`MixDecChain_proof`** holds for every N, every set of ballot boxes and every
dataset of the declared shape (`NAssumption`, `MsgAssumption`,
`BoxAssumption`, `DatasetsAssumption`): whatever the lengths of the keys and the parts a final payload lacks.

* `TypeCorrect`: `Spec => []TypeOK`.
* `ChainInvariant`: `Spec => []ChainInv`. `VerdictSound` is not inductive: in the
  middle of 10.04 nothing has passed. `ChainInv` says what the loop has got so
  far, *given* what the other checks will find (`Judged`: node ids,
  decryptions, setup keys, all of them functions of the dataset): as long as there
  are no failures, every payload passed leaves the votes for the holders after
  its node, `rest` is what is left from some node j on, and `prev` holds the
  votes for the holders from j on. The step is `PayloadKeepsVotes`, from
  `ShuffleKeepsVotes` (permutations compose; the combined key of j.. has
  exponent 1 for the holders that remain and 0 otherwise,
  `CombinedKeyIsRemaining`) and `DecryptionTakesOneHolder`. `NextNode`
  shows that the next payload by node id is the one of node j, which needs 8.02.
* `Soundness`: `Spec => []VerdictSound`, from the invariant and
  `BoardBaresVotes`.
* `ChainInStep`: `Spec => []PrevHoldsVotes`.
* `HonestChainAccepted`: `Spec => []HonestAccepted`. On honest evidence every payload, judged
  by itself, passes: a component's output is a re-encryption under the keys that
  remain, padding included, so the next one's input has the exponents its keys ask
  for; and the loop, which finds what judging each alone finds (`LoopInv`), has no
  failures. No lookup raises, because each ballot box has its context and its final payload.
* `LoopJudgesEachAlone`: `Spec => []LoopVerdict`. The invariant `LoopInv`
  says which ballot boxes and payloads are behind the loop, that `fails` is
  what judging these alone finds, and that `prev` is what the predecessor of
  the next payload published, or the confirmed votes.
* `PromiseKept`: `Spec => KeepsPromise`. Initial states map to
  initial states, and every step to a step of `MixDecPromise` or a stutter:
  a verdict is given by the last check only (`DoneInOrder`), and `Accept` has its guard by
  `ChainInvariant` (`DoneIsRight`).

**`VerifyTally_proof`** (assumptions of `MixDecChain` and `VerifyTally`).

* `TallyInvariant`: `TallySpec => []TallyInv`: an entry of 8.02, 8.05, 8.08,
  8.11, 10.01, 10.04, 10.02, 11.02 or 11.03 says what the check found
  (`EntriesTrue`), a check that the run has gone past has its entry or the
  report has a failure (`NoneSkipped`), and while 10.04 runs the chain's loop
  is where `MixDecChain_proof` has it (`LoopInPlace`). `CrashExplained` is a
  part of it; the others are why it is inductive: the early return of 6.01 and
  the exceptions skip checks, but only after a failure.
* `CrashesExplained`: `TallySpec => []CrashExplained`, whatever the lengths of the keys. Each exception is
  traced to what it trips over: that of 10.04 to keys that do not combine
  (`CombineRaisesFound`), that of 11.02 to a final payload that 8.11 has found incomplete, or to
  missing proofs (`FinalsCrashFound`), the others to entries of earlier checks.
* `OneCardOneVote`: `TallySpec => []CardsOnce`: with the invariant, an ok report
  has the verdicts of 8.02, 8.05, 8.08, 8.11 and 10.01. From them: every entry
  of any node has an equal one at node 1 of the same ballot box, of whose
  cards none occurs twice; and by counting, none occurs twice at the other node either.
* `HonestTallyPasses`: `TallySpec => []HonestTallyAccepted`: each of the other handlers,
  one lemma for each, finds what it looks for in an honest tally and does not raise. For 10.04
  the invariant `LoopPlace` says that up to it nothing is judged, and while it runs the loop
  is where `MixDecChain_proof` has it (`LoopSoFar`), so that what it has judged of honest
  evidence is no failure.
* `PublishedAsConfirmed`: `TallySpec => []AcceptedRight`, the end-to-end
  statement. 10.04, 10.02 and 11.02 make the final plaintexts a permutation of
  the votes confirmed at node 1, by the argument of `Soundness`; with equal
  counts and 11.03 the published votes are those plaintexts that are not `One`
  (`CastKeeps`: skipping rows keeps the others as often); 8.11 has
  confirmed no `One`, so nothing but padding is skipped; and 8.08 with 10.01 is a
  bijection between the votes of node 1 and those of any other node
  (`SameMessages`), so that each node confirmed each vote as often. Nothing is
  assumed of the components, except that the setup keys are the ones they hold (`KeysGenuine`).
* `ChainImplemented`: `TallySpec => RunsChain`: with the report reduced to the
  entries of the chain's checks (`Kept`) and `pc` to the next of them,
  every step of the phase is a step of `MixDecChain` or a stutter.
  It needs that a phase that is past a check of the chain has its entry,
  and that a check yet to come has none (`ChainInOrder`): then an entry that is recorded comes
  last among those kept.

**`VerifyConfig_proof`** (assumptions `DerivedAssumption`: the derived group
has a prime p = 2q + 1 and the generator 2 or 3; `ConfigsAssumption`: payload lists are lists, with
fields).

* `ConfigInvariant`: `Spec => []ConfigInv`: an entry of any check says what
  the check found, passed or failed (`ReportTruthful`), a report without failure lacks no entry of a handler
  that is behind (`NoneSkipped`), and only keys of different lengths raise.
* `CardsMatchVoters`: `Spec => []CardsCountVoters`. 3.05, 3.06 and 3.07 give each
  voter of each context a card of its own, and each listed card a voter: a
  bijection from the voters, whose number 3.14 compares with the total (`CardOfVoter`).
* `ElectionKeyOfPublished`: `Spec => []KeysGenuine`. An accepted setup lists exactly the
  four nodes (`FourNodes`), the keys it multiplies are those which the nodes published
  (`PublishedOfSetup`), and all of them and the board's are members of the group of the seed. The
  fold over the setup's list is the product of its four factors (`ProductOfFour`), which is
  the one in the order of the nodes, since four places that differ are a permutation (`Permuted`).
* `AcceptedTablesDecode`: `Spec => []TablesDecodable`. The small primes of 5.02 are different primes in
  ascending order (`SmallPrimesAscend`), every option is encoded by one of them
  (`CodesAreSmallPrimes`), so a selection is a set of places of that list, as large
  (`ChosenPrimes`). Its product is at most that of the `psiMax` last ones
  (`SelectionBelowP`), and belongs to no other set of places (`FactorIsPlace`).
* `HonestSetupsAccepted`: `Spec => []HonestConfigAccepted`: every check finds what it looks for in an
  honest setup, one lemma for the checks of a kind, and by `ReportTruthful` none then fails
  (`AllFoundAccepted`). C.01 also looks at the combined keys: the group is closed under
  multiplication modulo a prime (`TimesMember`). An ascending list without gaps is what is
  generated (`AscendingOfList`), and again `CardOfVoter` has the total right.

**`ProcessPlaintexts_proof`** holds for every table and list of rows of positive
residues (`InputsAssumption`: a table is a list of entries with an encoded option above 1 and a kind).

* `PlaintextInvariant`: `Spec => []PlaintextInv`: the votes decoded so far are, one for
  one and in order, those of the plaintexts passed that are no padding
  (`OneVoteEach`, by `AscendingAppends`): the factors of the first element, with that product and with
  the correctness information of the blanks. `EnoughWriteIns` is a part of it.
* `WriteInsSuffice`: `Spec => []EnoughWriteIns`. Selected write-in options are different
  places of the table, so no more than `Delta - 1`, which is what the
  row has beside its first element (`PlacesSuffice`, an injection).
* `VotesSound`: `Spec => []DecodedSound`. With distinct options the dictionaries give
  each option its own entry (`OwnEntry`), no factor is there twice
  (`FactorsDiffer`), and the two lists that the code compares are listings of the dividing options
  and of the blanks, so that each question has as many of one as of the other (`AnswersCounted`).
* `VotesReturn`: `Spec => []RoundTrip`, in three parts. *The codec*: powers are products (`Fermat` by
  counting the multiples of a residue), so for P = 3 mod 4 the value raised to (P + 1) / 4 is
  a root of every square (`RootOfSquare`), the word's number is the smaller one of the two, because
  it fits, and digits are read back (`WordReturns`). *The vote*: only what was selected divides
  the product (`CastFactors`). *Its acceptance*: the code compares two lists, entry by
  entry; that a selection with as many options for each question as blanks gives equal ones needs the
  questions to stand together (`SameClasses`, by counting in sets closed under being of
  one question). `CastInv` keeps for the whole list that no cast row has ended the loop.

**`DatasetLoad_proof`** (`StoresAssumption`: a store is a finite set of files, one per path
but for the two families with free names; `IdsAssumption`; `OccursAssumption`).

* `Inductive` (`LoadInv`: loaded payloads are of files that
  the family's loader reads) and `OneDataset`: `Spec => []OneTree`, because every loader reads
  under the one root of its phase (`ReadsOwnTree`).
* `LoadedIsRead`: `Spec => []FoundInv`: the other inclusion, too: all that a loader reads is loaded
  and none of it broken (`LoadedAll`), and in a report without failure every check that is behind found what it looks for.
* `NothingTwice`: `Spec => []NoSecondCopy`. Two payloads for one node and
  ballot box would be two items of a list whose length and
  node ids the checks compare (8.02, 8.03, 3.02, 3.03); where they are the same item, the label gives the file.
* `PathsTellTheTruth`: `Spec => []PathsTruthful`, for any `Occurs`: 8.06 has the payload's id in the path,
  and where the path has no other listed one it is the directory's.
* `HonestLayoutsAccepted`: `Spec => []HonestDatasetAccepted`. `HonestSetup` and `HonestTally` say
  what an honest tree holds, each family file by file or as one list, whatever
  else lies in other trees. Such a tree is the root that is found (`SetupTreeFound`, `TallyTreeFound`), its loaders look
  at every file of it (`SetupRead`, `TallyRead`), so that each node, card set and
  ballot box comes exactly once (`OneByOneOnce`, `AggregatedOnce`), four per ballot box
  (`FourOfEachOnce`), and every check finds what it looks for. `HonestLayouts`, which TLC
  evaluates, has the six layouts of the run honest. A list of the components' keys
  is left out of the definition: it is the second finding.

**`Signatures_proof`** (`DirectoriesAssumption`, `EvidenceAssumption`,
`OriginalsAssumption`: the shapes of a directory and of payloads; `IdealSignatures`: a
signature that a signer's key verifies is one the signer made, over the normal form of a payload of its own).

* `TypeCorrect` (the store holds only certificates of the
  directory, in whatever order files speak for a signer) and from it
  `NoneAcceptedExpired`: `Spec => ExpiredRefused`.
* `LastFileCounts`: `Spec => []StoreInv`: while the two loops run, the store has for each signer the
  certificate of the last file so far that names it, keystores after
  certificates (`Says`, `Later`).
* `NothingForged`: `Spec => []AcceptedAsSigned`. An entry that is ok is a signature
  verified with the store's certificate, hence with the last file's, which is
  genuine by the premise; `IdealSignatures` gives the signed payload, and the lemmas on the normal
  form that two payloads with one form and one context agree in node, ballot box,
  event and, up to the order of what is stably sorted, content.
* `OneVerdictEach`: `Spec => []EveryCheckReported`. `CountInv` counts the entries of a
  family against its payloads before `next`; families with none have their entry when the list of checks is built.
* `HonestSignersAccepted`: `Spec => []HonestSignaturesAccepted`: payloads signed by their components, with a
  store whose last file for each signer has its certificate, valid from the
  start until `EndOfTime` (`EndOfTimeAssumption`: a natural number). By `LastFileCounts` it is the one that is used, whatever the files
  before it say (`HonestCertificate`); and parts with different sort keys have one sorted order, in
  whatever order they come (`SortedAlike`), so that the message is the one that was signed (`SignedAlike`).

**`CommitmentKey_proof`** holds for every group (`GroupAssumption`: the squares of
1..Q are different, and g is one of them other than 1) and every set of sizes. `Inductive`: the values drawn are
`count` different elements of the Q − 2 free squares. From it, by counting,
`KeysSound` and `LimitIsRight`: with nu at most Q − 3 and count at most nu one free
square is left, and no size is refused that has a key.

**Model-checked only**, and why:

* `FirstSafePrimeGroup`, `MembersInOrder`: the primality tests are powers, computed by recursive functions.
* `Sound`, `VerdictByAlgebra`, `OfOneStatement`: polynomial identities over
  sums of variable length, and the number of their roots.
* `HashesApart`: injectivity of nested encodings, an induction over their depth.
* `TriplesRight`, `VotesAreInFile`: what folds over documents collect.
* `HonestFileAccepted`, `HonestProversAccepted`:
  acceptance of what `MCContents` and `BayerGrothProver` build as honest.

**Out of the prover's reach**: liveness under fairness (`SearchEnds`) and ENABLED; what folds and recursive functions
compute for every input. No module uses RECURSIVE operators.

## 5. Not modelled

* **Schemas** (`schema.py`; 1.02, 1.03, 6.02, 6.03, 6.04, and 490–512 of `dataset.py`). A JSON-schema walker and a
  wrapper of an XML-schema library, over schema files that are not in this repository:
  pure functions of one document in a language of its own. The verdict is an input (`badForm`).
* **`__main__.py`** parses arguments, runs a phase and prints; it has no state.
* **`_recursive_hash_of_length`** (stretching a hash to a bit length) and
  SHA3 itself; a hash to a number is a CONSTANT function or any number.
* **Metadata checks** 8.01 and 8.04: comparisons of one field of
  each payload with the context. Their verdict is an input of the phase
  (`badForm`); the exception of 8.01 is modelled.
* **Wording**: messages of entries, the printed report, how a signature's
  fields are laid out as nested tuples, and how the auxiliary information of a proof is
  flattened. What the two flattened forms are over is modelled.

`VerifyTally` and `VerifyConfig` take the datasets as loaded, and the
authenticity checks as in a run without a trust store; `DatasetLoad` and
`Signatures` model loading and authenticity on their own. One module of all of them would
have the product of their inputs and no new interaction: loading ends before a phase
begins, and no check reads what a signature check wrote.

What would come next: honest eCH-0222 files as a predicate in `Contents`, like those of the
phases, datasets and trust stores, so that their acceptance can be a theorem as well;
and `KeySound` carried over to the sizes that 10.04 asks for.
