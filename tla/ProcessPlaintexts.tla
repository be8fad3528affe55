------------------------- MODULE ProcessPlaintexts --------------------------
(***************************************************************************)
(* process_plaintexts (plaintexts.py): the plaintexts of a ballot box are  *)
(* factored into the encoded voting options of its primes mapping table,   *)
(* and decoded (electoral_model.py, write_ins.py).  One step per plaintext *)
(* vote; a ValueError ends the run.                                        *)
(*                                                                         *)
(* A table entry has the fields                                            *)
(*                                                                         *)
(*   enc      encodedVotingOption, a prime                                 *)
(*   actual   actualVotingOption                                           *)
(*   corr     correctnessInformation: what the option is an answer to      *)
(*   kind     what the semanticInformation starts with                     *)
(***************************************************************************)
EXTENDS WriteIns, SequencesExt

CONSTANTS Inputs,   \* pairs of a table and the plaintext votes
          Words     \* what voters may write in

Kinds == {"BLANK", "NON_BLANK", "WRITE_IN"}

IsTable(t) ==
    /\ Len(t) \in Nat /\ DOMAIN t = 1..Len(t)
    /\ \A i \in DOMAIN t : t[i].enc \in Nat \ {0, 1} /\ t[i].kind \in Kinds

ASSUME InputsAssumption ==
    \A input \in Inputs :
      IsTable(input.table) /\ input.rows \in Seq(Seq(1..(P - 1)))
ASSUME WordsAssumption ==
    \A word \in Words : word \in Seq(0..(Base - 1)) /\ IsWord(word) /\ Fits(word)

VARIABLES table, rows,
          next,                       \* index of the next plaintext vote
          votes, decoded, writeIns,   \* ProcessPlaintextsOutput
          status                      \* "running", "returned" or the ValueError raised

vars == <<table, rows, next, votes, decoded, writeIns, status>>

-----------------------------------------------------------------------------
(* electoral_model.py                                                      *)

(* The entries of a kind, as places of the table.                          *)
OfKind(kind) == {i \in DOMAIN table : table[i].kind = kind}
Psi == Cardinality(OfKind("BLANK"))

(* A mistake: no place for the selections themselves.                      *)
DeltaOfWriteIns == Cardinality(OfKind("WRITE_IN"))
Delta == Cardinality(OfKind("WRITE_IN")) + 1

BlankCorrectness ==
    LET blanks == Kept(table, OfKind("BLANK")) IN [k \in DOMAIN blanks |-> blanks[k].corr]
WriteInOptions == {table[i].enc : i \in OfKind("WRITE_IN")}

(* Dictionaries over the table: a later entry replaces an earlier one.     *)
ActualOf(enc) ==
    table[CHOOSE i \in DOMAIN table :
            table[i].enc = enc /\ \A k \in DOMAIN table : table[k].enc = enc => k <= i].actual
CorrectnessOf(actual) ==
    table[CHOOSE i \in DOMAIN table :
            table[i].actual = actual /\ \A k \in DOMAIN table : table[k].actual = actual => k <= i].corr

ProductOf(numbers) == Product(numbers, DOMAIN numbers)

(* factorize raises unless the value is the product of as many different   *)
(* options of the table as there are blanks.                               *)
Dividing(value) == {i \in DOMAIN table : value % table[i].enc = 0}
Factors(value) ==
    LET dividing == Kept(table, Dividing(value)) IN [k \in DOMAIN dividing |-> dividing[k].enc]

(* A mistake: the product is not compared with the value.                  *)
FactorizesByCount(value) == Len(Factors(value)) = Psi
Factorizes(value) == Len(Factors(value)) = Psi /\ ProductOf(Factors(value)) = value

ActualOptions(encs) == [i \in DOMAIN encs |-> ActualOf(encs[i])]
CorrectnessInformation(actuals) == [i \in DOMAIN actuals |-> CorrectnessOf(actuals[i])]

(* decode_write_ins: the selected write-in options take the encoded        *)
(* write-ins in turn, of each of which as much is kept as is allowed for.  *)
Cut(word) == SubSeq(word, 1, IF Len(word) < MaxLength THEN Len(word) ELSE MaxLength)
SelectedWriteIns(encs) == {k \in DOMAIN encs : encs[k] \in WriteInOptions}
DecodeWriteIns(encs, encoded) ==
    IF encoded = <<>> THEN <<>>
    ELSE [k \in 1..Cardinality(SelectedWriteIns(encs)) |->
            Cut(QuadraticResidueToWriteIn(encoded[k]))]
NotEnoughWriteIns(encs, encoded) ==
    encoded # <<>> /\ Cardinality(SelectedWriteIns(encs)) > Len(encoded)

Ones == [k \in 1..Delta |-> 1]

-----------------------------------------------------------------------------
Raise(error) == status' = error /\ UNCHANGED <<table, rows, next, votes, decoded, writeIns>>

Init ==
    /\ \E input \in Inputs : table = input.table /\ rows = input.rows
    /\ next = 1
    /\ votes = <<>> /\ decoded = <<>> /\ writeIns = <<>>
    /\ status = "running"

(* The conditions on the arguments, before the loop.                       *)
Unfit == Len(rows) < 2 \/ Psi = 0

Refuse == status = "running" /\ next = 1 /\ Unfit /\ Raise("unfit arguments")

Looping == status = "running" /\ ~Unfit /\ next <= Len(rows)
Row == rows[next]

IsPadding(row) == row = Ones

Problem(row) ==
    IF Len(row) # Delta THEN "width"
    ELSE IF ~Factorizes(row[1]) THEN "does not factor"
    ELSE IF CorrectnessInformation(ActualOptions(Factors(row[1]))) # BlankCorrectness
         THEN "invalid combination"
    ELSE IF NotEnoughWriteIns(Factors(row[1]), Tail(row)) THEN "not enough write-ins"
    ELSE "none"

SkipPadding ==
    /\ Looping /\ Len(Row) = Delta /\ IsPadding(Row)
    /\ next' = next + 1
    /\ UNCHANGED <<table, rows, votes, decoded, writeIns, status>>

RejectVote ==
    /\ Looping /\ ~(Len(Row) = Delta /\ IsPadding(Row)) /\ Problem(Row) # "none"
    /\ Raise(Problem(Row))

DecodeVote ==
    /\ Looping /\ ~(Len(Row) = Delta /\ IsPadding(Row)) /\ Problem(Row) = "none"
    /\ LET encs == Factors(Row[1])
       IN  /\ votes' = Append(votes, encs)
           /\ decoded' = Append(decoded, ActualOptions(encs))
           /\ writeIns' = Append(writeIns, DecodeWriteIns(encs, Tail(Row)))
    /\ next' = next + 1
    /\ UNCHANGED <<table, rows, status>>

Return ==
    /\ status = "running" /\ ~Unfit /\ next > Len(rows)
    /\ status' = "returned"
    /\ UNCHANGED <<table, rows, next, votes, decoded, writeIns>>

Next == Refuse \/ SkipPadding \/ RejectVote \/ DecodeVote \/ Return

Spec == Init /\ [][Next]_vars /\ WF_vars(Next)

-----------------------------------------------------------------------------
(* Properties.                                                             *)

Errors == {"unfit arguments", "width", "does not factor", "invalid combination",
           "not enough write-ins"}

(* What 3.13 checks of a table: no option occurs twice.                    *)
Distinct ==
    \A i, k \in DOMAIN table :
      table[i].enc = table[k].enc \/ table[i].actual = table[k].actual => i = k

(* Soundness of a decoded vote: with the options of the table distinct     *)
(* (3.13), the n-th vote's options are different entries of the table      *)
(* whose product is the n-th plaintext that is no padding, and they answer *)
(* every question exactly as often as the table has blanks for it.  The    *)
(* code only compares two lists in the order of the table.                 *)
CastRows == Kept(rows, {k \in 1..(next - 1) : rows[k] # Ones})
Answers(encs, corr) ==
    Cardinality({i \in DOMAIN table : table[i].enc \in ToSet(encs) /\ table[i].corr = corr})
Blanks(corr) ==
    Cardinality({i \in DOMAIN table : table[i].kind = "BLANK" /\ table[i].corr = corr})

DecodedSound ==
    Distinct =>
      /\ Len(votes) = Len(CastRows)
      /\ \A n \in DOMAIN votes :
           /\ ProductOf(votes[n]) = CastRows[n][1]
           /\ Cardinality(ToSet(votes[n])) = Len(votes[n])
           /\ \A i \in DOMAIN table : Answers(votes[n], table[i].corr) = Blanks(table[i].corr)
           /\ \A k \in DOMAIN votes[n] :
                \E i \in DOMAIN table :
                  table[i].enc = votes[n][k] /\ table[i].actual = decoded[n][k]

(* Running out of encoded write-ins cannot happen with distinct options:   *)
(* delta leaves one place for each write-in option.                        *)
EnoughWriteIns == Distinct => status # "not enough write-ins"

(* What else is true of a table that was checked: the codes are primes     *)
(* (5.03), and the options of a question stand together.                   *)
PrimeCodes == \A i \in DOMAIN table : IsPrime(table[i].enc)
Contiguous ==
    \A i, k, l \in DOMAIN table :
      i < k /\ k < l /\ table[i].corr = table[l].corr => table[k].corr = table[i].corr

(* What a voter may cast on t: as many options for each question as it has *)
(* blanks, in the order of the table, and a word for each write-in option; *)
(* and how it is encoded.                                                  *)
WriteInPlaces(t) == {i \in DOMAIN t : t[i].kind = "WRITE_IN"}
Selections(t) ==
    {S \in SUBSET DOMAIN t : \A i \in DOMAIN t :
       Cardinality({k \in S : t[k].corr = t[i].corr})
         = Cardinality({k \in DOMAIN t : t[k].kind = "BLANK" /\ t[k].corr = t[i].corr})}
Writings(t, S) == [1..Cardinality(S \cap WriteInPlaces(t)) -> Words]
EncodeVote(t, S, words) ==
    LET options == Ascending(S)
    IN  <<ProductOf([k \in DOMAIN options |-> t[options[k]].enc])>>
          \o EncodeWriteIns(words, Cardinality(WriteInPlaces(t)))

(* Round trip: what a voter selected and wrote is what is published for    *)
(* the vote, words cut to the length allowed for, and a list of encoded    *)
(* votes and padding raises no error.                                      *)
Published(n, S, words) ==
    /\ decoded[n] = [k \in 1..Cardinality(S) |-> table[Ascending(S)[k]].actual]
    /\ writeIns[n] = [k \in DOMAIN words |-> Cut(words[k])]
IsCast(row) ==
    row = Ones \/ \E S \in Selections(table) : \E words \in Writings(table, S) :
                    row = EncodeVote(table, S, words)
RoundTrip ==
    (Distinct /\ PrimeCodes /\ Contiguous) =>
      /\ \A n \in DOMAIN votes : \A S \in Selections(table) : \A words \in Writings(table, S) :
           CastRows[n] = EncodeVote(table, S, words) => Published(n, S, words)
      /\ (Len(rows) >= 2 /\ Psi > 0 /\ \A k \in DOMAIN rows : IsCast(rows[k]))
           => status \notin Errors
=============================================================================
