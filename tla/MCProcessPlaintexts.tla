------------------------ MODULE MCProcessPlaintexts -------------------------
(* Instances of ProcessPlaintexts for TLC: small tables, and plaintexts    *)
(* that voters encoded, padding, and others.                               *)
EXTENDS ProcessPlaintexts

E(enc, corr, kind) == [enc |-> enc, actual |-> enc + 100, corr |-> corr, kind |-> kind]

(* A vote with two questions; an election with one list-free seat that can *)
(* be written in, and a question; an election with two seats.              *)
TwoQuestions == <<E(5, "q1", "NON_BLANK"), E(7, "q1", "BLANK"),
                  E(11, "q2", "NON_BLANK"), E(13, "q2", "BLANK")>>
OneSeat == <<E(5, "q1", "NON_BLANK"), E(7, "q1", "BLANK"), E(11, "seat", "NON_BLANK"),
             E(13, "seat", "BLANK"), E(17, "seat", "WRITE_IN")>>
TwoSeats == <<E(5, "seat", "NON_BLANK"), E(7, "seat", "BLANK"), E(11, "seat", "BLANK"),
              E(13, "seat", "WRITE_IN"), E(17, "seat", "WRITE_IN")>>
Interleaved == <<E(5, "q1", "BLANK"), E(7, "q2", "BLANK"), E(11, "q1", "NON_BLANK"),
                 E(13, "q2", "NON_BLANK")>>
NoBlanks == <<E(5, "q1", "NON_BLANK")>>
TwiceEncoded == <<E(5, "seat", "WRITE_IN"), E(5, "seat", "NON_BLANK"), E(7, "seat", "BLANK"),
                  E(11, "seat", "BLANK")>>

Tables == {TwoQuestions, OneSeat, TwoSeats, Interleaved, NoBlanks, TwiceEncoded}

(* The words a voter may write in: those the encoding accepts.             *)
Candidates == {<<>>, <<0, 1>>, <<1>>, <<2>>, <<1, 0>>, <<1, 2>>, <<2, 1>>, <<2, 1, 2>>, <<1, 0, 0, 0>>}
MCWords == {w \in Candidates : IsWord(w) /\ Fits(w)}

Cast(t, words) ==
    UNION {{EncodeVote(t, S, w) : w \in [1..Cardinality(S \cap WriteInPlaces(t)) -> words]} :
             S \in Selections(t)}

Places(t) == Cardinality(WriteInPlaces(t))
Padding(t) == [k \in 1..(Places(t) + 1) |-> 1]

(* Rows nobody should have cast: both answers to a question, the same      *)
(* option twice, a number of no option, a word as long as P allows, a row  *)
(* of another width.                                                       *)
OddRows(t) ==
    LET Others == [k \in 1..Places(t) |-> 4]
    IN  {<<n>> \o Others : n \in {1, 2, 25, 35, 55, 65, 77, 85, 91, 175}}
          \cup {<<35, 1, 1, 1>>, Others}
          \cup (IF Places(t) = 0 THEN {} ELSE {<<13 * 17>> \o Tail(Others)})
          \cup {<<t[1].enc * t[Len(t)].enc>> \o [k \in 1..Places(t) |-> P - 3]}

Rows(t) == Cast(t, {<<1>>, <<2, 1>>}) \cup {Padding(t)} \cup OddRows(t)

InputsOf(t) ==
    {[table |-> t, rows |-> r] : r \in {<<>>} \cup {<<a>> : a \in Rows(t)}}
      \cup {[table |-> t, rows |-> <<a, b>>] : a, b \in Rows(t)}
      \cup {[table |-> t, rows |-> <<a, Padding(t), Padding(t)>>] : a \in Cast(t, MCWords)}

AllInputs == UNION {InputsOf(t) : t \in Tables}
=============================================================================
