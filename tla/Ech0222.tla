------------------------------ MODULE Ech0222 -------------------------------
(***************************************************************************)
(* The eCH-0222 file against the votes payloads (11.04).                   *)
(*                                                                         *)
(* A dataset has the fields                                                *)
(*                                                                         *)
(*   tables   the tables of the card sets: entries of an option, the       *)
(*            correctness information and the kind that the semantic       *)
(*            information begins with                                      *)
(*   votes    the votes payloads: decoded, a sequence of options for each  *)
(*            vote, and writeIns, a sequence of texts for each vote        *)
(*   xml      its raw data in document order                               *)
(*   noXml, broken    there is no file; it is no XML                       *)
(*                                                                         *)
(* Strings with | are sequences of their parts, texts of their words.  The *)
(* raw data of a question has question, cast (the element is there),       *)
(* nested and direct (where the answer may stand), votes (of no or one     *)
(* number) and noNumber (its text is none); that of an election has        *)
(* election, list and positions.                                           *)
(***************************************************************************)
EXTENDS Integers, FiniteSetsExt, SequencesExt

CONSTANT Datasets

None == ""   \* an element that is missing or has no text

VARIABLES d,             \* the dataset
          rest,          \* raw data still to be read
          selections, writeIns, emptyPositions,   \* what the file says: counters
          verdict        \* "reading", or the entry of 11.04

vars == <<d, rest, selections, writeIns, emptyPositions, verdict>>
counters == <<selections, writeIns, emptyPositions>>

-----------------------------------------------------------------------------
(* Counters.                                                               *)

NoCounts == [key \in {} |-> 0]
CountOf(counter, key) == IF key \in DOMAIN counter THEN counter[key] ELSE 0
Add(counter, key, n) ==
    [k \in DOMAIN counter \cup {key} |-> CountOf(counter, k) + (IF k = key THEN n ELSE 0)]
AddAll(counter, keys) == FoldLeft(LAMBDA c, key : Add(c, key, 1), counter, keys)
(* Nothing of the difference is positive; that counts what is negative on  *)
(* the right too.                                                          *)
Within(left, right) ==
    \A key \in DOMAIN left \cup DOMAIN right : CountOf(left, key) <= CountOf(right, key)

-----------------------------------------------------------------------------
(* _ech_canonical_selection: what an option is called in the file.  The    *)
(* last table with the option says what it is.  A mistake: empty positions *)
(* are called by their own ids.                                            *)
InfoOf(option) ==
    LET entries == SelectSeq(FlattenSeq(d.tables), LAMBDA entry : entry.option = option)
    IN  IF entries = <<>> THEN [option |-> option, correctness |-> <<None>>, kind |-> None]
        ELSE Last(entries)
WriteInMark == <<"__WRITE_IN__">>
EmptyMark == "__EMPTY__"
CanonicalById(option) ==
    IF InfoOf(option).kind = "writeIn" THEN WriteInMark ELSE SubSeq(option, 1, 2)
Canonical(option) ==
    LET info == InfoOf(option)
    IN  CASE info.kind = "writeIn" -> WriteInMark
          [] info.kind = "emptyPosition" ->
               <<EmptyMark, IF Len(info.correctness) > 1 THEN info.correctness[2] ELSE option[1]>>
          [] OTHER ->
               IF Len(info.correctness) > 1 /\ info.correctness[1] = "C" /\ Len(option) = 3
               THEN SubSeq(option, 1, 2) ELSE option

Normalized(text) ==
    LET words == SelectSeq(text, LAMBDA word : word # None)
    IN  IF words = <<>> THEN <<"-">> ELSE words

(* What the votes payloads say.                                            *)
Decoded == FlattenSeq(FlattenSeq([i \in DOMAIN d.votes |-> d.votes[i].decoded]))
CanonicalDecoded == [i \in DOMAIN Decoded |-> Canonical(Decoded[i])]
IsEmpty(canonical) == canonical[1] = EmptyMark
ExpectedSelections ==
    AddAll(NoCounts, SelectSeq(CanonicalDecoded, LAMBDA c : c # WriteInMark /\ ~IsEmpty(c)))
ExpectedEmpty ==
    LET empty == SelectSeq(CanonicalDecoded, IsEmpty)
    IN  AddAll(NoCounts, [i \in DOMAIN empty |-> empty[i][2]])
ExpectedWriteIns ==
    LET texts == FlattenSeq(FlattenSeq([i \in DOMAIN d.votes |-> d.votes[i].writeIns]))
    IN  AddAll(NoCounts, [i \in DOMAIN texts |-> Normalized(texts[i])])

-----------------------------------------------------------------------------
(* _extract_ech0222_content: all questions, then all elections.            *)

IsQuestion(data) == "question" \in DOMAIN data

Begin ==
    /\ rest = SelectSeq(d.xml, IsQuestion) \o SelectSeq(d.xml, LAMBDA data : ~IsQuestion(data))
    /\ selections = NoCounts /\ writeIns = NoCounts /\ emptyPositions = NoCounts
    /\ verdict = "reading"
Init == d \in Datasets /\ Begin

EndWith(result) == verdict' = result /\ UNCHANGED <<d, rest, counters>>

NoXml == verdict = "reading" /\ d.noXml /\ EndWith("passed")
NoVotes == verdict = "reading" /\ ~d.noXml /\ d.votes = <<>> /\ EndWith("failed")
ParseError == verdict = "reading" /\ ~d.noXml /\ d.votes # <<>> /\ d.broken /\ EndWith("failed")

Reading == verdict = "reading" /\ ~d.noXml /\ d.votes # <<>> /\ ~d.broken /\ rest # <<>>
Votes(data) == IF data.votes = <<>> THEN 1 ELSE data.votes[1]
AnswerOf(data) == IF data.nested # None THEN data.nested ELSE data.direct
SaysAnswer(data) == data.question # None /\ data.cast /\ AnswerOf(data) # None

NotANumber ==
    Reading /\ IsQuestion(Head(rest)) /\ SaysAnswer(Head(rest)) /\ Head(rest).noNumber /\ EndWith("failed")

CountQuestion(data) ==
    IF SaysAnswer(data) THEN Add(selections, <<data.question, AnswerOf(data)>>, Votes(data)) ELSE selections

ReadQuestion ==
    LET data == Head(rest)
    IN  /\ Reading /\ IsQuestion(data) /\ ~(SaysAnswer(data) /\ data.noNumber)
        /\ selections' = CountQuestion(data)
        /\ rest' = Tail(rest)
        /\ UNCHANGED <<d, writeIns, emptyPositions, verdict>>

(* A position that is empty counts as that, whatever else it says; with a  *)
(* candidate's id there is no write-in.                                    *)
ReadElection ==
    LET data == Head(rest)
        e == data.election
        filled == SelectSeq(data.positions, LAMBDA p : ~p.isEmpty /\ p.listed)
        empty == SelectSeq(data.positions, LAMBDA p : p.isEmpty)
        candidates == SelectSeq(filled, LAMBDA p : p.candidate # None)
        texts == SelectSeq(filled, LAMBDA p : p.candidate = None /\ \E i \in DOMAIN p.writeIn : p.writeIn[i] # None)
    IN  /\ Reading /\ ~IsQuestion(data)
        /\ IF e = None THEN UNCHANGED counters
           ELSE /\ selections' =
                     AddAll(selections, (IF data.list # None THEN <<<<e, data.list>>>> ELSE <<>>)
                                        \o [i \in DOMAIN candidates |-> <<e, candidates[i].candidate>>])
                /\ writeIns' = AddAll(writeIns, [i \in DOMAIN texts |-> Normalized(texts[i].writeIn)])
                /\ emptyPositions' = AddAll(emptyPositions, [i \in DOMAIN empty |-> e])
        /\ rest' = Tail(rest)
        /\ UNCHANGED <<d, verdict>>

(* More selections and empty positions than decoded are those of invalid   *)
(* ballots.  A mistake: so are more write-ins.                             *)
ContentOkWithMoreWriteIns ==
    /\ Within(ExpectedSelections, selections)
    /\ Within(ExpectedWriteIns, writeIns)
    /\ Within(ExpectedEmpty, emptyPositions)
ContentOk ==
    /\ Within(ExpectedSelections, selections)
    /\ Within(ExpectedWriteIns, writeIns) /\ Within(writeIns, ExpectedWriteIns)
    /\ Within(ExpectedEmpty, emptyPositions)

Compare ==
    /\ verdict = "reading" /\ ~d.noXml /\ d.votes # <<>> /\ ~d.broken /\ rest = <<>>
    /\ EndWith(IF ContentOk THEN "passed" ELSE "failed")

Next == NoXml \/ NoVotes \/ ParseError \/ NotANumber \/ ReadQuestion \/ ReadElection \/ Compare

Spec == Init /\ [][Next]_vars
=============================================================================
