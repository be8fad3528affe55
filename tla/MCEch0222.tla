----------------------------- MODULE MCEch0222 ------------------------------
(* Datasets of Ech0222 for TLC: the votes payloads of up to two of the      *)
(* ballots below, and the file that says the same, with the raw data of     *)
(* invalid ballots, or with one change to it.                               *)
EXTENDS Ech0222

Entry(option, correctness, kind) == [option |-> option, correctness |-> correctness, kind |-> kind]
QuestionTable == <<Entry(<<"q", "yes">>, <<"q">>, "other"), Entry(<<"q", "no">>, <<"q">>, "other")>>
ElectionTable ==
    <<Entry(<<"e", "l">>, <<"L", "e">>, "other"),
      Entry(<<"e", "c1", 0>>, <<"C", "e">>, "other"), Entry(<<"e", "c1", 1>>, <<"C", "e">>, "other"),
      Entry(<<"e", "c2", 0>>, <<"C", "e">>, "other"), Entry(<<"f", "c1", 0>>, <<"C", "f">>, "other"),
      Entry(<<"e", "x1">>, <<"C", "e">>, "emptyPosition"), Entry(<<"e", "x2">>, <<"C", "e">>, "emptyPosition"),
      Entry(<<"f", "x1">>, <<"C", "f">>, "emptyPosition"), Entry(<<"e", "w1">>, <<"C", "e">>, "writeIn")>>

(* A ballot as it is decoded and as the file has it.                       *)
Ballot(decoded, writeInTexts, raw) == [decoded |-> decoded, writeIns |-> writeInTexts, raw |-> raw]
Question(answer, nested, n) ==
    [question |-> "q", cast |-> TRUE, nested |-> IF nested THEN answer ELSE None,
     direct |-> IF nested THEN None ELSE answer, votes |-> n, noNumber |-> FALSE]
Election(id, list, positions) == [election |-> id, list |-> list, positions |-> positions]
Candidate(id) == [isEmpty |-> FALSE, listed |-> TRUE, candidate |-> id, writeIn |-> <<>>]
EmptyPlace == [Candidate(None) EXCEPT !.isEmpty = TRUE, !.listed = FALSE]
WriteIn(words) == [Candidate(None) EXCEPT !.writeIn = words]

Ballots ==
    {Ballot(<<<<"q", "yes">>>>, <<>>, <<Question("yes", TRUE, <<>>)>>),
     Ballot(<<<<"q", "no">>, <<"e", "l">>, <<"e", "c1", 0>>, <<"e", "c1", 1>>>>, <<>>,
            <<Election("e", "l", <<Candidate("c1"), Candidate("c1")>>), Question("no", FALSE, <<1>>)>>),
     Ballot(<<<<"e", "c2", 0>>, <<"e", "w1">>>>, <<<<"ann", "lee">>>>,
            <<Election("e", None, <<Candidate("c2"), WriteIn(<<"ann", "", "lee">>)>>)>>),
     Ballot(<<<<"e", "x1">>, <<"e", "x2">>, <<"f", "c1", 0>>>>, <<>>,
            <<Election("e", None, <<EmptyPlace, EmptyPlace>>), Election("f", None, <<Candidate("c1")>>)>>),
     Ballot(<<<<"e", "w1">>, <<"e", "x1">>, <<"f", "x1">>>>, <<<<"">>>>,
            <<Election("e", None, <<WriteIn(<<"-">>), EmptyPlace>>), Election("f", None, <<EmptyPlace>>)>>)}

Payload(ballots) ==
    [decoded |-> [i \in DOMAIN ballots |-> ballots[i].decoded],
     writeIns |-> [i \in DOMAIN ballots |-> ballots[i].writeIns]]
Dataset(tables, ballots, votes) ==
    [tables |-> tables, votes |-> votes, xml |-> FlattenSeq([i \in DOMAIN ballots |-> ballots[i].raw]),
     noXml |-> FALSE, broken |-> FALSE, honest |-> TRUE]
Tables == {<<QuestionTable, ElectionTable>>, <<ElectionTable, QuestionTable \o ElectionTable>>}
WithVotes ==
    UNION {{Dataset(tables, <<b1, b2>>, votes) : votes \in {<<Payload(<<b1, b2>>)>>, <<Payload(<<b1>>), Payload(<<b2>>)>>}} :
           tables \in Tables, b1 \in Ballots, b2 \in Ballots}
WithInvalid == {[s EXCEPT !.xml = @ \o <<Question("no", TRUE, <<>>), Election("e", None, <<Candidate("c1"), EmptyPlace>>)>>] :
                  s \in WithVotes}

(* One change to the file.                                                 *)
Edits(data) ==
    IF IsQuestion(data)
    THEN {[data EXCEPT !.nested = "yes"], [data EXCEPT !.direct = "no"], [data EXCEPT !.votes = <<0>>],
          [data EXCEPT !.votes = <<2>>], [data EXCEPT !.votes = <<-1>>], [data EXCEPT !.noNumber = TRUE],
          [data EXCEPT !.question = None], [data EXCEPT !.nested = None, !.direct = None], [data EXCEPT !.cast = FALSE]}
    ELSE {[data EXCEPT !.election = id] : id \in {"e", "f", None}}
         \cup {[data EXCEPT !.list = list] : list \in {"l", None}}
         \cup {[data EXCEPT !.positions[k] = p] : k \in DOMAIN data.positions,
                 p \in {Candidate("c1"), Candidate("c2"), EmptyPlace, WriteIn(<<"ann", "lee">>), WriteIn(<<"">>),
                        [EmptyPlace EXCEPT !.isEmpty = FALSE],
                        [Candidate("c1") EXCEPT !.writeIn = <<"ann", "lee">>], [Candidate("c2") EXCEPT !.isEmpty = TRUE]}}
Changed(s) ==
    {[s EXCEPT !.xml = RemoveAt(@, i), !.honest = FALSE] : i \in DOMAIN s.xml}
    \cup {[s EXCEPT !.xml = Append(@, @[i]), !.honest = FALSE] : i \in DOMAIN s.xml}
    \cup UNION {{[s EXCEPT !.xml[i] = data, !.honest = FALSE] : data \in Edits(s.xml[i])} : i \in DOMAIN s.xml}
    \cup {[s EXCEPT !.votes = <<>>, !.honest = FALSE], [s EXCEPT !.broken = TRUE, !.honest = FALSE],
          [s EXCEPT !.noXml = TRUE], [s EXCEPT !.votes = Tail(@), !.honest = FALSE]}
MCDatasets == WithVotes \cup WithInvalid \cup UNION {Changed(s) : s \in WithVotes}

-----------------------------------------------------------------------------
(* What the file and the votes say, counted one by one.                    *)
Times(s, Test(_)) == Cardinality({i \in DOMAIN s : Test(s[i])})
Elections(id) == SelectSeq(d.xml, LAMBDA data : ~IsQuestion(data) /\ data.election = id)
PlacesOf(id) == FlattenSeq([i \in DOMAIN Elections(id) |-> Elections(id)[i].positions])
AllPlaces == FlattenSeq(<<PlacesOf("e"), PlacesOf("f")>>)
AnswerVotes(answer) ==
    MapThenSumSet(LAMBDA i : Votes(d.xml[i]),
                  {i \in DOMAIN d.xml : /\ IsQuestion(d.xml[i]) /\ SaysAnswer(d.xml[i])
                                        /\ AnswerOf(d.xml[i]) = answer})
Texts == {Normalized(text) : text \in {<<"ann", "lee">>, <<"">>}}
TimesWritten(text) ==
    Times(AllPlaces, LAMBDA p : /\ ~p.isEmpty /\ p.candidate = None /\ p.writeIn \notin {<<>>, <<"">>}
                                /\ Normalized(p.writeIn) = text)
DecodedTexts == FlattenSeq(FlattenSeq([i \in DOMAIN d.votes |-> d.votes[i].writeIns]))

(* 11.04: in a file that passes every decoded vote is there, each answer,  *)
(* list, candidate of its election and empty position as often as it was   *)
(* decoded or oftener, and each write-in exactly as often, however the     *)
(* votes are spread over ballots and payloads.  An option of a candidate   *)
(* has a place, 0 or 1, and the file has none.                             *)
VotesAreInFile ==
    verdict = "passed" /\ ~d.noXml =>
      /\ \A answer \in {"yes", "no"} : Times(Decoded, LAMBDA o : o = <<"q", answer>>) <= AnswerVotes(answer)
      /\ Times(Decoded, LAMBDA o : o = <<"e", "l">>) <= Times(Elections("e"), LAMBDA data : data.list = "l")
      /\ \A id \in {"e", "f"}, c \in {"c1", "c2"} :
           Times(Decoded, LAMBDA o : o \in {<<id, c, 0>>, <<id, c, 1>>})
             <= Times(PlacesOf(id), LAMBDA p : ~p.isEmpty /\ p.candidate = c)
      /\ \A id \in {"e", "f"} :
           Times(Decoded, LAMBDA o : o \in {<<id, "x1">>, <<id, "x2">>}) <= Times(PlacesOf(id), LAMBDA p : p.isEmpty)
      /\ \A text \in Texts : Times(DecodedTexts, LAMBDA t : Normalized(t) = text) = TimesWritten(text)
(* 11.04: the file of the votes passes, and also with what invalid ballots *)
(* say besides write-ins.                                                  *)
HonestFileAccepted == d.honest => verdict # "failed"
=============================================================================
