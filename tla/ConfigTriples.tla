--------------------------- MODULE ConfigTriples ----------------------------
(***************************************************************************)
(* The options of a card set by the configuration XML, with which 3.13     *)
(* compares its table (_configuration_p_table_triples).                    *)
(*                                                                         *)
(* The XML has votes and election groups, in document order; each has a    *)
(* domain and a position, 0 if it has none.  The texts in all languages    *)
(* are one text.  A triple is an option, what it means and what it is      *)
(* checked by; strings with | are sequences of their parts.                *)
(***************************************************************************)
EXTENDS Integers, SequencesExt

CONSTANTS Configurations,   \* XML files
          DomainSets        \* the domains of influence of card sets

None == ""
BlankTexts == "Leer|Blanc|Bianco|Vid"

VARIABLES xml, domains,
          groups,    \* the votes and election groups still to be walked
          triples

vars == <<xml, domains, groups, triples>>

-----------------------------------------------------------------------------
(* sorted by a position: who is before stays before if it is the same.     *)
Sorted(s, Position(_)) ==
    LET order == SortSeq([i \in DOMAIN s |-> i],
                         LAMBDA i, k : \/ Position(s[i]) < Position(s[k])
                                       \/ Position(s[i]) = Position(s[k]) /\ i < k)
    IN  [i \in DOMAIN s |-> s[order[i]]]
ByPosition(s) == Sorted(s, LAMBDA x : x.position)
Concat(Part(_), s) == FlattenSeq([i \in DOMAIN s |-> Part(s[i])])

IsBlank(answer) == answer.type \in {"BLANK", "EMPTY"} \/ answer.text = BlankTexts
QuestionTriples(question) ==
    LET answers == ByPosition(question.answers)
    IN  [i \in DOMAIN answers |->
           <<<<question.id, answers[i].id>>,
             <<IF IsBlank(answers[i]) THEN "BLANK" ELSE "NON_BLANK", question.text, answers[i].text>>,
             <<question.id>>>>]

(* A variant ballot, if there is one, takes the place of the standard one; *)
(* its tie-break questions have positions among the others.  A mistake:    *)
(* they come after them.                                                   *)
QuestionsTieBreaksLast(ballot) ==
    IF ballot.variant THEN ByPosition(ballot.questions) \o ByPosition(ballot.tieBreaks) ELSE ballot.standard
Questions(ballot) ==
    IF ballot.variant THEN ByPosition(ballot.questions \o ballot.tieBreaks) ELSE ballot.standard
VoteTriples(vote) ==
    Concat(LAMBDA ballot : Concat(QuestionTriples, Questions(ballot)), ByPosition(vote.ballots))

ListTriples(information, lists, kind) ==
    [i \in DOMAIN lists |->
       <<<<information.id, lists[i].id>>, <<kind, lists[i].text>>, <<"L", information.id>>>>]
(* Empty lists are options only beside other lists.                        *)
AllListTriples(information) ==
    LET lists == ByPosition(information.lists)
        empty == ByPosition(information.emptyLists)
    IN  ListTriples(information, lists, "NON_BLANK")
        \o (IF lists = <<>> THEN <<>> ELSE ListTriples(information, empty, "BLANK"))

(* A candidate is an option for each time it may be on a ballot.  The last *)
(* with an id says who it is.                                              *)
Accumulation(information) == IF information.accumulation > 1 THEN information.accumulation ELSE 1
CandidateTriples(information) ==
    LET candidates == information.candidates
        named(id) == Last(SelectSeq(candidates, LAMBDA candidate : candidate.id = id)).text
    IN  Concat(LAMBDA candidate :
                 [k \in 1..Accumulation(information) |->
                    <<<<information.id, candidate.id, k - 1>>, <<"NON_BLANK", named(candidate.id)>>,
                      <<"C", information.id>>>>],
               candidates)

(* Empty and write-in positions, by the number they have on the list or    *)
(* else the one they come as.                                              *)
PlaceTriples(information, places, kind) ==
    [i \in DOMAIN places |->
       <<<<information.id, places[i].id>>,
         kind \o <<IF places[i].position = 0 THEN i ELSE places[i].position>>,
         <<"C", information.id>>>>]
InformationTriples(information) ==
    IF ~information.election THEN <<>>
    ELSE AllListTriples(information) \o CandidateTriples(information)
         \o PlaceTriples(information, Concat(LAMBDA list : list.places, information.emptyLists),
                         <<"BLANK", "EMPTY_CANDIDATE_POSITION">>)
         \o (IF information.writeInsAllowed
             THEN PlaceTriples(information, information.writeIns, <<"WRITE_IN", "WRITE_IN_POSITION">>) ELSE <<>>)

-----------------------------------------------------------------------------
InDomains(s) == SelectSeq(s, LAMBDA group : group.domain \in domains)
Walk == ByPosition(InDomains(xml.votes) \o InDomains(xml.elections))

IsVote(group) == "ballots" \in DOMAIN group

Init ==
    /\ xml \in Configurations /\ domains \in DomainSets
    /\ groups = Walk /\ triples = <<>>

WalkVote ==
    /\ groups # <<>> /\ IsVote(Head(groups))
    /\ triples' = triples \o VoteTriples(Head(groups))
    /\ groups' = Tail(groups)
    /\ UNCHANGED <<xml, domains>>

WalkElectionGroup ==
    /\ groups # <<>> /\ ~IsVote(Head(groups))
    /\ triples' = triples \o Concat(InformationTriples, Head(groups).informations)
    /\ groups' = Tail(groups)
    /\ UNCHANGED <<xml, domains>>

Next == WalkVote \/ WalkElectionGroup

Spec == Init /\ [][Next]_vars
=============================================================================
