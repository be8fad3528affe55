-------------------------- MODULE MCConfigTriples ---------------------------
(* Configurations of ConfigTriples for TLC: two votes and two election      *)
(* groups, whose parts stand in the document in every order of two.  The    *)
(* last vote and the first election group have the same position.           *)
EXTENDS ConfigTriples, FiniteSetsExt

Either(a, b) == {<<a, b>>, <<b, a>>}
Answer(id, position, type, text) == [id |-> id, position |-> position, type |-> type, text |-> text]
Answers(id) ==
    Either(Answer(id \o "-yes", 1, "YES", "Ja"), Answer(id \o "-blank", 2, "EMPTY", "-"))
    \cup {<<Answer(id \o "-no", 0, "NO", "Nein"), Answer(id \o "-leer", 0, "OTHER", BlankTexts)>>}
Question(id, position, answers) == [id |-> id, position |-> position, text |-> "?", answers |-> answers]
Ballot(position, standard, variant, questions, tieBreaks) ==
    [position |-> position, standard |-> standard, variant |-> variant, questions |-> questions,
     tieBreaks |-> tieBreaks]
Plain(position, id) == Ballot(position, <<Question(id, 0, <<Answer(id \o "-1", 1, "YES", "Ja")>>)>>, FALSE, <<>>, <<>>)
Variants ==
    {Ballot(2, standard, TRUE, questions, <<Question("t", 2, <<Answer("t1", 1, "YES", "Ja")>>)>>) :
       standard \in {<<>>, <<Question("s", 0, <<Answer("s1", 1, "YES", "Ja")>>)>>},
       questions \in UNION {Either(Question("v1", 1, answers), Question("v2", 3, <<Answer("v2-1", 0, "YES", "Ja")>>)) :
                            answers \in Answers("v1")}}
VoteOf(domain, position, ballots) == [domain |-> domain, position |-> position, ballots |-> ballots]

List(id, position, places) == [id |-> id, position |-> position, text |-> "list", places |-> places]
Named(id, text) == [id |-> id, text |-> text]
Place(id, position) == [id |-> id, position |-> position]
Information(id, accumulation, lists, candidates, allowed) ==
    [election |-> TRUE, id |-> id, accumulation |-> accumulation, lists |-> lists,
     emptyLists |-> <<List(id \o "-none", 9, <<Place("x1", 0), Place("x2", 5)>>)>>,
     candidates |-> candidates, writeInsAllowed |-> allowed, writeIns |-> <<Place("w1", 0), Place("w2", 0)>>]
Informations ==
    {Information("e", n, lists, candidates, allowed) :
       n \in {0, 2}, lists \in {<<>>} \cup Either(List("l1", 1, <<>>), List("l2", 2, <<>>)),
       candidates \in {<<>>, <<Named("c1", "Ann"), Named("c2", "Bea")>>, <<Named("c1", "Ann"), Named("c1", "Eva")>>},
       allowed \in BOOLEAN}
Group(domain, position, informations) == [domain |-> domain, position |-> position, informations |-> informations]

MCConfigurations ==
    {[votes |-> votes, elections |-> elections] :
       votes \in UNION {Either(VoteOf("d1", 3, <<ballot, Plain(1, "a")>>), VoteOf("d2", 1, <<Plain(1, "b")>>)) :
                          ballot \in Variants},
       elections \in UNION {Either(Group("d1", 3, <<information, [information EXCEPT !.election = FALSE]>>),
                                   Group("d2", 2, <<Information("f", 1, <<>>, <<Named("c1", "Ann")>>, FALSE)>>)) :
                              information \in Informations}}
MCDomains == {{"d1", "d2"}, {"d1"}, {}}

-----------------------------------------------------------------------------
(* The options as the XML states them, each with its place on the ballots: *)
(* its group, and numbers of what is before it there.                      *)
At(s) == {s[i] : i \in DOMAIN s}
AnswerOptions ==
    UNION {UNION {UNION {{[triple |-> <<<<q.id, a.id>>, <<IF IsBlank(a) THEN "BLANK" ELSE "NON_BLANK", q.text, a.text>>,
                                        <<q.id>>>>,
                           place |-> <<v.position, 0, b.position, q.position, a.position, 0>>] : a \in At(q.answers)} :
                         q \in IF b.variant THEN At(b.questions) \cup At(b.tieBreaks) ELSE At(b.standard)} :
                  b \in At(v.ballots)} :
           v \in {w \in At(xml.votes) : w.domain \in domains}}
OptionsOf(position, n) ==
    LET L(lists, kind, class) ==
          {[triple |-> <<<<n.id, l.id>>, <<kind, l.text>>, <<"L", n.id>>>>, place |-> <<position, 1, class, l.position, 0, 0>>] :
             l \in At(lists)}
        P(places, kind, class) ==
          {[triple |-> <<<<n.id, places[i].id>>, kind \o <<IF places[i].position = 0 THEN i ELSE places[i].position>>,
                         <<"C", n.id>>>>,
            place |-> <<position, 1, class, i, 0, 0>>] : i \in DOMAIN places}
    IN  L(n.lists, "NON_BLANK", 1)
        \cup (IF n.lists = <<>> THEN {} ELSE L(n.emptyLists, "BLANK", 2))
        \cup {[triple |-> <<<<n.id, n.candidates[i].id, k>>,
                           <<"NON_BLANK", n.candidates[CHOOSE last \in DOMAIN n.candidates :
                              /\ n.candidates[last].id = n.candidates[i].id
                              /\ \A j \in DOMAIN n.candidates : n.candidates[j].id = n.candidates[i].id => j <= last].text>>,
                           <<"C", n.id>>>>,
               place |-> <<position, 1, 3, i, k, 0>>] : i \in DOMAIN n.candidates, k \in 0..(Max({1, n.accumulation}) - 1)}
        \cup P(n.emptyLists[1].places, <<"BLANK", "EMPTY_CANDIDATE_POSITION">>, 4)
        \cup (IF n.writeInsAllowed THEN P(n.writeIns, <<"WRITE_IN", "WRITE_IN_POSITION">>, 5) ELSE {})
ElectionOptions ==
    UNION {UNION {OptionsOf(g.position, n) : n \in {m \in At(g.informations) : m.election}} :
           g \in {h \in At(xml.elections) : h.domain \in domains}}
Options == AnswerOptions \cup ElectionOptions

Before(p, q) == \E i \in DOMAIN p : p[i] < q[i] /\ \A k \in 1..(i - 1) : p[k] = q[k]
DifferentCandidates ==
    \A g \in At(xml.elections) : \A n \in At(g.informations) : \A i, k \in DOMAIN n.candidates :
      n.candidates[i].id = n.candidates[k].id => i = k

Walked == groups = <<>>
(* The triples are those of the votes and elections of these domains: no   *)
(* other, and none is missing, wherever the parts stand in the document.   *)
OptionsOfDomains == Walked => At(triples) = {option.triple : option \in Options}
(* They come as on the ballots: by the positions of votes and elections,   *)
(* of ballots, questions and answers, with tie-breaks between questions;   *)
(* in an election lists, empty lists, candidates, empty places, write-ins. *)
InBallotOrder ==
    Walked /\ DifferentCandidates =>
      LET placeOf == [i \in DOMAIN triples |-> (CHOOSE o \in Options : o.triple = triples[i]).place]
      IN  \A i \in 1..(Len(triples) - 1) : ~Before(placeOf[i + 1], placeOf[i])
(* A table like this can pass 3.13, which takes no option twice.           *)
TableCanPass ==
    Walked /\ DifferentCandidates => \A i, k \in DOMAIN triples : triples[i][1] = triples[k][1] => i = k
=============================================================================
