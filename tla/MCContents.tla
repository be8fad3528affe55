----------------------------- MODULE MCContents -----------------------------
(* The checks of XML files, one at a time: the options by the               *)
(* configuration (ConfigTriples, for 3.13) or the eCH-0222 file (11.04).    *)
EXTENDS MCConfigTriples

VARIABLES check,   \* the check that is carried out
          d, rest, selections, writeIns, emptyPositions, verdict

File == INSTANCE MCEch0222 WITH Datasets <- {}

configVars == <<xml, domains, groups, triples>>
fileVars == <<d, rest, selections, writeIns, emptyPositions, verdict>>

ContentsInit ==
    \/ /\ check = "3.13" /\ Init
       /\ d = <<>> /\ rest = <<>> /\ selections = <<>> /\ writeIns = <<>> /\ emptyPositions = <<>>
       /\ verdict = "none"
    \/ /\ check = "11.04" /\ d \in File!MCDatasets /\ File!Begin
       /\ xml = <<>> /\ domains = {} /\ groups = <<>> /\ triples = <<>>

ContentsNext ==
    \/ check = "3.13" /\ Next /\ UNCHANGED <<check, fileVars>>
    \/ check = "11.04" /\ File!Next /\ UNCHANGED <<check, configVars>>

ContentsSpec == ContentsInit /\ [][ContentsNext]_<<check, configVars, fileVars>>

-----------------------------------------------------------------------------
(* 3.13, in _configuration_p_table_triples: the triples are the options of *)
(* the domains and no others, none missing or twice, and come in the order *)
(* of the ballots, wherever the parts stand in the document.               *)
TriplesRight == check = "3.13" => OptionsOfDomains /\ InBallotOrder /\ TableCanPass
(* 11.04: a file that passes has every decoded vote.                       *)
VotesAreInFile == check = "11.04" => File!VotesAreInFile
(* 11.04: the file of the votes passes, and also with what invalid ballots *)
(* say besides write-ins.                                                  *)
HonestFileAccepted == check = "11.04" => File!HonestFileAccepted
=============================================================================
