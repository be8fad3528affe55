----------------------------- MODULE Signatures -----------------------------
(***************************************************************************)
(* The trust store (TrustStore.from_directory) and the authenticity checks *)
(* 2.01-2.05 of the setup files and 7.01-7.05 of the tally files.          *)
(*                                                                         *)
(* A directory is the sequence of its files in the order of their sorted   *)
(* paths.  A file has the fields                                           *)
(*                                                                         *)
(*   kind    "cert" (.pem, .crt, .cer, .der), "p12" or "other"             *)
(*   name    the stem, without local_direct_trust_keystore_ if it has it   *)
(*   cn      common name of its certificate, NoName if it has none         *)
(*   certs   its certificates: of a keystore the main one, if any, first   *)
(*   broken  it cannot be parsed, or the password does not open it         *)
(*                                                                         *)
(* A certificate has a key and is valid from .. until - 1.  RSA-PSS and    *)
(* the hash are ideal: a signature is the key, message and context it was  *)
(* made with.  A payload item has its family, group, event, node, the id   *)
(* of its ballot box or card set, and parts, which are pairs of a sort key *)
(* (a number, in the order of the ids or node ids the code sorts by) and a *)
(* content; whole is FALSE when a field that is signed is missing.         *)
(***************************************************************************)
EXTENDS Report, Integers, FiniteSets, SequencesExt

CONSTANTS Directories,   \* the trust stores
          Evidence,      \* the signed files of a phase
          Originals,     \* what was signed: records of a signer and an item
          EndOfTime      \* the latest time of a verification

NoName == ""
NoId == "none"    \* of a payload that is of no ballot box and no card set
NoCert == [key |-> NoName, from |-> 0, until |-> 0]

Component(node) ==
    <<"control_component_1", "control_component_2", "control_component_3",
      "control_component_4", "control_component_5">>[node]
Signers == {Component(node) : node \in 1..4} \cup {"sdm_config", "sdm_tally", "canton"}

ConfigFamilies == {"setupKeys", "onlineKeys", "tallyData", "context"}
TallyFamilies == {"ballotBox", "shuffle", "finalShuffle", "finalVotes"}

IsItem(item) ==
    /\ item.family \in ConfigFamilies \cup TallyFamilies
    /\ item.node \in 0..5 /\ item.whole \in BOOLEAN
    /\ item.family \in {"onlineKeys", "ballotBox", "shuffle"} <=> item.node # 0
    /\ item.family \in {"setupKeys", "onlineKeys", "context"} => item.id = NoId
    /\ DOMAIN item.parts = 1..Len(item.parts) /\ Len(item.parts) \in Nat
    /\ \A k \in DOMAIN item.parts : item.parts[k][1] \in Nat

(* A phase comes to its signatures only when the files it cannot do        *)
(* without are there: 1.01 and 6.01 end it before.                         *)
FamiliesOf(phase) == IF phase = "config" THEN ConfigFamilies ELSE TallyFamilies
Optional == {"onlineKeys", "finalShuffle", "finalVotes"}
IsEvidence(evidence) ==
    /\ evidence.phase \in {"config", "tally"}
    /\ evidence.trusted \in BOOLEAN /\ evidence.setup \in BOOLEAN /\ evidence.xml.present \in BOOLEAN
    /\ evidence.xml.present => DOMAIN evidence.xml.signatures = 1..Len(evidence.xml.signatures)
    /\ DOMAIN evidence.items = 1..Len(evidence.items) /\ Len(evidence.items) \in Nat
    /\ \A i \in DOMAIN evidence.items :
         IsItem(evidence.items[i]) /\ evidence.items[i].family \in FamiliesOf(evidence.phase)
    /\ \A family \in FamiliesOf(evidence.phase) \ Optional :
         \E i \in DOMAIN evidence.items : evidence.items[i].family = family

Certificate == [key : STRING, from : Int, until : Int]

ASSUME DirectoriesAssumption ==
    \A directory \in Directories :
      /\ DOMAIN directory = 1..Len(directory) /\ Len(directory) \in Nat
      /\ \A i \in DOMAIN directory :
           LET certs == directory[i].certs
           IN  /\ directory[i].kind \in {"cert", "p12", "other"}
               /\ certs \in Seq(Certificate)
               /\ \A k \in DOMAIN certs : certs[k].from < certs[k].until
ASSUME EndOfTimeAssumption == EndOfTime \in Nat
ASSUME EvidenceAssumption == \A evidence \in Evidence : IsEvidence(evidence)
ASSUME OriginalsAssumption == \A o \in Originals : o.signer \in Signers /\ IsItem(o.item)

VARIABLES files,          \* the trust store's directory
          e,              \* the evidence
          certificates,   \* TrustStore.certificates
          next,           \* the file, or the check, the loop comes to next
          now             \* datetime.now(), read at every verification

vars == <<files, e, certificates, next, now, pc, report>>
unread == <<files, e>>

-----------------------------------------------------------------------------
(* What is signed.                                                         *)

(* The confirmed votes, components and card sets are sorted by their id;   *)
(* sorted is stable, parts with the same id stay in their order.           *)
Before(parts, i, k) ==
    \/ parts[i][1] < parts[k][1]
    \/ parts[i][1] = parts[k][1] /\ i < k
PlaceOf(parts, i) == Cardinality({k \in DOMAIN parts : Before(parts, k, i)}) + 1
BySortKey(parts) ==
    [k \in DOMAIN parts |-> parts[CHOOSE i \in DOMAIN parts : PlaceOf(parts, i) = k]]

(* The group that goes into the signed data is that of the setup keys, but *)
(* for the tally component's shuffle.                                      *)
GroupOf(item) == IF item.family = "finalShuffle" THEN item.group ELSE e.group

(* The *_signed_data functions.                                            *)
Message(group, item) ==
    CASE item.family \in {"setupKeys", "context"} -> <<group, item.event, BySortKey(item.parts)>>
      [] item.family = "onlineKeys" -> <<group, item.event, <<item.node, item.parts>>>>
      [] item.family = "tallyData" -> <<group, item.event, item.id, item.parts>>
      [] item.family = "ballotBox" -> <<group, item.event, item.id, item.node, BySortKey(item.parts)>>
      [] item.family = "shuffle" -> <<group, item.event, item.id, item.node, item.parts, "decryptions">>
      [] item.family = "finalShuffle" -> <<group, item.event, item.id, item.parts, "decryptions">>
      [] item.family = "finalVotes" -> <<group, item.event, item.id, item.parts, "decoded", "write-ins">>

ContextOf(item) ==
    CASE item.family = "setupKeys" -> <<"public keys", "setup", item.event>>
      [] item.family = "onlineKeys" -> <<"OnlineCC keys", item.node, item.event>>
      [] item.family = "tallyData" -> <<"tally data", item.event, item.id>>
      [] item.family = "context" -> <<"election event context", item.event>>
      [] item.family = "ballotBox" -> <<"ballotbox", item.node, item.event, item.id>>
      [] item.family = "shuffle" -> <<"shuffle", item.node, item.event, item.id>>
      [] item.family = "finalShuffle" -> <<"shuffle", "offline", item.event, item.id>>
      [] item.family = "finalVotes" -> <<"decoded votes", item.event, item.id>>

(* Ideal signatures: nobody but a signer makes a signature that its own    *)
(* certificate verifies, and it makes them over its own payloads.          *)
ASSUME IdealSignatures ==
    \A evidence \in Evidence : \A i \in DOMAIN evidence.items :
      LET signature == evidence.items[i].signature
      IN  signature.key \in Signers =>
            \E o \in Originals :
              /\ o.signer = signature.key
              /\ signature.context = ContextOf(o.item)
              /\ signature.message = Message(o.item.group, o.item)

SignerOf(item) ==
    CASE item.family \in {"onlineKeys", "ballotBox", "shuffle"} -> Component(item.node)
      [] item.family \in {"finalShuffle", "finalVotes"} -> "sdm_tally"
      [] OTHER -> "sdm_config"

CheckOf(family) ==
    CASE family = "setupKeys" -> "2.02" [] family = "onlineKeys" -> "2.03"
      [] family = "tallyData" -> "2.04" [] family = "context" -> "2.05"
      [] family = "ballotBox" -> "7.01" [] family = "shuffle" -> "7.02"
      [] family = "finalShuffle" -> "7.03" [] OTHER -> "7.04"

(* CertificateEntry.valid_at.  A mistake: the end is part of the validity. *)
ValidThrough(cert, time) == cert.from <= time /\ time <= cert.until
ValidAt(cert, time) == cert.from <= time /\ time < cert.until

(* TrustStore.verify_signature; what cannot be decoded fails as well.      *)
VerifySignature(signer, message, context, signature) ==
    /\ signer \in Signers
    /\ LET cert == certificates[signer]
       IN  /\ cert # NoCert /\ ValidAt(cert, now)
           /\ signature = [key |-> cert.key, message |-> message, context |-> context]

(* TrustStore.verify_xml_signature.  A document has its content, and its   *)
(* signatures with their place, the algorithms they name, and what they    *)
(* were made of.  A mistake: any of several signatures will do.            *)
XmlSignedBy(cert, doc, signature, place) ==
    /\ signature.place = place /\ signature.standard
    /\ signature.digest = doc.content
    /\ signature.key = cert.key
VerifyAnyXmlSignature(signer, doc, place) ==
    LET cert == certificates[signer]
    IN  /\ cert # NoCert /\ ValidAt(cert, now)
        /\ \E k \in DOMAIN doc.signatures : XmlSignedBy(cert, doc, doc.signatures[k], place)
VerifyXmlSignature(signer, doc, place) ==
    LET cert == certificates[signer]
    IN  /\ cert # NoCert /\ ValidAt(cert, now)
        /\ Len(doc.signatures) = 1 /\ XmlSignedBy(cert, doc, doc.signatures[1], place)

-----------------------------------------------------------------------------
Init ==
    /\ files \in Directories /\ e \in Evidence
    /\ certificates = [signer \in Signers |-> NoCert]
    /\ next = 1 /\ now = 0
    /\ ReportInit(IF e.trusted THEN "certs" ELSE "untrusted")

(* Without a trust store every check passes with a remark.                 *)
NoTrustStore ==
    /\ RecordAll("untrusted",
         [k \in 1..5 |-> Entry((IF e.phase = "config" THEN <<"2.01", "2.02", "2.03", "2.04", "2.05">>
                                ELSE <<"7.01", "7.02", "7.03", "7.04", "7.05">>)[k], TRUE)], "done")
    /\ UNCHANGED <<unread, certificates, next, now>>

(* The store's two loops: certificates first, then keystores.  A file      *)
(* speaks for its name and its common name, and replaces what an earlier   *)
(* one said.  A mistake: the first file counts.                            *)
Aliases(f) == {f.name, f.cn} \cap Signers
EntryOf(f) == IF f.certs = <<>> THEN NoCert ELSE Head(f.certs)
StoredFirst(f) ==
    [signer \in Signers |->
       IF signer \in Aliases(f) /\ f.certs # <<>> /\ certificates[signer] = NoCert
       THEN EntryOf(f) ELSE certificates[signer]]
Stored(f) ==
    [signer \in Signers |->
       IF signer \in Aliases(f) /\ f.certs # <<>> THEN EntryOf(f) ELSE certificates[signer]]

LoadFile(kind) ==
    /\ next \in DOMAIN files /\ ~(files[next].kind = kind /\ files[next].broken)
    /\ certificates' = IF files[next].kind = kind THEN Stored(files[next]) ELSE certificates
    /\ next' = next + 1
    /\ UNCHANGED <<unread, now, pc, report>>
LoadRaises(kind) ==
    /\ next \in DOMAIN files /\ files[next].kind = kind /\ files[next].broken
    /\ Crash(pc)
    /\ UNCHANGED <<unread, certificates, next, now>>
LoopEnds(list, then) ==
    /\ next = Len(list) + 1
    /\ next' = 1 /\ pc' = then
    /\ UNCHANGED <<unread, certificates, now, report>>

LoadCertificates == pc = "certs" /\ (LoadFile("cert") \/ LoadRaises("cert") \/ LoopEnds(files, "keystores"))
LoadKeystores ==
    /\ pc = "keystores"
    /\ \/ LoadFile("p12") \/ LoadRaises("p12")
       \/ LoopEnds(files, IF e.phase = "config" THEN "xml" ELSE "build")

(* 2.01 and 7.05.                                                          *)
XmlOk ==
    e.xml.present =>
      IF e.phase = "config" THEN VerifyXmlSignature("canton", e.xml, "root-last-child")
      ELSE VerifyXmlSignature("sdm_tally", e.xml, "extensions-child")
CheckXmlSignature ==
    /\ pc = "xml" /\ pc' = IF e.phase = "config" THEN "build" ELSE "verify"
    /\ report' = Append(report, Entry(IF e.phase = "config" THEN "2.01" ELSE "7.05", XmlOk))
    /\ UNCHANGED <<unread, certificates, next, now>>

(* The list of checks is made before any is carried out: whatever is       *)
(* missing in a payload, or the setup keys themselves, ends the run.       *)
(* A mistake: only the votes may be absent.                                *)
Buildable == e.setup /\ \A i \in DOMAIN e.items : e.items[i].whole
AbsenceOf(family) ==
    IF \A i \in DOMAIN e.items : e.items[i].family # family
    THEN <<Entry(CheckOf(family), TRUE)>> ELSE <<>>
AbsentVotes == IF e.phase = "config" THEN <<>> ELSE AbsenceOf("finalVotes")
Absent ==
    IF e.phase = "config" THEN AbsenceOf("onlineKeys")
    ELSE AbsenceOf("finalShuffle") \o AbsenceOf("finalVotes")
BuildChecks ==
    /\ Buildable
    /\ RecordAll("build", Absent, IF e.phase = "config" THEN "verify" ELSE "xml")
    /\ UNCHANGED <<unread, certificates, next, now>>
BuildRaises == ~Buildable /\ Crash("build") /\ UNCHANGED <<unread, certificates, next, now>>

(* _add_signature_checks, one signature at a time.                         *)
SignatureOk(item) ==
    VerifySignature(SignerOf(item), Message(GroupOf(item), item), ContextOf(item), item.signature)
Verify ==
    /\ next \in DOMAIN e.items
    /\ pc = "verify" /\ pc' = pc
    /\ report' = Append(report, Entry(CheckOf(e.items[next].family), SignatureOk(e.items[next])))
    /\ next' = next + 1
    /\ UNCHANGED <<unread, certificates, now>>
Return == pc = "verify" /\ LoopEnds(e.items, "done")

(* Time goes by between any two steps.                                     *)
Tick ==
    /\ ~Ended /\ now < EndOfTime
    /\ now' = now + 1
    /\ UNCHANGED <<unread, certificates, next, pc, report>>

Next ==
    \/ NoTrustStore \/ LoadCertificates \/ LoadKeystores
    \/ CheckXmlSignature \/ BuildChecks \/ BuildRaises \/ Verify \/ Return \/ Tick

Spec == Init /\ [][Next]_vars

-----------------------------------------------------------------------------
(* Properties.                                                             *)

ConfigIds == {"2.01", "2.02", "2.03", "2.04", "2.05"}
TallyIds == {"7.01", "7.02", "7.03", "7.04", "7.05"}
CheckIds == IF e.phase = "config" THEN ConfigIds ELSE TallyIds

(* The trust store holds certificates of the directory, and nothing else.  *)
TypeOK ==
    /\ files \in Directories /\ e \in Evidence
    /\ pc \in {"untrusted", "certs", "keystores", "xml", "build", "verify", "done", "crashed"}
    /\ report \in Seq([id : ConfigIds \cup TallyIds, ok : BOOLEAN])
    /\ certificates \in [Signers -> Certificate \cup {NoCert}]
    /\ \A signer \in Signers :
         certificates[signer] = NoCert
           \/ \E i \in DOMAIN files : certificates[signer] \in ToSet(files[i].certs)

(* The file whose certificate a signer is verified with, if any names it.  *)
FilesNaming(signer) ==
    {i \in DOMAIN files : files[i].kind # "other" /\ files[i].certs # <<>> /\ signer \in Aliases(files[i])}
Later(i, k) ==
    IF files[i].kind = files[k].kind THEN i <= k ELSE files[i].kind = "cert"
LastFileNaming(signer) ==
    CHOOSE i \in FilesNaming(signer) : \A k \in FilesNaming(signer) : Later(k, i)
GenuineStore ==
    \A signer \in Signers :
      FilesNaming(signer) = {} \/ EntryOf(files[LastFileNaming(signer)]).key = signer

SameParts(item, other) ==
    IF item.family \in {"setupKeys", "context", "ballotBox"}
    THEN \E p \in Bijection(DOMAIN item.parts, DOMAIN other.parts) :
           \A k \in DOMAIN item.parts : item.parts[k] = other.parts[p[k]]
    ELSE item.parts = other.parts

(* What a run with a trust store accepts was signed as it stands, up to    *)
(* the order of what is sorted first, by the very component that the       *)
(* payload names, for that election event, ballot box and card set; if the *)
(* last file that names a signer is genuine and all payloads are in the    *)
(* same group, which 3.01 and 8.01 see to.                                 *)
AcceptedAsSigned ==
    (/\ pc = "done" /\ e.trusted /\ ReportOk /\ GenuineStore
     /\ \A i \in DOMAIN e.items : e.items[i].group = e.group) =>
      /\ \A i \in DOMAIN e.items : \E o \in Originals :
           /\ o.signer = SignerOf(e.items[i]) /\ SameParts(o.item, e.items[i])
           /\ \A field \in {"family", "group", "event", "node", "id"} : o.item[field] = e.items[i][field]
      /\ e.xml.present =>
           \E k \in DOMAIN e.xml.signatures :
             /\ Len(e.xml.signatures) = 1
             /\ e.xml.signatures[k].digest = e.xml.content
             /\ e.xml.signatures[k].key = IF e.phase = "config" THEN "canton" ELSE "sdm_tally"

(* The end of the report lists every check of the phase, whatever files    *)
(* there are, and one verdict for every payload.                           *)
EveryCheckReported ==
    pc = "done" =>
      /\ \A id \in CheckIds : Ran(id)
      /\ e.trusted =>
           \A i \in DOMAIN e.items :
             Cardinality({k \in DOMAIN report : report[k].id = CheckOf(e.items[i].family)})
               = Cardinality({k \in DOMAIN e.items : e.items[k].family = e.items[i].family})

(* No signature is accepted of a signer when none of its certificates is   *)
(* valid at that time, however long the run takes since they were loaded.  *)
ExpiredRefused ==
    [][(pc = "verify" /\ report' # report /\ report'[Len(report')].ok) =>
         \E i \in DOMAIN files : \E cert \in ToSet(files[i].certs) :
           /\ cert.key = e.items[next].signature.key
           /\ cert.from <= now /\ now < cert.until]_vars

(* An item that its component has signed: nothing is missing or changed,   *)
(* but what is sorted before signing may have got into another order, if   *)
(* no two parts have the same id (with two, the order decides).            *)
SignedBy(o, item) ==
    /\ o.signer = SignerOf(item) /\ SameParts(o.item, item)
    /\ \A field \in {"family", "group", "event", "node", "id"} : o.item[field] = item[field]
    /\ \/ o.item.parts = item.parts
       \/ \A i, k \in DOMAIN item.parts : item.parts[i][1] = item.parts[k][1] => i = k
    /\ item.signature = [key |-> o.signer, message |-> Message(o.item.group, o.item),
                         context |-> ContextOf(o.item)]

(* Honest evidence: all payloads are signed, in one group, and the XML     *)
(* file, if there is one, has one signature, by the phase's signer.        *)
XmlSigner == IF e.phase = "config" THEN "canton" ELSE "sdm_tally"
HonestEvidence ==
    /\ e.setup
    /\ \A i \in DOMAIN e.items :
         /\ e.items[i].whole /\ e.items[i].group = e.group
         /\ \E o \in Originals : SignedBy(o, e.items[i])
    /\ e.xml.present =>
         /\ Len(e.xml.signatures) = 1
         /\ LET signature == e.xml.signatures[1]
            IN  /\ signature.place = IF e.phase = "config" THEN "root-last-child" ELSE "extensions-child"
                /\ signature.standard /\ signature.digest = e.xml.content /\ signature.key = XmlSigner

(* A trust store for it: no file is broken, and the last file that names a *)
(* signer has its certificate, which is valid as long as the run takes.    *)
(* What the files before it have, expired or another's, does not matter.   *)
HonestStore ==
    /\ \A i \in DOMAIN files : files[i].kind # "other" => ~files[i].broken
    /\ \A signer \in {SignerOf(e.items[i]) : i \in DOMAIN e.items}
                         \cup (IF e.xml.present THEN {XmlSigner} ELSE {}) :
         /\ FilesNaming(signer) # {}
         /\ LET cert == EntryOf(files[LastFileNaming(signer)])
            IN  cert.key = signer /\ cert.from <= 0 /\ EndOfTime < cert.until

(* What the components signed is accepted, however the files of the trust  *)
(* store are named and whichever kind they are, and whatever the order in  *)
(* which the votes, card sets or components come that are sorted by id.    *)
HonestSignaturesAccepted == HonestEvidence /\ HonestStore => pc # "crashed" /\ ReportOk
=============================================================================
