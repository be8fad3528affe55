-------------------------- MODULE Signatures_proof --------------------------
(***************************************************************************)
(* Theorems of Signatures, for all trust stores and signed files.          *)
(***************************************************************************)
EXTENDS Signatures, SequenceTheorems, FiniteSetTheorems, FunctionTheorems, TLAPS

Ids == ConfigIds \cup TallyIds
Entries == [id : Ids, ok : BOOLEAN]

LEMMA ChecksAreIds ==
    ASSUME NEW family, family \in ConfigFamilies \cup TallyFamilies
    PROVE  CheckOf(family) \in Ids
BY DEF CheckOf, ConfigFamilies, TallyFamilies, Ids, ConfigIds, TallyIds

LEMMA AbsenceType ==
    ASSUME NEW family, family \in ConfigFamilies \cup TallyFamilies
    PROVE  AbsenceOf(family) \in Seq(Entries)
<1> DEFINE entry == Entry(CheckOf(family), TRUE)
<1>1. entry \in Entries
  BY ChecksAreIds DEF Entry, Entries
<1>2. AbsenceOf(family) = <<>> \/ AbsenceOf(family) = <<entry>>
  BY Zenon DEF AbsenceOf
<1> HIDE DEF entry
<1>3. <<entry>> \in Seq(Entries)
  BY <1>1
<1>4. <<>> \in Seq(Entries)
  OBVIOUS
<1> QED BY <1>2, <1>3, <1>4

LEMMA AbsentType == Absent \in Seq(Entries)
<1>1. /\ AbsenceOf("onlineKeys") \in Seq(Entries)
      /\ AbsenceOf("finalShuffle") \in Seq(Entries)
      /\ AbsenceOf("finalVotes") \in Seq(Entries)
  BY AbsenceType DEF ConfigFamilies, TallyFamilies
<1>2. AbsenceOf("finalShuffle") \o AbsenceOf("finalVotes") \in Seq(Entries)
  BY <1>1, ConcatProperties
<1> QED BY <1>1, <1>2 DEF Absent

(* What a file says of a signer is one of its certificates.                *)
LEMMA StoredType ==
    ASSUME TypeOK, NEW i \in DOMAIN files
    PROVE  /\ Stored(files[i]) \in [Signers -> Certificate \cup {NoCert}]
           /\ \A signer \in Signers :
                \/ Stored(files[i])[signer] = certificates[signer]
                \/ Stored(files[i])[signer] \in ToSet(files[i].certs)
<1> DEFINE certs == files[i].certs
<1>1. certs \in Seq(Certificate)
  BY DirectoriesAssumption DEF TypeOK
<1>2. certs # <<>> => Head(certs) \in Certificate /\ Head(certs) \in ToSet(certs)
  <2>1. SUFFICES ASSUME certs # <<>>
                 PROVE  Head(certs) \in Certificate /\ Head(certs) \in ToSet(certs)
    OBVIOUS
  <2> HIDE DEF certs
  <2>2. Head(certs) = certs[1] /\ 1 \in DOMAIN certs
    BY <1>1, <2>1
  <2> QED BY <1>1, <2>2 DEF ToSet
<1>3. certs # <<>> => EntryOf(files[i]) = Head(certs)
  BY DEF EntryOf
<1> HIDE DEF certs
<1>4. Stored(files[i]) =
        [signer \in Signers |->
           IF signer \in Aliases(files[i]) /\ certs # <<>> THEN EntryOf(files[i])
           ELSE certificates[signer]]
  BY DEF Stored, certs
<1>5. \A signer \in Signers : certificates[signer] \in Certificate \cup {NoCert}
  BY DEF TypeOK
<1> QED BY <1>2, <1>3, <1>4, <1>5 DEF certs

LEMMA LoadKeepsType ==
    ASSUME TypeOK, NEW kind, LoadFile(kind)
    PROVE  TypeOK'
<1>1. /\ next \in DOMAIN files
      /\ certificates' = IF files[next].kind = kind THEN Stored(files[next]) ELSE certificates
      /\ UNCHANGED <<files, e, pc, report>>
  BY DEF LoadFile, unread
<1>2. /\ certificates' \in [Signers -> Certificate \cup {NoCert}]
      /\ \A signer \in Signers :
           \/ certificates'[signer] = certificates[signer]
           \/ certificates'[signer] \in ToSet(files[next].certs)
  BY <1>1, StoredType DEF TypeOK
<1>3. \A signer \in Signers :
        certificates'[signer] = NoCert
          \/ \E i \in DOMAIN files : certificates'[signer] \in ToSet(files[i].certs)
  BY <1>1, <1>2 DEF TypeOK
<1> QED BY <1>1, <1>2, <1>3 DEF TypeOK

(* An entry more.                                                          *)
LEMMA AppendType ==
    ASSUME report \in Seq(Entries), NEW id \in Ids, NEW ok \in BOOLEAN,
           report' = Append(report, Entry(id, ok))
    PROVE  report' \in Seq(Entries) /\ report'[Len(report')].ok = ok
<1>1. Entry(id, ok) \in Entries /\ Entry(id, ok).ok = ok
  BY DEF Entry, Entries
<1> QED BY <1>1, AppendProperties

LEMMA VerdictsAreBooleans ==
    /\ XmlOk \in BOOLEAN
    /\ \A item : SignatureOk(item) \in BOOLEAN
<1>1. XmlOk \in BOOLEAN
  BY Zenon DEF XmlOk
<1>2. \A item : SignatureOk(item) \in BOOLEAN
  BY Zenon DEF SignatureOk, VerifySignature
<1> QED BY <1>1, <1>2

LEMMA VerifyStep ==
    ASSUME TypeOK, Verify
    PROVE  /\ report' \in Seq(Entries)
           /\ report'[Len(report')].ok = SignatureOk(e.items[next])
<1>1. /\ next \in DOMAIN e.items
      /\ report' = Append(report, Entry(CheckOf(e.items[next].family), SignatureOk(e.items[next])))
  BY DEF Verify
<1>2. e.items[next].family \in ConfigFamilies \cup TallyFamilies
  BY <1>1, EvidenceAssumption DEF TypeOK, IsEvidence, IsItem
<1>3. CheckOf(e.items[next].family) \in Ids
  BY <1>2, ChecksAreIds
<1>4. report \in Seq(Entries)
  BY DEF TypeOK, Entries, Ids
<1> QED BY <1>1, <1>3, <1>4, AppendType, VerdictsAreBooleans

LEMMA StepTypeOK ==
    ASSUME TypeOK, [Next]_vars
    PROVE  TypeOK'
<1>1. report \in Seq(Entries)
  BY DEF TypeOK, Entries, Ids
<1>2. ASSUME UNCHANGED <<files, e, certificates>>, report' \in Seq(Entries),
             pc' \in {pc, "keystores", "xml", "build", "verify", "done", "crashed"}
      PROVE  TypeOK'
  BY <1>2 DEF TypeOK, Entries, Ids
<1>3. CASE NoTrustStore
  <2> DEFINE ids == IF e.phase = "config" THEN <<"2.01", "2.02", "2.03", "2.04", "2.05">>
                    ELSE <<"7.01", "7.02", "7.03", "7.04", "7.05">>
             entries == [k \in 1..5 |-> Entry(ids[k], TRUE)]
  <2>1. \A k \in 1..5 : ids[k] \in Ids
    BY DEF Ids, ConfigIds, TallyIds
  <2>2. entries \in Seq(Entries)
    <3> HIDE DEF ids
    <3>1. \A k \in 1..5 : Entry(ids[k], TRUE) \in Entries
      BY <2>1 DEF Entry, Entries
    <3>2. entries \in [1..5 -> Entries]
      BY <3>1
    <3> HIDE DEF entries
    <3> QED BY <3>2, SeqDef
  <2>3. report' = report \o entries /\ pc' = "done"
    BY <1>3 DEF NoTrustStore, RecordAll
  <2> HIDE DEF entries
  <2>4. report' \in Seq(Entries)
    BY <1>1, <2>2, <2>3, ConcatProperties
  <2> QED BY <1>2, <1>3, <2>3, <2>4 DEF NoTrustStore, unread
<1>4. CASE LoadCertificates
  <2>1. CASE LoadFile("cert")
    BY <2>1, LoadKeepsType
  <2>2. CASE LoadRaises("cert") \/ LoopEnds(files, "keystores")
    BY <1>1, <1>2, <2>2 DEF LoadRaises, Crash, LoopEnds, unread
  <2> QED BY <1>4, <2>1, <2>2 DEF LoadCertificates
<1>5. CASE LoadKeystores
  <2>1. CASE LoadFile("p12")
    BY <2>1, LoadKeepsType
  <2>2. CASE LoadRaises("p12") \/ LoopEnds(files, IF e.phase = "config" THEN "xml" ELSE "build")
    BY <1>1, <1>2, <2>2 DEF LoadRaises, Crash, LoopEnds, unread
  <2> QED BY <1>5, <2>1, <2>2 DEF LoadKeystores
<1>6. CASE CheckXmlSignature
  <2>1. PICK ok \in BOOLEAN : ok = XmlOk
    BY VerdictsAreBooleans
  <2>2. PICK id \in Ids : report' = Append(report, Entry(id, ok))
    <3>1. report' = Append(report, Entry(IF e.phase = "config" THEN "2.01" ELSE "7.05", ok))
      BY <1>6, <2>1 DEF CheckXmlSignature
    <3> QED BY <3>1 DEF Ids, ConfigIds, TallyIds
  <2>3. report' \in Seq(Entries)
    BY <1>1, <2>2, AppendType
  <2> QED BY <1>2, <1>6, <2>3 DEF CheckXmlSignature, unread
<1>7. CASE BuildChecks
  <2>1. report' \in Seq(Entries)
    BY <1>1, <1>7, AbsentType, ConcatProperties DEF BuildChecks, RecordAll
  <2> QED BY <1>2, <1>7, <2>1 DEF BuildChecks, RecordAll, unread
<1>8. CASE BuildRaises
  BY <1>1, <1>2, <1>8 DEF BuildRaises, Crash, unread
<1>9. CASE Verify
  BY <1>2, <1>9, VerifyStep DEF Verify, unread
<1>10. CASE Return
  BY <1>1, <1>2, <1>10 DEF Return, LoopEnds, unread
<1>11. CASE Tick \/ UNCHANGED vars
  BY <1>1, <1>2, <1>11 DEF Tick, vars, unread
<1> QED BY <1>3, <1>4, <1>5, <1>6, <1>7, <1>8, <1>9, <1>10, <1>11 DEF Next

LEMMA InitTypeOK == Init => TypeOK
<1> SUFFICES ASSUME Init PROVE TypeOK
  OBVIOUS
<1> QED BY DEF Init, ReportInit, TypeOK

(* The trust store never holds anything but NoCert and certificates of the *)
(* directory, in whatever order files, common names and keystores speak    *)
(* for a signer.                                                           *)
THEOREM TypeCorrect == Spec => []TypeOK
<1>1. TypeOK /\ [Next]_vars => TypeOK'
  BY StepTypeOK
<1> QED BY <1>1, InitTypeOK, PTL DEF Spec

LEMMA AcceptsValid ==
    ASSUME TypeOK, [Next]_vars, pc = "verify", report' # report, report'[Len(report')].ok
    PROVE  \E i \in DOMAIN files : \E cert \in ToSet(files[i].certs) :
             /\ cert.key = e.items[next].signature.key
             /\ cert.from <= now /\ now < cert.until
<1>1. Verify
  BY DEF Next, vars, NoTrustStore, LoadCertificates, LoadKeystores, CheckXmlSignature, BuildChecks,
         BuildRaises, Return, LoopEnds, Tick, RecordAll, Crash
<1>2. SignatureOk(e.items[next])
  BY <1>1, VerifyStep
<1>3. PICK signer \in Signers :
        /\ certificates[signer] # NoCert
        /\ ValidAt(certificates[signer], now)
        /\ e.items[next].signature.key = certificates[signer].key
  BY <1>2 DEF SignatureOk, VerifySignature
<1>4. PICK i \in DOMAIN files : certificates[signer] \in ToSet(files[i].certs)
  BY <1>3 DEF TypeOK
<1> QED BY <1>3, <1>4 DEF ValidAt

(* No signature is accepted with a certificate that is not valid at that   *)
(* moment, however long the run takes since the trust store was loaded.    *)
THEOREM NoneAcceptedExpired == Spec => ExpiredRefused
<1>1. TypeOK /\ [Next]_vars =>
        [(pc = "verify" /\ report' # report /\ report'[Len(report')].ok) =>
           \E i \in DOMAIN files : \E cert \in ToSet(files[i].certs) :
             /\ cert.key = e.items[next].signature.key
             /\ cert.from <= now /\ now < cert.until]_vars
  BY AcceptsValid
<1> QED BY <1>1, TypeCorrect, PTL DEF Spec, ExpiredRefused

-----------------------------------------------------------------------------
(* Which certificate a signer is verified with: that of the last file, of  *)
(* those the two loops have come to, that names it.                        *)

Heard(signer) ==
    {i \in FilesNaming(signer) :
       \/ pc = "certs" /\ files[i].kind = "cert" /\ i < next
       \/ pc = "keystores" /\ (files[i].kind = "cert" \/ i < next)
       \/ pc \in {"xml", "build", "verify", "done"}}
Says(signer, heard) ==
    /\ heard = {} => certificates[signer] = NoCert
    /\ heard # {} => \E i \in heard : /\ \A k \in heard : Later(k, i)
                                      /\ certificates[signer] = EntryOf(files[i])
StoreInv ==
    /\ pc \in {"certs", "keystores", "xml", "build", "verify"} => e.trusted
    /\ pc = "untrusted" => ~e.trusted
    /\ pc \in {"xml", "build"} => next = 1
    /\ e.trusted /\ pc # "crashed" => \A signer \in Signers : Says(signer, Heard(signer))

LEMMA FilesAre ==
    ASSUME TypeOK
    PROVE  /\ DOMAIN files = 1..Len(files) /\ Len(files) \in Nat
           /\ \A i \in DOMAIN files : files[i].kind \in {"cert", "p12", "other"}
BY DirectoriesAssumption DEF TypeOK

LEMMA LoadKeepsStore ==
    ASSUME TypeOK, StoreInv, NEW kind \in {"cert", "p12"}, LoadFile(kind),
           pc = IF kind = "cert" THEN "certs" ELSE "keystores"
    PROVE  StoreInv'
<1>1. /\ next \in DOMAIN files /\ next \in Nat
      /\ certificates' = IF files[next].kind = kind THEN Stored(files[next]) ELSE certificates
      /\ next' = next + 1 /\ UNCHANGED <<files, e, pc>>
  BY FilesAre DEF LoadFile, unread
<1>2. \A signer, i, k : FilesNaming(signer)' = FilesNaming(signer) /\ Later(i, k)' = Later(i, k)
  BY <1>1 DEF FilesNaming, Later, Aliases
<1>3. ASSUME NEW signer \in Signers
      PROVE  Says(signer, Heard(signer))'
  <2> DEFINE H == Heard(signer)
  <2>1. Says(signer, H) /\ H \subseteq FilesNaming(signer)
    BY <1>1 DEF StoreInv, Heard
  <2>2. \A i \in FilesNaming(signer) : i \in DOMAIN files /\ i \in Nat /\ files[i].kind \in {"cert", "p12"}
    BY FilesAre DEF FilesNaming
  <2>3. CASE next \in FilesNaming(signer) /\ files[next].kind = kind
    <3>1. Heard(signer)' = H \cup {next}
      BY <1>1, <1>2, <2>2, <2>3 DEF Heard
    <3>2. \A k \in H : Later(k, next)
      BY <1>1, <2>2, <2>3 DEF Heard, Later
    <3>3. Later(next, next)
      BY <1>1 DEF Later
    <3>4. certificates'[signer] = EntryOf(files[next])
      BY <1>1, <2>3 DEF Stored, FilesNaming
    <3> QED BY <1>1, <1>2, <3>1, <3>2, <3>3, <3>4 DEF Says
  <2>4. CASE ~(next \in FilesNaming(signer) /\ files[next].kind = kind)
    <3>1. Heard(signer)' = H
      BY <1>1, <1>2, <2>2, <2>4 DEF Heard
    <3>2. certificates'[signer] = certificates[signer]
      BY <1>1, <2>4 DEF Stored, FilesNaming
    <3> QED BY <1>1, <1>2, <2>1, <3>1, <3>2 DEF Says
  <2> QED BY <2>3, <2>4
<1> QED BY <1>1, <1>3 DEF StoreInv

LEMMA SameHeard ==
    ASSUME StoreInv, UNCHANGED <<files, e, certificates>>, pc # "crashed",
           e.trusted /\ pc' # "crashed" => \A signer \in Signers : Heard(signer)' = Heard(signer)
    PROVE  e.trusted /\ pc' # "crashed" => \A signer \in Signers : Says(signer, Heard(signer))'
<1>1. \A i, k : Later(i, k)' = Later(i, k)
  BY DEF Later
<1> QED BY <1>1 DEF StoreInv, Says

LEMMA StepStoreInv ==
    ASSUME TypeOK, StoreInv, [Next]_vars
    PROVE  StoreInv'
<1>1. ASSUME UNCHANGED <<files, e, certificates>>,
             pc \in {"xml", "build", "verify", "done"}, pc' \in {"xml", "build", "verify", "done", "crashed"},
             pc' = "done" \/ e.trusted, pc' \in {"xml", "build"} => next' = 1
      PROVE  StoreInv'
  <2>1. \A signer : FilesNaming(signer)' = FilesNaming(signer)
    BY <1>1 DEF FilesNaming, Aliases
  <2>2. pc' # "crashed" => \A signer \in Signers : Heard(signer)' = Heard(signer)
    BY <1>1, <2>1 DEF Heard
  <2> QED BY <1>1, <2>2, SameHeard DEF StoreInv
<1>2. ASSUME UNCHANGED <<files, e, certificates, next, pc>>
      PROVE  StoreInv'
  <2>1. \A signer : FilesNaming(signer)' = FilesNaming(signer) /\ Heard(signer)' = Heard(signer)
    BY <1>2 DEF FilesNaming, Aliases, Heard
  <2>2. \A i, k : Later(i, k)' = Later(i, k)
    BY <1>2 DEF Later
  <2> QED BY <1>2, <2>1, <2>2 DEF StoreInv, Says
<1>3. ASSUME UNCHANGED <<files, e, certificates, next>>, pc' = "crashed"
      PROVE  StoreInv'
  BY <1>3 DEF StoreInv
<1>4. CASE NoTrustStore
  <2>1. pc = "untrusted" /\ pc' = "done" /\ UNCHANGED <<files, e, certificates>>
    BY <1>4 DEF NoTrustStore, RecordAll, unread
  <2> QED BY <2>1 DEF StoreInv
<1>5. CASE LoadCertificates
  <2>1. CASE LoadFile("cert")
    BY <1>5, <2>1, LoadKeepsStore DEF LoadCertificates
  <2>2. CASE LoadRaises("cert")
    BY <1>3, <2>2 DEF LoadRaises, Crash, unread
  <2>3. CASE LoopEnds(files, "keystores")
    <3>1. /\ pc = "certs" /\ pc' = "keystores" /\ next = Len(files) + 1 /\ next' = 1
          /\ UNCHANGED <<files, e, certificates>>
      BY <1>5, <2>3 DEF LoadCertificates, LoopEnds, unread
    <3>2. ASSUME NEW signer
          PROVE  Heard(signer)' = Heard(signer)
      <4>1. \A i \in FilesNaming(signer) : i \in 1..Len(files)
        BY FilesAre DEF FilesNaming
      <4>2. FilesNaming(signer)' = FilesNaming(signer) /\ Len(files) \in Nat
        BY <3>1, FilesAre DEF FilesNaming, Aliases
      <4> QED BY <3>1, <4>1, <4>2 DEF Heard
    <3> QED BY <3>1, <3>2, SameHeard DEF StoreInv
  <2> QED BY <1>5, <2>1, <2>2, <2>3 DEF LoadCertificates
<1>6. CASE LoadKeystores
  <2>1. CASE LoadFile("p12")
    BY <1>6, <2>1, LoadKeepsStore DEF LoadKeystores
  <2>2. CASE LoadRaises("p12")
    BY <1>3, <2>2 DEF LoadRaises, Crash, unread
  <2>3. CASE LoopEnds(files, IF e.phase = "config" THEN "xml" ELSE "build")
    <3>1. /\ pc = "keystores" /\ pc' \in {"xml", "build"} /\ next = Len(files) + 1 /\ next' = 1
          /\ UNCHANGED <<files, e, certificates>>
      BY <1>6, <2>3 DEF LoadKeystores, LoopEnds, unread
    <3>2. ASSUME NEW signer
          PROVE  Heard(signer)' = Heard(signer)
      <4>1. \A i \in FilesNaming(signer) : i \in 1..Len(files)
        BY FilesAre DEF FilesNaming
      <4>2. FilesNaming(signer)' = FilesNaming(signer) /\ Len(files) \in Nat
        BY <3>1, FilesAre DEF FilesNaming, Aliases
      <4> QED BY <3>1, <4>1, <4>2 DEF Heard
    <3> QED BY <3>1, <3>2, SameHeard DEF StoreInv
  <2> QED BY <1>6, <2>1, <2>2, <2>3 DEF LoadKeystores
<1>7. CASE CheckXmlSignature
  BY <1>1, <1>7 DEF CheckXmlSignature, unread, StoreInv
<1>8. CASE BuildChecks
  BY <1>1, <1>8 DEF BuildChecks, RecordAll, unread, StoreInv
<1>9. CASE BuildRaises
  BY <1>3, <1>9 DEF BuildRaises, Crash, unread
<1>10. CASE Verify
  BY <1>1, <1>10 DEF Verify, unread, StoreInv
<1>11. CASE Return
  BY <1>1, <1>11 DEF Return, LoopEnds, unread, StoreInv
<1>12. CASE Tick \/ UNCHANGED vars
  BY <1>2, <1>12 DEF Tick, vars, unread
<1> QED BY <1>4, <1>5, <1>6, <1>7, <1>8, <1>9, <1>10, <1>11, <1>12 DEF Next

LEMMA InitStoreInv == Init => StoreInv
<1> SUFFICES ASSUME Init PROVE StoreInv
  OBVIOUS
<1>1. /\ pc = IF e.trusted THEN "certs" ELSE "untrusted"
      /\ next = 1 /\ certificates = [signer \in Signers |-> NoCert]
  BY DEF Init, ReportInit
<1>2. ASSUME NEW signer \in Signers, pc = "certs"
      PROVE  Says(signer, Heard(signer))
  <2>1. TypeOK
    BY InitTypeOK
  <2>2. \A i \in FilesNaming(signer) : i \in Nat /\ i >= 1
    BY <2>1, FilesAre DEF FilesNaming
  <2>3. Heard(signer) = {}
    BY <1>1, <1>2, <2>2 DEF Heard
  <2> QED BY <1>1, <2>3 DEF Says
<1> QED BY <1>1, <1>2 DEF StoreInv

(* The trust store is what its two loops make of it: a signer is verified  *)
(* with the certificate of the last file that names it, keystores after    *)
(* certificates, and with none if no file does.                            *)
THEOREM LastFileCounts == Spec => []StoreInv
<1>1. TypeOK /\ StoreInv /\ [Next]_vars => StoreInv'
  BY StepStoreInv
<1> QED BY <1>1, InitStoreInv, TypeCorrect, PTL DEF Spec

-----------------------------------------------------------------------------
(* What a signature that is accepted is, and what it was made of.          *)

LEMMA EvidenceIs ==
    ASSUME TypeOK
    PROVE  /\ e.phase \in {"config", "tally"} /\ e.trusted \in BOOLEAN /\ e.xml.present \in BOOLEAN
           /\ e.xml.present => DOMAIN e.xml.signatures = 1..Len(e.xml.signatures)
           /\ DOMAIN e.items = 1..Len(e.items) /\ Len(e.items) \in Nat
           /\ \A i \in DOMAIN e.items : IsItem(e.items[i]) /\ e.items[i].family \in FamiliesOf(e.phase)
           /\ \A family \in FamiliesOf(e.phase) \ Optional :
                \E i \in DOMAIN e.items : e.items[i].family = family
BY EvidenceAssumption DEF TypeOK, IsEvidence

ItemSigned(item) ==
    /\ SignerOf(item) \in Signers
    /\ certificates[SignerOf(item)] # NoCert
    /\ item.signature = [key |-> certificates[SignerOf(item)].key,
                         message |-> Message(GroupOf(item), item), context |-> ContextOf(item)]
XmlSigned ==
    e.xml.present =>
      /\ certificates[XmlSigner] # NoCert
      /\ Len(e.xml.signatures) = 1 /\ e.xml.signatures[1].digest = e.xml.content
      /\ e.xml.signatures[1].key = certificates[XmlSigner].key

(* As long as nothing has failed, what has been verified is signed with    *)
(* the certificate the store has for the signer.                           *)
SignedInv ==
    e.trusted /\ ReportOk =>
      /\ pc = "verify" => \A i \in DOMAIN e.items : i < next => ItemSigned(e.items[i])
      /\ pc = "done" => \A i \in DOMAIN e.items : ItemSigned(e.items[i])
      /\ pc \in {"verify", "done"} \/ (pc = "build" /\ e.phase = "config") => XmlSigned

LEMMA VerdictsMean ==
    /\ \A item : SignatureOk(item) => ItemSigned(item)
    /\ XmlOk => XmlSigned
<1>1. \A item : SignatureOk(item) => ItemSigned(item)
  BY DEF SignatureOk, VerifySignature, ItemSigned
<1>2. XmlOk => XmlSigned
  BY DEF XmlOk, VerifyXmlSignature, XmlSignedBy, XmlSigned, XmlSigner
<1> QED BY <1>1, <1>2

LEMMA SameSigned ==
    ASSUME UNCHANGED <<files, e, certificates>>
    PROVE  /\ \A item : ItemSigned(item)' = ItemSigned(item)
           /\ XmlSigned' = XmlSigned
BY DEF ItemSigned, XmlSigned, XmlSigner, SignerOf, GroupOf, Message, ContextOf

(* Appending to a report never mends it.                                   *)
LEMMA StaysFailed ==
    ASSUME report \in Seq(Entries), NEW more \in Seq(Entries), report' = report \o more, ReportOk'
    PROVE  ReportOk /\ \A k \in DOMAIN more : more[k].ok
<1>1. \A k \in DOMAIN report : k \in DOMAIN report' /\ report'[k] = report[k]
  BY ConcatProperties
<1>2. \A k \in DOMAIN more : Len(report) + k \in DOMAIN report' /\ report'[Len(report) + k] = more[k]
  BY ConcatProperties
<1> QED BY <1>1, <1>2 DEF ReportOk, Failing

LEMMA EntryStays ==
    ASSUME report \in Seq(Entries), NEW id \in Ids, NEW ok \in BOOLEAN,
           report' = Append(report, Entry(id, ok)), ReportOk'
    PROVE  ReportOk /\ ok
<1>1. Entry(id, ok) \in Entries /\ Entry(id, ok).ok = ok
  BY DEF Entry, Entries
<1>2. \A k \in DOMAIN report : k \in DOMAIN report' /\ report'[k] = report[k]
  BY <1>1, AppendProperties
<1>3. Len(report) + 1 \in DOMAIN report' /\ report'[Len(report) + 1] = Entry(id, ok)
  BY <1>1, AppendProperties
<1> QED BY <1>1, <1>2, <1>3 DEF ReportOk, Failing

LEMMA StepSignedInv ==
    ASSUME TypeOK, StoreInv, SignedInv, [Next]_vars
    PROVE  SignedInv'
<1>1. report \in Seq(Entries)
  BY DEF TypeOK, Entries, Ids
<1>2. ASSUME pc' \notin {"build", "verify", "done"}
      PROVE  SignedInv'
  BY <1>2 DEF SignedInv
<1>3. ASSUME UNCHANGED <<files, e, certificates, next, pc, report>>
      PROVE  SignedInv'
  BY <1>3, SameSigned DEF SignedInv, ReportOk, Failing
<1>4. CASE NoTrustStore
  BY <1>4 DEF NoTrustStore, RecordAll, unread, StoreInv, SignedInv
<1>5. CASE LoadCertificates
  BY <1>2, <1>5 DEF LoadCertificates, LoadFile, LoadRaises, Crash, LoopEnds
<1>6. CASE LoadKeystores
  <2>1. pc' \in {"keystores", "crashed", "xml", "build"} /\ e' = e
    BY <1>6 DEF LoadKeystores, LoadFile, LoadRaises, Crash, LoopEnds, unread
  <2>2. pc' = "build" => e.phase # "config"
    BY <1>6 DEF LoadKeystores, LoadFile, LoadRaises, Crash, LoopEnds
  <2> QED BY <2>1, <2>2 DEF SignedInv
<1>7. CASE CheckXmlSignature
  <2>1. PICK ok \in BOOLEAN : ok = XmlOk
    BY VerdictsAreBooleans
  <2>2. /\ pc = "xml" /\ pc' = IF e.phase = "config" THEN "build" ELSE "verify"
        /\ UNCHANGED <<files, e, certificates, next>>
        /\ report' = Append(report, Entry(IF e.phase = "config" THEN "2.01" ELSE "7.05", ok))
    BY <1>7, <2>1 DEF CheckXmlSignature, unread
  <2>3. ReportOk' => ReportOk /\ ok
    BY <1>1, <2>2, EntryStays DEF Ids, ConfigIds, TallyIds
  <2>4. next = 1 /\ \A i \in DOMAIN e.items : ~(i < next)
    BY <2>2, EvidenceIs DEF StoreInv
  <2> QED BY <2>1, <2>2, <2>3, <2>4, VerdictsMean, SameSigned DEF SignedInv
<1>8. CASE BuildChecks
  <2>1. /\ pc = "build" /\ pc' = IF e.phase = "config" THEN "verify" ELSE "xml"
        /\ UNCHANGED <<files, e, certificates, next>> /\ report' = report \o Absent
    BY <1>8 DEF BuildChecks, RecordAll, unread
  <2>2. ReportOk' => ReportOk
    BY <1>1, <2>1, AbsentType, StaysFailed
  <2>3. next = 1 /\ \A i \in DOMAIN e.items : ~(i < next)
    BY <2>1, EvidenceIs DEF StoreInv
  <2> QED BY <2>1, <2>2, <2>3, SameSigned DEF SignedInv
<1>9. CASE BuildRaises
  BY <1>2, <1>9 DEF BuildRaises, Crash
<1>10. CASE Verify
  <2> DEFINE item == e.items[next]
  <2>1. PICK ok \in BOOLEAN : ok = SignatureOk(item)
    BY VerdictsAreBooleans
  <2>2. /\ pc = "verify" /\ pc' = pc /\ next' = next + 1 /\ next \in DOMAIN e.items
        /\ UNCHANGED <<files, e, certificates>>
        /\ report' = Append(report, Entry(CheckOf(item.family), ok))
    BY <1>10, <2>1 DEF Verify, unread
  <2>3. CheckOf(item.family) \in Ids
    BY <2>2, ChecksAreIds, EvidenceIs DEF IsItem
  <2>4. ReportOk' => ReportOk /\ ok
    BY <1>1, <2>2, <2>3, EntryStays
  <2>5. \A i \in DOMAIN e.items : i < next' => i < next \/ i = next
    BY <2>2, EvidenceIs
  <2> QED BY <2>1, <2>2, <2>4, <2>5, VerdictsMean, SameSigned DEF SignedInv
<1>11. CASE Return
  <2>1. /\ pc = "verify" /\ pc' = "done" /\ next = Len(e.items) + 1
        /\ UNCHANGED <<files, e, certificates, report>>
    BY <1>11 DEF Return, LoopEnds, unread
  <2>2. \A i \in DOMAIN e.items : i < next
    BY <2>1, EvidenceIs
  <2>3. ReportOk' = ReportOk
    BY <2>1 DEF ReportOk, Failing
  <2> QED BY <2>1, <2>2, <2>3, SameSigned DEF SignedInv
<1>12. CASE Tick \/ UNCHANGED vars
  BY <1>3, <1>12 DEF Tick, vars, unread
<1> QED BY <1>4, <1>5, <1>6, <1>7, <1>8, <1>9, <1>10, <1>11, <1>12 DEF Next

LEMMA InitSignedInv == Init => SignedInv
BY DEF Init, ReportInit, SignedInv

LEMMA AllSigned == Spec => []SignedInv
<1>1. TypeOK /\ StoreInv /\ SignedInv /\ [Next]_vars => SignedInv'
  BY StepSignedInv
<1> QED BY <1>1, InitSignedInv, TypeCorrect, LastFileCounts, PTL DEF Spec

-----------------------------------------------------------------------------
(* Sorting.  Every place is taken by exactly one part.                     *)

IsParts(parts) ==
    /\ DOMAIN parts = 1..Len(parts) /\ Len(parts) \in Nat
    /\ \A k \in DOMAIN parts : parts[k][1] \in Nat

LEMMA PlacesAreRight ==
    ASSUME NEW parts, IsParts(parts)
    PROVE  /\ \A i \in DOMAIN parts : PlaceOf(parts, i) \in 1..Len(parts)
           /\ \A i, k \in DOMAIN parts : PlaceOf(parts, i) = PlaceOf(parts, k) => i = k
<1> DEFINE n == Len(parts)
           P(i) == {k \in 1..n : Before(parts, k, i)}
<1>1. n \in Nat /\ DOMAIN parts = 1..n /\ \A k \in 1..n : parts[k][1] \in Nat
  BY DEF IsParts
<1> HIDE DEF n
<1>2. IsFiniteSet(1..n) /\ Cardinality(1..n) = n
  BY <1>1, FS_Interval
<1>3. \A i \in 1..n : IsFiniteSet(P(i)) /\ Cardinality(P(i)) \in Nat /\ i \notin P(i)
  <2> TAKE i \in 1..n
  <2>1. IsFiniteSet(P(i))
    BY <1>2, FS_Subset
  <2>2. i \notin P(i)
    BY <1>1 DEF Before
  <2> QED BY <2>1, <2>2, FS_CardinalityType
<1>4. ASSUME NEW i \in 1..n, NEW k \in 1..n, Before(parts, i, k)
      PROVE  Cardinality(P(i)) < Cardinality(P(k))
  <2>1. P(i) \cup {i} \subseteq P(k)
    BY <1>1, <1>4 DEF Before
  <2>2. Cardinality(P(i) \cup {i}) = Cardinality(P(i)) + 1
    BY <1>3, FS_AddElement
  <2>3. Cardinality(P(i) \cup {i}) <= Cardinality(P(k))
    BY <1>3, <2>1, FS_Subset
  <2>4. Cardinality(P(i)) \in Nat /\ Cardinality(P(k)) \in Nat
    BY <1>3
  <2> HIDE DEF P
  <2> QED BY <2>2, <2>3, <2>4
<1>5. ASSUME NEW i \in 1..n
      PROVE  Cardinality(P(i)) + 1 \in 1..n
  <2>1. P(i) \cup {i} \subseteq 1..n
    OBVIOUS
  <2>2. Cardinality(P(i) \cup {i}) = Cardinality(P(i)) + 1
    BY <1>3, FS_AddElement
  <2>3. Cardinality(P(i) \cup {i}) <= n
    BY <1>2, <2>1, FS_Subset
  <2>4. Cardinality(P(i)) \in Nat
    BY <1>3
  <2> HIDE DEF P
  <2> QED BY <1>1, <2>2, <2>3, <2>4
<1>6. \A i, k \in 1..n : i # k => Before(parts, i, k) \/ Before(parts, k, i)
  BY <1>1 DEF Before
<1>7. \A i \in 1..n : PlaceOf(parts, i) = Cardinality(P(i)) + 1
  BY <1>1 DEF PlaceOf
<1>8. ASSUME NEW i \in 1..n, NEW k \in 1..n, PlaceOf(parts, i) = PlaceOf(parts, k), i # k
      PROVE  FALSE
  <2>1. Cardinality(P(i)) = Cardinality(P(k))
    BY <1>3, <1>7, <1>8
  <2>2. Cardinality(P(i)) < Cardinality(P(k)) \/ Cardinality(P(k)) < Cardinality(P(i))
    BY <1>4, <1>6, <1>8
  <2> QED BY <1>3, <2>1, <2>2
<1> QED BY <1>1, <1>5, <1>7, <1>8 DEF n

(* What is sorted is a rearrangement of what there was.                    *)
LEMMA SortedRearranges ==
    ASSUME NEW parts, IsParts(parts)
    PROVE  /\ DOMAIN BySortKey(parts) = DOMAIN parts
           /\ \A i \in DOMAIN parts : BySortKey(parts)[PlaceOf(parts, i)] = parts[i]
           /\ \A k \in DOMAIN parts : \E i \in DOMAIN parts : PlaceOf(parts, i) = k
           /\ \E p \in Bijection(DOMAIN parts, DOMAIN parts) :
                \A k \in DOMAIN parts : BySortKey(parts)[p[k]] = parts[k]
<1> DEFINE D == DOMAIN parts
           p == [i \in D |-> PlaceOf(parts, i)]
<1>1. D = 1..Len(parts) /\ Len(parts) \in Nat
  BY DEF IsParts
<1>2. p \in Injection(D, D)
  BY <1>1, PlacesAreRight DEF Injection, IsInjective
<1>3. IsFiniteSet(D)
  BY <1>1, FS_Interval
<1>4. p \in Bijection(D, D)
  BY <1>2, <1>3, FS_Injection DEF Bijection
<1>5. ASSUME NEW k \in D
      PROVE  BySortKey(parts)[p[k]] = parts[k]
  <2>1. p[k] \in D /\ p[k] = PlaceOf(parts, k)
    BY <1>1, PlacesAreRight
  <2>2. \A i \in D : PlaceOf(parts, i) = p[k] => i = k
    BY <2>1, PlacesAreRight
  <2>3. (CHOOSE i \in D : PlaceOf(parts, i) = p[k]) = k
    BY <2>1, <2>2
  <2> QED BY <2>1, <2>3 DEF BySortKey
<1>6. \A k \in D : \E i \in D : p[i] = k
  BY <1>4, Fun_BijectionProperties
<1> QED BY <1>4, <1>5, <1>6 DEF BySortKey

(* What is the same when it is sorted is a rearrangement of the other.     *)
LEMMA SameWhenSorted ==
    ASSUME NEW one, NEW other, IsParts(one), IsParts(other), BySortKey(one) = BySortKey(other)
    PROVE  \E p \in Bijection(DOMAIN one, DOMAIN other) :
             \A k \in DOMAIN one : one[k] = other[p[k]]
<1> DEFINE D == DOMAIN one
<1>1. DOMAIN other = D
  BY SortedRearranges
<1>2. PICK a \in Bijection(D, D) : \A k \in D : BySortKey(one)[a[k]] = one[k]
  BY SortedRearranges
<1>3. PICK b \in Bijection(D, D) : \A k \in D : BySortKey(one)[b[k]] = other[k]
  BY <1>1, SortedRearranges
<1> HIDE DEF D
<1> DEFINE back == Inverse(b, D, D)
           p == [k \in D |-> back[a[k]]]
<1>4. back \in Bijection(D, D)
  BY Fun_BijInverse
<1>5. p \in Bijection(D, D)
  BY <1>2, <1>4, Fun_BijTransitive
<1>6. ASSUME NEW k \in D
      PROVE  one[k] = other[p[k]]
  <2>1. a[k] \in D
    BY <1>2, Fun_BijectionProperties
  <2>2. PICK m \in D : b[m] = a[k]
    BY <1>3, <2>1, Fun_BijectionProperties
  <2>3. back[a[k]] = m
    BY <1>3, <2>2, Fun_BijInverse
  <2>4. p[k] = m
    BY <2>3
  <2> QED BY <1>2, <1>3, <2>2, <2>4
<1> QED BY <1>1, <1>5, <1>6 DEF D

-----------------------------------------------------------------------------
(* Message and context tell the item.                                      *)

LEMMA ContextIs ==
    ASSUME NEW item
    PROVE  /\ item.family = "setupKeys" => ContextOf(item) = <<"public keys", "setup", item.event>>
           /\ item.family = "onlineKeys" => ContextOf(item) = <<"OnlineCC keys", item.node, item.event>>
           /\ item.family = "tallyData" => ContextOf(item) = <<"tally data", item.event, item.id>>
           /\ item.family = "context" => ContextOf(item) = <<"election event context", item.event>>
           /\ item.family = "ballotBox" => ContextOf(item) = <<"ballotbox", item.node, item.event, item.id>>
           /\ item.family = "shuffle" => ContextOf(item) = <<"shuffle", item.node, item.event, item.id>>
           /\ item.family = "finalShuffle" => ContextOf(item) = <<"shuffle", "offline", item.event, item.id>>
           /\ item.family = "finalVotes" => ContextOf(item) = <<"decoded votes", item.event, item.id>>
BY DEF ContextOf

LEMMA MessageIs ==
    ASSUME NEW item, NEW group
    PROVE  /\ item.family \in {"setupKeys", "context"} =>
                Message(group, item) = <<group, item.event, BySortKey(item.parts)>>
           /\ item.family = "onlineKeys" => Message(group, item) = <<group, item.event, <<item.node, item.parts>>>>
           /\ item.family = "tallyData" => Message(group, item) = <<group, item.event, item.id, item.parts>>
           /\ item.family = "ballotBox" =>
                Message(group, item) = <<group, item.event, item.id, item.node, BySortKey(item.parts)>>
           /\ item.family = "shuffle" =>
                Message(group, item) = <<group, item.event, item.id, item.node, item.parts, "decryptions">>
           /\ item.family = "finalShuffle" =>
                Message(group, item) = <<group, item.event, item.id, item.parts, "decryptions">>
           /\ item.family = "finalVotes" =>
                Message(group, item) = <<group, item.event, item.id, item.parts, "decoded", "write-ins">>
BY DEF Message

LEMMA SignerIs ==
    ASSUME NEW item
    PROVE  /\ item.family \in {"onlineKeys", "ballotBox", "shuffle"} => SignerOf(item) = Component(item.node)
           /\ item.family \in {"finalShuffle", "finalVotes"} => SignerOf(item) = "sdm_tally"
           /\ item.family \in {"setupKeys", "tallyData", "context"} => SignerOf(item) = "sdm_config"
BY DEF SignerOf

(* The first word of a context tells the families apart, but for the two   *)
(* kinds of shuffles.                                                      *)
LEMMA FirstWord ==
    ASSUME NEW item
    PROVE  /\ item.family = "setupKeys" => ContextOf(item)[1] = "public keys"
           /\ item.family = "onlineKeys" => ContextOf(item)[1] = "OnlineCC keys"
           /\ item.family = "tallyData" => ContextOf(item)[1] = "tally data"
           /\ item.family = "context" => ContextOf(item)[1] = "election event context"
           /\ item.family = "ballotBox" => ContextOf(item)[1] = "ballotbox"
           /\ item.family \in {"shuffle", "finalShuffle"} => ContextOf(item)[1] = "shuffle"
           /\ item.family = "finalVotes" => ContextOf(item)[1] = "decoded votes"
<1>1. CASE item.family = "setupKeys"
  <2> DEFINE word == "public keys"
             context == ContextOf(item)
  <2>1. context = <<word, "setup", item.event>>
    BY <1>1, ContextIs
  <2> HIDE DEF word, context
  <2>2. context[1] = word
    BY <2>1
  <2>3. ContextOf(item)[1] = "public keys"
    BY <2>2, Zenon DEF word, context
  <2> QED BY <1>1, <2>3
<1>2. CASE item.family = "onlineKeys"
  <2> DEFINE word == "OnlineCC keys"
             context == ContextOf(item)
  <2>1. context = <<word, item.node, item.event>>
    BY <1>2, ContextIs
  <2> HIDE DEF word, context
  <2>2. context[1] = word
    BY <2>1
  <2>3. ContextOf(item)[1] = "OnlineCC keys"
    BY <2>2, Zenon DEF word, context
  <2> QED BY <1>2, <2>3
<1>3. CASE item.family = "tallyData"
  <2> DEFINE word == "tally data"
             context == ContextOf(item)
  <2>1. context = <<word, item.event, item.id>>
    BY <1>3, ContextIs
  <2> HIDE DEF word, context
  <2>2. context[1] = word
    BY <2>1
  <2>3. ContextOf(item)[1] = "tally data"
    BY <2>2, Zenon DEF word, context
  <2> QED BY <1>3, <2>3
<1>4. CASE item.family = "context"
  <2> DEFINE word == "election event context"
             context == ContextOf(item)
  <2>1. context = <<word, item.event>>
    BY <1>4, ContextIs
  <2> HIDE DEF word, context
  <2>2. context[1] = word
    BY <2>1
  <2>3. ContextOf(item)[1] = "election event context"
    BY <2>2, Zenon DEF word, context
  <2> QED BY <1>4, <2>3
<1>5. CASE item.family = "ballotBox"
  <2> DEFINE word == "ballotbox"
             context == ContextOf(item)
  <2>1. context = <<word, item.node, item.event, item.id>>
    BY <1>5, ContextIs
  <2> HIDE DEF word, context
  <2>2. context[1] = word
    BY <2>1
  <2>3. ContextOf(item)[1] = "ballotbox"
    BY <2>2, Zenon DEF word, context
  <2> QED BY <1>5, <2>3
<1>6. CASE item.family = "shuffle"
  <2> DEFINE word == "shuffle"
             context == ContextOf(item)
  <2>1. context = <<word, item.node, item.event, item.id>>
    BY <1>6, ContextIs
  <2> HIDE DEF word, context
  <2>2. context[1] = word
    BY <2>1
  <2>3. ContextOf(item)[1] = "shuffle"
    BY <2>2, Zenon DEF word, context
  <2> QED BY <1>6, <2>3
<1>7. CASE item.family = "finalShuffle"
  <2> DEFINE word == "shuffle"
             context == ContextOf(item)
  <2>1. context = <<word, "offline", item.event, item.id>>
    BY <1>7, ContextIs
  <2> HIDE DEF word, context
  <2>2. context[1] = word
    BY <2>1
  <2>3. ContextOf(item)[1] = "shuffle"
    BY <2>2, Zenon DEF word, context
  <2> QED BY <1>7, <2>3
<1>8. CASE item.family = "finalVotes"
  <2> DEFINE word == "decoded votes"
             context == ContextOf(item)
  <2>1. context = <<word, item.event, item.id>>
    BY <1>8, ContextIs
  <2> HIDE DEF word, context
  <2>2. context[1] = word
    BY <2>1
  <2>3. ContextOf(item)[1] = "decoded votes"
    BY <2>2, Zenon DEF word, context
  <2> QED BY <1>8, <2>3
<1>9. CASE item.family \notin ConfigFamilies \cup TallyFamilies
  BY <1>9 DEF ConfigFamilies, TallyFamilies
<1> QED BY <1>1, <1>2, <1>3, <1>4, <1>5, <1>6, <1>7, <1>8, <1>9 DEF ConfigFamilies, TallyFamilies

(* Two payloads that are signed alike are of one family, event, component, *)
(* ballot box and card set, in one group, and have the same parts.         *)
LEMMA SignedTells ==
    ASSUME NEW item, NEW other, NEW group, IsItem(item), IsItem(other),
           ContextOf(other) = ContextOf(item),
           Message(other.group, other) = Message(group, item)
    PROVE  /\ other.group = group /\ other.family = item.family /\ other.event = item.event
           /\ other.node = item.node /\ other.id = item.id /\ SameParts(other, item)
<1>1. /\ item.family \in ConfigFamilies \cup TallyFamilies /\ other.family \in ConfigFamilies \cup TallyFamilies
      /\ IsParts(item.parts) /\ IsParts(other.parts)
      /\ item.family \in {"onlineKeys", "ballotBox", "shuffle"} <=> item.node # 0
      /\ other.family \in {"onlineKeys", "ballotBox", "shuffle"} <=> other.node # 0
      /\ item.family \in {"setupKeys", "onlineKeys", "context"} => item.id = NoId
      /\ other.family \in {"setupKeys", "onlineKeys", "context"} => other.id = NoId
  BY DEF IsItem, IsParts
<1>2. other.family = item.family
  <2>1. ContextOf(other)[1] = ContextOf(item)[1]
    OBVIOUS
  <2>2. other.family = item.family \/ {other.family, item.family} = {"shuffle", "finalShuffle"}
    BY <1>1, <2>1, FirstWord DEF ConfigFamilies, TallyFamilies
  <2>3. ASSUME NEW one, NEW two, NEW g, NEW h, one.family = "shuffle", two.family = "finalShuffle"
        PROVE  Message(g, one) # Message(h, two)
    <3>1. Len(Message(g, one)) = 6 /\ Len(Message(h, two)) = 5
      BY <2>3, MessageIs
    <3> QED BY <3>1
  <2> QED BY <2>2, <2>3
<1>3. CASE item.family \in {"setupKeys", "context"}
  <2>1. /\ Message(group, item) = <<group, item.event, BySortKey(item.parts)>>
        /\ Message(other.group, other) = <<other.group, other.event, BySortKey(other.parts)>>
    BY <1>2, <1>3, MessageIs
  <2>2. other.group = group /\ other.event = item.event /\ BySortKey(other.parts) = BySortKey(item.parts)
    BY <2>1
  <2>3. SameParts(other, item)
    BY <1>1, <1>2, <1>3, <2>2, SameWhenSorted DEF SameParts
  <2> QED BY <1>1, <1>2, <1>3, <2>2, <2>3
<1>4. CASE item.family = "ballotBox"
  <2>1. /\ Message(group, item) = <<group, item.event, item.id, item.node, BySortKey(item.parts)>>
        /\ Message(other.group, other) =
              <<other.group, other.event, other.id, other.node, BySortKey(other.parts)>>
    BY <1>2, <1>4, MessageIs
  <2>2. /\ other.group = group /\ other.event = item.event /\ other.id = item.id /\ other.node = item.node
        /\ BySortKey(other.parts) = BySortKey(item.parts)
    BY <2>1
  <2>3. SameParts(other, item)
    BY <1>1, <1>2, <1>4, <2>2, SameWhenSorted DEF SameParts
  <2> QED BY <1>2, <2>2, <2>3
<1>5. CASE item.family = "onlineKeys"
  <2>1. /\ Message(group, item) = <<group, item.event, <<item.node, item.parts>>>>
        /\ Message(other.group, other) = <<other.group, other.event, <<other.node, other.parts>>>>
    BY <1>2, <1>5, MessageIs
  <2>2. /\ other.group = group /\ other.event = item.event /\ other.node = item.node
        /\ other.parts = item.parts
    BY <2>1
  <2> QED BY <1>1, <1>2, <1>5, <2>2 DEF SameParts
<1>6. CASE item.family = "shuffle"
  <2>1. /\ Message(group, item) = <<group, item.event, item.id, item.node, item.parts, "decryptions">>
        /\ Message(other.group, other) =
              <<other.group, other.event, other.id, other.node, other.parts, "decryptions">>
    BY <1>2, <1>6, MessageIs
  <2>2. /\ other.group = group /\ other.event = item.event /\ other.id = item.id /\ other.node = item.node
        /\ other.parts = item.parts
    BY <2>1
  <2> QED BY <1>2, <1>6, <2>2 DEF SameParts
<1>7. CASE item.family \in {"tallyData", "finalShuffle", "finalVotes"}
  <2>1. /\ other.group = group /\ other.event = item.event /\ other.id = item.id
        /\ other.parts = item.parts
    <3>1. CASE item.family = "tallyData"
      BY <1>2, <3>1, MessageIs
    <3>2. CASE item.family = "finalShuffle"
      BY <1>2, <3>2, MessageIs
    <3>3. CASE item.family = "finalVotes"
      BY <1>2, <3>3, MessageIs
    <3> QED BY <1>7, <3>1, <3>2, <3>3
  <2> QED BY <1>1, <1>2, <1>7, <2>1 DEF SameParts
<1> QED BY <1>1, <1>3, <1>4, <1>5, <1>6, <1>7 DEF ConfigFamilies, TallyFamilies

(* There is one last file that names a signer.                             *)
LEMMA OneIsLast ==
    ASSUME TypeOK, NEW signer, NEW i \in FilesNaming(signer),
           \A k \in FilesNaming(signer) : Later(k, i)
    PROVE  LastFileNaming(signer) = i
<1> DEFINE F == FilesNaming(signer)
<1>1. \A k \in F : k \in Nat /\ files[k].kind \in {"cert", "p12"}
  BY FilesAre DEF FilesNaming
<1>2. ASSUME NEW j \in F, \A k \in F : Later(k, j)
      PROVE  j = i
  <2>1. Later(i, j) /\ Later(j, i)
    BY <1>2
  <2> QED BY <1>1, <2>1 DEF Later
<1> QED BY <1>2 DEF LastFileNaming

LEMMA GenuineKey ==
    ASSUME TypeOK, StoreInv, GenuineStore, pc = "done", e.trusted, NEW signer \in Signers,
           certificates[signer] # NoCert
    PROVE  certificates[signer].key = signer
<1>1. Heard(signer) = FilesNaming(signer)
  BY DEF Heard
<1>2. Says(signer, FilesNaming(signer))
  BY <1>1 DEF StoreInv
<1>3. PICK i \in FilesNaming(signer) :
        /\ \A k \in FilesNaming(signer) : Later(k, i)
        /\ certificates[signer] = EntryOf(files[i])
  BY <1>2 DEF Says
<1>4. LastFileNaming(signer) = i
  BY <1>3, OneIsLast
<1> QED BY <1>3, <1>4 DEF GenuineStore

(* What is accepted was signed as it stands by whom it names, if RSA-PSS   *)
(* and the hash are ideal, for all trust stores and signed files.          *)
THEOREM NothingForged == Spec => []AcceptedAsSigned
<1>1. ASSUME TypeOK, StoreInv, SignedInv
      PROVE  AcceptedAsSigned
  <2> SUFFICES ASSUME pc = "done", e.trusted, ReportOk, GenuineStore,
                      \A i \in DOMAIN e.items : e.items[i].group = e.group
               PROVE  /\ \A i \in DOMAIN e.items : \E o \in Originals :
                           /\ o.signer = SignerOf(e.items[i]) /\ SameParts(o.item, e.items[i])
                           /\ \A field \in {"family", "group", "event", "node", "id"} :
                                o.item[field] = e.items[i][field]
                      /\ e.xml.present =>
                           \E k \in DOMAIN e.xml.signatures :
                             /\ Len(e.xml.signatures) = 1
                             /\ e.xml.signatures[k].digest = e.xml.content
                             /\ e.xml.signatures[k].key = IF e.phase = "config" THEN "canton" ELSE "sdm_tally"
    BY DEF AcceptedAsSigned
  <2>1. ASSUME NEW i \in DOMAIN e.items
        PROVE  \E o \in Originals :
                 /\ o.signer = SignerOf(e.items[i]) /\ SameParts(o.item, e.items[i])
                 /\ \A field \in {"family", "group", "event", "node", "id"} :
                      o.item[field] = e.items[i][field]
    <3> DEFINE item == e.items[i]
               signer == SignerOf(item)
    <3>1. /\ signer \in Signers /\ certificates[signer] # NoCert
          /\ item.signature = [key |-> certificates[signer].key,
                               message |-> Message(GroupOf(item), item), context |-> ContextOf(item)]
      BY <1>1 DEF SignedInv, ItemSigned
    <3>2. certificates[signer].key = signer
      BY <1>1, <3>1, GenuineKey
    <3>3. item.signature.key = signer /\ item.signature.context = ContextOf(item)
          /\ item.signature.message = Message(GroupOf(item), item)
      BY <3>1, <3>2
    <3>4. e \in Evidence
      BY <1>1 DEF TypeOK
    <3>5. PICK o \in Originals :
            /\ o.signer = signer /\ ContextOf(o.item) = ContextOf(item)
            /\ Message(o.item.group, o.item) = Message(GroupOf(item), item)
      BY <3>1, <3>3, <3>4, IdealSignatures
    <3>6. IsItem(item) /\ IsItem(o.item)
      BY <1>1, EvidenceIs, OriginalsAssumption
    <3>7. GroupOf(item) = item.group
      BY DEF GroupOf
    <3> DEFINE other == o.item
    <3> HIDE DEF item, other
    <3>8. /\ other.group = item.group /\ other.family = item.family /\ other.event = item.event
          /\ other.node = item.node /\ other.id = item.id /\ SameParts(other, item)
      BY <3>5, <3>6, <3>7, SignedTells DEF other
    <3> QED BY <3>5, <3>8 DEF item, other
  <2>2. ASSUME e.xml.present
        PROVE  \E k \in DOMAIN e.xml.signatures :
                 /\ Len(e.xml.signatures) = 1
                 /\ e.xml.signatures[k].digest = e.xml.content
                 /\ e.xml.signatures[k].key = IF e.phase = "config" THEN "canton" ELSE "sdm_tally"
    <3>1. XmlSigned /\ XmlSigner \in Signers
      BY <1>1 DEF SignedInv, XmlSigner, Signers
    <3>2. certificates[XmlSigner].key = XmlSigner
      BY <1>1, <2>2, <3>1, GenuineKey DEF XmlSigned
    <3>3. 1 \in DOMAIN e.xml.signatures
      BY <1>1, <2>2, <3>1, EvidenceIs DEF XmlSigned
    <3> QED BY <2>2, <3>1, <3>2, <3>3 DEF XmlSigned, XmlSigner
  <2> QED BY <2>1, <2>2
<1> QED BY <1>1, TypeCorrect, LastFileCounts, AllSigned, PTL

-----------------------------------------------------------------------------
(* How many verdicts there are of a check.                                 *)

Verdicts(id) == {k \in DOMAIN report : report[k].id = id}
ItemsOf(family, n) == {i \in DOMAIN e.items : i < n /\ e.items[i].family = family}
Present(family) == \E i \in DOMAIN e.items : e.items[i].family = family
XmlId == IF e.phase = "config" THEN "2.01" ELSE "7.05"
Reached == IF pc = "done" THEN Len(e.items) + 1 ELSE next

CountInv ==
    /\ pc \in {"untrusted", "certs", "keystores"} => report = <<>>
    /\ pc \in {"xml", "build", "verify", "done"} /\ e.trusted =>
         \A family \in FamiliesOf(e.phase) :
           Present(family) =>
             Cardinality(Verdicts(CheckOf(family))) = Cardinality(ItemsOf(family, Reached))
    /\ e.trusted /\ (pc \in {"verify", "done"} \/ (pc = "xml" /\ e.phase # "config")) =>
         \A family \in FamiliesOf(e.phase) : Present(family) \/ Ran(CheckOf(family))
    /\ e.trusted /\ (pc \in {"verify", "done"} \/ (pc = "build" /\ e.phase = "config")) => Ran(XmlId)
    /\ ~e.trusted /\ pc = "done" => \A id \in CheckIds : Ran(id)

(* Every family has a check of its own, and the XML file another.          *)
LEMMA OneCheckEach ==
    ASSUME TypeOK
    PROVE  /\ \A one, other \in FamiliesOf(e.phase) : CheckOf(one) = CheckOf(other) => one = other
           /\ \A family \in FamiliesOf(e.phase) : CheckOf(family) \in Ids /\ CheckOf(family) # XmlId
           /\ \A id \in CheckIds : id = XmlId \/ \E family \in FamiliesOf(e.phase) : id = CheckOf(family)
           /\ XmlId \in Ids
<1>1. e.phase \in {"config", "tally"}
  BY EvidenceIs
<1>2. /\ CheckOf("setupKeys") = "2.02" /\ CheckOf("onlineKeys") = "2.03" /\ CheckOf("tallyData") = "2.04"
      /\ CheckOf("context") = "2.05" /\ CheckOf("ballotBox") = "7.01" /\ CheckOf("shuffle") = "7.02"
      /\ CheckOf("finalShuffle") = "7.03" /\ CheckOf("finalVotes") = "7.04"
  BY DEF CheckOf
<1>3. CASE e.phase = "config"
  <2>1. FamiliesOf(e.phase) = {"setupKeys", "onlineKeys", "tallyData", "context"} /\ XmlId = "2.01"
        /\ CheckIds = {"2.01", "2.02", "2.03", "2.04", "2.05"}
    BY <1>3 DEF FamiliesOf, ConfigFamilies, XmlId, CheckIds, ConfigIds
  <2> QED BY <1>2, <2>1 DEF Ids, ConfigIds
<1>4. CASE e.phase = "tally"
  <2>1. FamiliesOf(e.phase) = {"ballotBox", "shuffle", "finalShuffle", "finalVotes"} /\ XmlId = "7.05"
        /\ CheckIds = {"7.01", "7.02", "7.03", "7.04", "7.05"}
    BY <1>4 DEF FamiliesOf, TallyFamilies, XmlId, CheckIds, TallyIds
  <2> QED BY <1>2, <2>1 DEF Ids, TallyIds
<1> QED BY <1>1, <1>3, <1>4

LEMMA VerdictsFinite ==
    ASSUME TypeOK, NEW id
    PROVE  IsFiniteSet(Verdicts(id)) /\ DOMAIN report = 1..Len(report) /\ Len(report) \in Nat
<1>1. DOMAIN report = 1..Len(report) /\ Len(report) \in Nat
  BY DEF TypeOK
<1>2. IsFiniteSet(1..Len(report))
  BY <1>1, FS_Interval
<1> QED BY <1>1, <1>2, FS_Subset DEF Verdicts

LEMMA OneMoreVerdict ==
    ASSUME TypeOK, NEW id \in Ids, NEW ok \in BOOLEAN, report' = Append(report, Entry(id, ok))
    PROVE  /\ Cardinality(Verdicts(id))' = Cardinality(Verdicts(id)) + 1
           /\ \A x : x # id => Verdicts(x)' = Verdicts(x)
           /\ Ran(id)'
           /\ \A x : Ran(x) => Ran(x)'
<1>1. report \in Seq(Entries) /\ Entry(id, ok) \in Entries /\ Entry(id, ok).id = id
  BY DEF TypeOK, Entries, Ids, Entry
<1>2. /\ DOMAIN report = 1..Len(report) /\ Len(report) \in Nat
      /\ DOMAIN report' = 1..(Len(report) + 1)
      /\ report'[Len(report) + 1] = Entry(id, ok)
      /\ \A k \in DOMAIN report : report'[k] = report[k]
  BY <1>1, AppendProperties
<1>3. \A x : x # id => Verdicts(x)' = Verdicts(x)
  BY <1>1, <1>2 DEF Verdicts
<1>4. Verdicts(id)' = Verdicts(id) \cup {Len(report) + 1} /\ Len(report) + 1 \notin Verdicts(id)
  BY <1>1, <1>2 DEF Verdicts
<1>5. Cardinality(Verdicts(id) \cup {Len(report) + 1}) = Cardinality(Verdicts(id)) + 1
  BY <1>4, VerdictsFinite, FS_AddElement
<1>6. Ran(id)' /\ \A x : Ran(x) => Ran(x)'
  BY <1>1, <1>2 DEF Ran
<1> QED BY <1>3, <1>4, <1>5, <1>6

(* The checks that are passed because there is nothing to check are those  *)
(* of the families that may be absent and are.                             *)
LEMMA AbsenceIs ==
    ASSUME NEW family
    PROVE  AbsenceOf(family) = IF Present(family) THEN <<>> ELSE <<Entry(CheckOf(family), TRUE)>>
BY Zenon DEF AbsenceOf, Present

LEMMA AbsentIds ==
    ASSUME TypeOK
    PROVE  /\ Absent \in Seq(Entries)
           /\ \A k \in DOMAIN Absent : \E family \in FamiliesOf(e.phase) :
                ~Present(family) /\ Absent[k].id = CheckOf(family)
           /\ \A family \in FamiliesOf(e.phase) :
                Present(family) \/ \E k \in DOMAIN Absent : Absent[k].id = CheckOf(family)
<1>1. \A family \in FamiliesOf(e.phase) : family \in Optional \/ Present(family)
  BY EvidenceIs DEF Present
<1>2. \A family : Entry(CheckOf(family), TRUE).id = CheckOf(family)
  BY DEF Entry
<1>3. CASE e.phase = "config"
  <2>1. Absent = IF Present("onlineKeys") THEN <<>> ELSE <<Entry(CheckOf("onlineKeys"), TRUE)>>
    BY <1>3, AbsenceIs DEF Absent
  <2>2. "onlineKeys" \in FamiliesOf(e.phase) /\ FamiliesOf(e.phase) \cap Optional = {"onlineKeys"}
    BY <1>3 DEF FamiliesOf, ConfigFamilies, Optional
  <2>3. CASE Present("onlineKeys")
    BY <1>1, <2>1, <2>2, <2>3, AbsentType
  <2>4. CASE ~Present("onlineKeys")
    <3> DEFINE entry == Entry(CheckOf("onlineKeys"), TRUE)
    <3>1. Absent = <<entry>> /\ entry.id = CheckOf("onlineKeys")
      BY <1>2, <2>1, <2>4
    <3> HIDE DEF entry
    <3>2. DOMAIN Absent = {1} /\ Absent[1].id = CheckOf("onlineKeys")
      BY <3>1
    <3> QED BY <1>1, <2>2, <2>4, <3>2, AbsentType
  <2> QED BY <2>3, <2>4
<1>4. CASE e.phase # "config"
  <2> DEFINE shuffle == AbsenceOf("finalShuffle")
             votes == AbsenceOf("finalVotes")
             one == Entry(CheckOf("finalShuffle"), TRUE)
             two == Entry(CheckOf("finalVotes"), TRUE)
  <2>1. Absent = shuffle \o votes
    BY <1>4 DEF Absent
  <2>2. /\ "finalShuffle" \in FamiliesOf(e.phase) /\ "finalVotes" \in FamiliesOf(e.phase)
        /\ FamiliesOf(e.phase) \cap Optional = {"finalShuffle", "finalVotes"}
    BY <1>4 DEF FamiliesOf, TallyFamilies, Optional
  <2>3. /\ shuffle = IF Present("finalShuffle") THEN <<>> ELSE <<one>>
        /\ votes = IF Present("finalVotes") THEN <<>> ELSE <<two>>
        /\ one.id = CheckOf("finalShuffle") /\ two.id = CheckOf("finalVotes")
    BY <1>2, AbsenceIs
  <2> HIDE DEF shuffle, votes, one, two
  <2>4. CASE Present("finalShuffle") /\ Present("finalVotes")
    <3>1. Absent = <<>>
      BY <2>1, <2>3, <2>4
    <3> QED BY <1>1, <2>2, <2>4, <3>1
  <2>5. CASE Present("finalShuffle") /\ ~Present("finalVotes")
    <3>1. DOMAIN Absent = {1} /\ Absent[1] = two
      BY <2>1, <2>3, <2>5
    <3> QED BY <1>1, <2>2, <2>3, <2>5, <3>1, AbsentType
  <2>6. CASE ~Present("finalShuffle") /\ Present("finalVotes")
    <3>1. DOMAIN Absent = {1} /\ Absent[1] = one
      BY <2>1, <2>3, <2>6
    <3> QED BY <1>1, <2>2, <2>3, <2>6, <3>1, AbsentType
  <2>7. CASE ~Present("finalShuffle") /\ ~Present("finalVotes")
    <3>1. DOMAIN Absent = {1, 2} /\ Absent[1] = one /\ Absent[2] = two
      BY <2>1, <2>3, <2>7
    <3> QED BY <1>1, <2>2, <2>3, <2>7, <3>1, AbsentType
  <2> QED BY <2>4, <2>5, <2>6, <2>7
<1> QED BY <1>3, <1>4

LEMMA NoneYet ==
    ASSUME TypeOK, report = <<>>, Reached = 1, NEW family
    PROVE  Cardinality(Verdicts(CheckOf(family))) = Cardinality(ItemsOf(family, Reached))
<1>1. Verdicts(CheckOf(family)) = {}
  BY DEF Verdicts
<1>2. ItemsOf(family, Reached) = {}
  BY EvidenceIs DEF ItemsOf
<1> QED BY <1>1, <1>2

(* Nothing is counted and nothing is reached.                              *)
LEMMA SameCount ==
    ASSUME CountInv, UNCHANGED <<e, report>>, Reached' = Reached, e.trusted,
           pc \in {"xml", "build", "verify", "done"},
           NEW family \in FamiliesOf(e.phase), Present(family)
    PROVE  (Cardinality(Verdicts(CheckOf(family))) = Cardinality(ItemsOf(family, Reached)))'
BY DEF CountInv, Verdicts, ItemsOf, CheckOf

LEMMA ItemsFinite ==
    ASSUME TypeOK, NEW family, NEW n
    PROVE  IsFiniteSet(ItemsOf(family, n))
<1>1. DOMAIN e.items = 1..Len(e.items) /\ Len(e.items) \in Nat
  BY EvidenceIs
<1>2. IsFiniteSet(DOMAIN e.items)
  <2>1. PICK length \in Nat : length = Len(e.items)
    BY <1>1
  <2>2. IsFiniteSet(1..length)
    BY FS_Interval
  <2> QED BY <1>1, <2>1, <2>2
<1> QED BY <1>2, FS_Subset DEF ItemsOf

LEMMA VerifyCounts ==
    ASSUME TypeOK, StoreInv, CountInv, Verify
    PROVE  CountInv'
<1> DEFINE item == e.items[next]
<1>0. PICK own : own = item.family
  OBVIOUS
<1>1. PICK ok \in BOOLEAN : ok = SignatureOk(item)
  BY VerdictsAreBooleans
<1>2. /\ pc = "verify" /\ pc' = pc /\ next' = next + 1 /\ next \in DOMAIN e.items
      /\ UNCHANGED <<files, e>> /\ report' = Append(report, Entry(CheckOf(own), ok))
  BY <1>0, <1>1 DEF Verify, unread
<1>3. own \in FamiliesOf(e.phase) /\ CheckOf(own) \in Ids /\ next \in Nat /\ e.trusted
  BY <1>0, <1>2, EvidenceIs, OneCheckEach DEF StoreInv
<1>4. /\ Cardinality(Verdicts(CheckOf(own)))' = Cardinality(Verdicts(CheckOf(own))) + 1
      /\ \A x : x # CheckOf(own) => Verdicts(x)' = Verdicts(x)
      /\ \A x : Ran(x) => Ran(x)'
  BY <1>1, <1>2, <1>3, OneMoreVerdict
<1>5. Reached = next /\ Reached' = next + 1 /\ XmlId' = XmlId
      /\ \A f : Present(f)' = Present(f) /\ CheckOf(f)' = CheckOf(f)
  BY <1>2 DEF Reached, XmlId, Present, CheckOf
<1>6. ASSUME NEW family \in FamiliesOf(e.phase), Present(family)
      PROVE  (Cardinality(Verdicts(CheckOf(family))) = Cardinality(ItemsOf(family, Reached)))'
  <2>1. Cardinality(Verdicts(CheckOf(family))) = Cardinality(ItemsOf(family, next))
    BY <1>2, <1>3, <1>5, <1>6 DEF CountInv
  <2>2. CASE family = own
    <3>1. ItemsOf(family, next + 1) = ItemsOf(family, next) \cup {next} /\ next \notin ItemsOf(family, next)
      BY <1>0, <1>2, <1>3, <2>2, EvidenceIs DEF ItemsOf
    <3>2. IsFiniteSet(ItemsOf(family, next))
      BY ItemsFinite
    <3>3. Cardinality(ItemsOf(family, next) \cup {next}) = Cardinality(ItemsOf(family, next)) + 1
      BY <3>1, <3>2, FS_AddElement
    <3>4. ItemsOf(family, Reached)' = ItemsOf(family, next + 1)
      BY <1>2, <1>5 DEF ItemsOf
    <3>5. Verdicts(CheckOf(family))' = Verdicts(CheckOf(own))'
      BY <1>5, <2>2 DEF Verdicts
    <3> QED BY <1>4, <2>1, <2>2, <3>1, <3>3, <3>4, <3>5
  <2>3. CASE family # own
    <3>1. CheckOf(family) # CheckOf(own)
      BY <1>3, <2>3, OneCheckEach
    <3>2. Verdicts(CheckOf(family))' = Verdicts(CheckOf(family))
      BY <1>4, <3>1
    <3>3. ItemsOf(family, Reached)' = ItemsOf(family, next)
      BY <1>0, <1>2, <1>3, <1>5, <2>3, EvidenceIs DEF ItemsOf
    <3> QED BY <2>1, <3>2, <3>3
  <2> QED BY <2>2, <2>3
<1> QED BY <1>2, <1>3, <1>4, <1>5, <1>6 DEF CountInv

LEMMA StepCountInv ==
    ASSUME TypeOK, StoreInv, CountInv, [Next]_vars
    PROVE  CountInv'
<1>1. CASE NoTrustStore
  <2> DEFINE ids == IF e.phase = "config" THEN <<"2.01", "2.02", "2.03", "2.04", "2.05">>
                    ELSE <<"7.01", "7.02", "7.03", "7.04", "7.05">>
             entries == [k \in 1..5 |-> Entry(ids[k], TRUE)]
  <2>1. /\ pc = "untrusted" /\ pc' = "done" /\ e' = e /\ ~e.trusted
        /\ report = <<>> /\ report' = report \o entries
    BY <1>1 DEF NoTrustStore, RecordAll, unread, CountInv, StoreInv
  <2>2. \A k \in 1..5 : entries[k].id = ids[k]
    BY DEF Entry
  <2>3. \A id \in CheckIds : \E k \in 1..5 : ids[k] = id
    BY DEF CheckIds, ConfigIds, TallyIds
  <2> HIDE DEF ids
  <2>4. entries \in Seq({Entry(ids[k], TRUE) : k \in 1..5}) /\ DOMAIN entries = 1..5 /\ Len(entries) = 5
    <3> DEFINE E == {Entry(ids[k], TRUE) : k \in 1..5}
    <3>1. entries \in [1..5 -> E]
      OBVIOUS
    <3> HIDE DEF entries, E
    <3>2. entries \in Seq(E)
      BY <3>1, SeqDef
    <3>3. DOMAIN entries = 1..5 /\ Len(entries) = 5
      BY <3>1, <3>2, LenProperties
    <3> QED BY <3>2, <3>3 DEF E
  <2> HIDE DEF entries
  <2>5. report' = entries
    BY <2>1, <2>4
  <2>6. \A id \in CheckIds : Ran(id)'
    BY <2>2, <2>3, <2>4, <2>5 DEF Ran
  <2>7. CheckIds' = CheckIds
    BY <2>1 DEF CheckIds
  <2> QED BY <2>1, <2>6, <2>7 DEF CountInv
<1>2. ASSUME UNCHANGED <<e, report>>, pc \in {"certs", "keystores"},
             \/ pc' \in {"certs", "keystores", "crashed"}
             \/ pc' \in {"xml", "build"} /\ next' = 1 /\ (pc' = "xml" <=> e.phase = "config")
      PROVE  CountInv'
  <2>1. report = <<>>
    BY <1>2 DEF CountInv
  <2>2. CASE pc' \in {"certs", "keystores", "crashed"}
    BY <1>2, <2>1, <2>2 DEF CountInv
  <2>3. CASE pc' \in {"xml", "build"} /\ next' = 1 /\ (pc' = "xml" <=> e.phase = "config")
    <3>1. Reached' = 1
      BY <2>3 DEF Reached
    <3>2. \A family : Verdicts(CheckOf(family))' = {}
      BY <1>2, <2>1 DEF Verdicts
    <3>3. \A family : ItemsOf(family, Reached)' = {}
      BY <1>2, <3>1, EvidenceIs DEF ItemsOf
    <3> QED BY <1>2, <2>3, <3>2, <3>3 DEF CountInv
  <2> QED BY <1>2, <2>2, <2>3
<1>3. CASE LoadCertificates
  BY <1>2, <1>3 DEF LoadCertificates, LoadFile, LoadRaises, LoopEnds, Crash, unread
<1>4. CASE LoadKeystores
  BY <1>2, <1>4 DEF LoadKeystores, LoadFile, LoadRaises, LoopEnds, Crash, unread
<1>5. CASE CheckXmlSignature
  <2>0. PICK id : id = XmlId
    OBVIOUS
  <2>1. PICK ok \in BOOLEAN : ok = XmlOk
    BY VerdictsAreBooleans
  <2>2. /\ pc = "xml" /\ pc' = IF e.phase = "config" THEN "build" ELSE "verify"
        /\ UNCHANGED <<e, next>> /\ report' = Append(report, Entry(id, ok))
    BY <1>5, <2>0, <2>1 DEF CheckXmlSignature, unread, XmlId
  <2>3. /\ \A x : x # id => Verdicts(x)' = Verdicts(x)
        /\ Ran(id)' /\ \A x : Ran(x) => Ran(x)'
    BY <2>0, <2>1, <2>2, OneCheckEach, OneMoreVerdict
  <2>4. /\ Reached' = Reached /\ XmlId' = XmlId /\ e.trusted
        /\ \A f : Present(f)' = Present(f) /\ CheckOf(f)' = CheckOf(f)
    BY <2>2 DEF Reached, XmlId, Present, CheckOf, StoreInv
  <2>5. \A family \in FamiliesOf(e.phase) :
          /\ Verdicts(CheckOf(family))' = Verdicts(CheckOf(family))
          /\ ItemsOf(family, Reached)' = ItemsOf(family, Reached)
    BY <2>0, <2>2, <2>3, <2>4, OneCheckEach DEF ItemsOf
  <2>6. Ran(XmlId)'
    BY <2>0, <2>3, <2>4 DEF Ran
  <2> QED BY <2>2, <2>3, <2>4, <2>5, <2>6 DEF CountInv
<1>6. CASE BuildChecks
  <2>1. /\ pc = "build" /\ pc' = IF e.phase = "config" THEN "verify" ELSE "xml"
        /\ UNCHANGED <<e, next>> /\ report' = report \o Absent
    BY <1>6 DEF BuildChecks, RecordAll, unread
  <2>2. /\ \A k \in DOMAIN report : k \in DOMAIN report' /\ report'[k] = report[k]
        /\ \A k \in DOMAIN Absent : Len(report) + k \in DOMAIN report' /\ report'[Len(report) + k] = Absent[k]
        /\ \A k \in DOMAIN report' :
             k \in DOMAIN report \/ \E j \in DOMAIN Absent : report'[k] = Absent[j]
    <3> DEFINE more == Absent
    <3>1. report \in Seq(Entries) /\ more \in Seq(Entries) /\ report' = report \o more
      BY <2>1, AbsentIds DEF TypeOK, Entries, Ids
    <3> HIDE DEF more
    <3>2. /\ DOMAIN report = 1..Len(report) /\ DOMAIN more = 1..Len(more)
          /\ Len(report) \in Nat /\ Len(more) \in Nat
          /\ DOMAIN report' = 1..(Len(report) + Len(more))
          /\ \A k \in 1..(Len(report) + Len(more)) :
               report'[k] = IF k <= Len(report) THEN report[k] ELSE more[k - Len(report)]
      BY <3>1, ConcatProperties
    <3>3. \A k \in DOMAIN report' :
            k \in DOMAIN report \/ (k - Len(report) \in DOMAIN more /\ report'[k] = more[k - Len(report)])
      BY <3>2
    <3>4. \A k \in DOMAIN more :
            Len(report) + k \in DOMAIN report' /\ report'[Len(report) + k] = more[k]
      BY <3>2
    <3> QED BY <3>2, <3>3, <3>4 DEF more
  <2>3. /\ \A x : Ran(x) => Ran(x)'
        /\ \A x : (\E k \in DOMAIN Absent : Absent[k].id = x) => Ran(x)'
    BY <2>2 DEF Ran
  <2>4. \A x : (\A k \in DOMAIN Absent : Absent[k].id # x) => Verdicts(x)' = Verdicts(x)
    BY <2>2 DEF Verdicts
  <2>5. /\ Reached' = Reached /\ XmlId' = XmlId /\ e.trusted
        /\ \A f : Present(f)' = Present(f) /\ CheckOf(f)' = CheckOf(f)
    BY <2>1 DEF Reached, XmlId, Present, CheckOf, StoreInv
  <2>6. \A family \in FamiliesOf(e.phase) : Present(family) =>
          /\ Verdicts(CheckOf(family))' = Verdicts(CheckOf(family))
          /\ ItemsOf(family, Reached)' = ItemsOf(family, Reached)
    <3> TAKE family \in FamiliesOf(e.phase)
    <3> HAVE Present(family)
    <3>1. \A k \in DOMAIN Absent : Absent[k].id # CheckOf(family)
      BY AbsentIds, OneCheckEach
    <3> QED BY <2>1, <2>4, <2>5, <3>1 DEF ItemsOf
  <2>7. \A family \in FamiliesOf(e.phase) : Present(family) \/ Ran(CheckOf(family))'
    BY <2>3, AbsentIds
  <2> QED BY <2>1, <2>3, <2>5, <2>6, <2>7 DEF CountInv
<1>7. CASE BuildRaises
  BY <1>7 DEF BuildRaises, Crash, CountInv, unread
<1>8. CASE Verify
  BY <1>8, VerifyCounts
<1>9. CASE Return
  <2>1. /\ pc = "verify" /\ pc' = "done" /\ next = Len(e.items) + 1 /\ UNCHANGED <<e, report>>
    BY <1>9 DEF Return, LoopEnds, unread
  <2>2. Reached' = Reached /\ e.trusted
    BY <2>1 DEF Reached, StoreInv
  <2> QED BY <2>1, <2>2 DEF CountInv, Verdicts, ItemsOf, CheckOf, Present, XmlId, Ran
<1>10. CASE Tick \/ UNCHANGED vars
  <2>1. UNCHANGED <<e, report, pc, next>>
    BY <1>10 DEF Tick, vars, unread
  <2> QED BY <2>1 DEF CountInv, Verdicts, ItemsOf, CheckOf, Present, XmlId, Ran, Reached, CheckIds
<1> QED BY <1>1, <1>3, <1>4, <1>5, <1>6, <1>7, <1>8, <1>9, <1>10 DEF Next

LEMMA InitCountInv == Init => CountInv
BY DEF Init, ReportInit, CountInv

LEMMA CountsGive ==
    ASSUME TypeOK, CountInv
    PROVE  EveryCheckReported
<1> SUFFICES ASSUME pc = "done"
             PROVE  /\ \A id \in CheckIds : Ran(id)
                    /\ e.trusted =>
                         \A i \in DOMAIN e.items :
                           Cardinality({k \in DOMAIN report : report[k].id = CheckOf(e.items[i].family)})
                             = Cardinality({k \in DOMAIN e.items : e.items[k].family = e.items[i].family})
  BY DEF EveryCheckReported
<1>1. CASE ~e.trusted
  BY <1>1 DEF CountInv
<1>2. CASE e.trusted
  <2>1. Reached = Len(e.items) + 1
    BY DEF Reached
  <2>2. \A family : ItemsOf(family, Reached) = {k \in DOMAIN e.items : e.items[k].family = family}
    BY <2>1, EvidenceIs DEF ItemsOf
  <2>3. ASSUME NEW family \in FamiliesOf(e.phase)
        PROVE  /\ Present(family) => Cardinality(Verdicts(CheckOf(family))) = Cardinality(ItemsOf(family, Reached))
               /\ Ran(CheckOf(family))
    <3>1. Present(family) => Cardinality(Verdicts(CheckOf(family))) = Cardinality(ItemsOf(family, Reached))
      BY <1>2 DEF CountInv
    <3>2. Present(family) \/ Ran(CheckOf(family))
      BY <1>2, Zenon DEF CountInv
    <3>3. CASE Present(family)
      <4>1. PICK i \in ItemsOf(family, Reached) : TRUE
        BY <2>2, <3>3 DEF Present
      <4>2. Verdicts(CheckOf(family)) # {}
        <5>1. IsFiniteSet(ItemsOf(family, Reached))
          BY ItemsFinite
        <5>2. Cardinality(ItemsOf(family, Reached)) # 0
          BY <4>1, <5>1, FS_EmptySet
        <5> QED BY <3>1, <3>3, <5>2, FS_EmptySet
      <4> QED BY <3>1, <4>2 DEF Verdicts, Ran
    <3> QED BY <3>1, <3>2, <3>3
  <2>4. Ran(XmlId)
    BY <1>2, Zenon DEF CountInv
  <2>5. \A id \in CheckIds : Ran(id)
    BY <2>3, <2>4, OneCheckEach
  <2>6. \A i \in DOMAIN e.items : Present(e.items[i].family) /\ e.items[i].family \in FamiliesOf(e.phase)
    BY EvidenceIs DEF Present
  <2> QED BY <2>2, <2>3, <2>5, <2>6 DEF Verdicts
<1> QED BY <1>1, <1>2, EvidenceIs

(* Every check of the phase is in the report, whatever files there are,    *)
(* and it has one verdict for every payload.                               *)
THEOREM OneVerdictEach == Spec => []EveryCheckReported
<1>1. TypeOK /\ StoreInv /\ CountInv /\ [Next]_vars => CountInv'
  BY StepCountInv
<1>2. TypeOK /\ CountInv => EveryCheckReported
  BY CountsGive
<1> QED BY <1>1, <1>2, InitCountInv, TypeCorrect, LastFileCounts, PTL DEF Spec

-----------------------------------------------------------------------------
(* Honest evidence.                                                        *)

(* Without equal sort keys the order before sorting does not matter.       *)
LEMMA SortedAlike ==
    ASSUME NEW one, NEW other, IsParts(one), IsParts(other),
           NEW p \in Bijection(DOMAIN one, DOMAIN other), \A k \in DOMAIN one : one[k] = other[p[k]],
           \A i, k \in DOMAIN other : other[i][1] = other[k][1] => i = k
    PROVE  BySortKey(one) = BySortKey(other)
<1> DEFINE D == DOMAIN one
           E == DOMAIN other
<1>1. D = 1..Len(one) /\ E = 1..Len(other) /\ Len(one) \in Nat /\ Len(other) \in Nat
      /\ (\A k \in D : one[k][1] \in Nat) /\ \A k \in E : other[k][1] \in Nat
  BY DEF IsParts
<1>2. /\ p \in [D -> E] /\ (\A i, k \in D : p[i] = p[k] => i = k)
      /\ \A l \in E : \E k \in D : p[k] = l
  BY Fun_BijectionProperties
<1>3. D = E
  <2>1. ExistsBijection(D, E)
    BY DEF ExistsBijection
  <2>2. \A n \in Nat : IsFiniteSet(1..n) /\ Cardinality(1..n) = n
    BY FS_Interval
  <2>3. IsFiniteSet(D) /\ Cardinality(D) = Len(one) /\ Cardinality(E) = Len(other)
    BY <1>1, <2>2
  <2>4. Cardinality(E) = Cardinality(D)
    BY <2>1, <2>3, FS_Bijection
  <2> QED BY <1>1, <2>3, <2>4
<1>4. ASSUME NEW i \in D, NEW k \in D
      PROVE  Before(one, i, k) <=> Before(other, p[i], p[k])
  <2>1. /\ one[i][1] = other[p[i]][1] /\ one[k][1] = other[p[k]][1] /\ p[i] \in E /\ p[k] \in E
        /\ one[i][1] \in Nat /\ one[k][1] \in Nat
    BY <1>1, <1>2
  <2>2. one[i][1] = one[k][1] => p[i] = p[k] /\ i = k
    BY <1>2, <2>1
  <2>3. i \in Nat /\ p[i] \in Nat
    BY <1>1, <2>1
  <2> QED BY <2>1, <2>2, <2>3 DEF Before
<1>5. ASSUME NEW i \in D
      PROVE  PlaceOf(one, i) = PlaceOf(other, p[i])
  <2> DEFINE S == {k \in D : Before(one, k, i)}
             T == {l \in E : Before(other, l, p[i])}
             q == [k \in S |-> p[k]]
  <2>1. q \in Bijection(S, T)
    <3>1. q \in [S -> T]
      BY <1>2, <1>4
    <3>2. \A j, k \in S : q[j] = q[k] => j = k
      BY <1>2
    <3>3. \A l \in T : \E k \in S : q[k] = l
      <4> SUFFICES ASSUME NEW l \in T PROVE \E k \in S : q[k] = l
        OBVIOUS
      <4>1. PICK k \in D : p[k] = l
        BY <1>2
      <4>2. k \in S
        BY <1>4, <4>1
      <4> QED BY <4>1, <4>2
    <3> HIDE DEF S, T, q
    <3> QED BY <3>1, <3>2, <3>3 DEF Bijection, Injection, Surjection, IsInjective
  <2>2. IsFiniteSet(S)
    <3>1. \A n \in Nat : IsFiniteSet(1..n)
      BY FS_Interval
    <3>2. IsFiniteSet(D)
      BY <1>1, <3>1
    <3>3. S \subseteq D
      OBVIOUS
    <3> QED BY <3>2, <3>3, FS_Subset
  <2>3. Cardinality(T) = Cardinality(S)
    BY <2>1, <2>2, FS_Bijection DEF ExistsBijection
  <2> QED BY <2>3 DEF PlaceOf
<1>6. ASSUME NEW k \in D
      PROVE  BySortKey(one)[k] = BySortKey(other)[k]
  <2>1. PICK i \in D : PlaceOf(one, i) = k
    BY SortedRearranges
  <2>2. BySortKey(one)[k] = one[i]
    BY <2>1, SortedRearranges
  <2>3. p[i] \in E /\ PlaceOf(other, p[i]) = k
    BY <1>2, <1>5, <2>1
  <2>4. BySortKey(other)[k] = other[p[i]]
    BY <2>3, SortedRearranges
  <2> QED BY <2>2, <2>4
<1> QED BY <1>3, <1>6 DEF BySortKey

LEMMA SignedAlike ==
    ASSUME NEW o, NEW item, IsItem(o.item), IsItem(item), SignedBy(o, item), item.group = e.group
    PROVE  /\ item.signature = [key |-> SignerOf(item), message |-> Message(GroupOf(item), item),
                                context |-> ContextOf(item)]
<1> DEFINE other == o.item
           F == item.family
<1>1. /\ other.family = F /\ other.group = item.group /\ other.event = item.event
      /\ other.node = item.node /\ other.id = item.id
  BY DEF SignedBy
<1>2. F \in ConfigFamilies \cup TallyFamilies /\ IsParts(other.parts) /\ IsParts(item.parts)
  BY DEF IsItem, IsParts
<1>3. GroupOf(item) = item.group
  BY DEF GroupOf
<1>4. F \notin {"setupKeys", "context", "ballotBox"} => other.parts = item.parts
  BY <1>1 DEF SignedBy, SameParts
<1>5. BySortKey(other.parts) = BySortKey(item.parts)
  <2>1. CASE other.parts = item.parts
    BY <2>1
  <2>2. CASE other.parts # item.parts
    <3>1. /\ F \in {"setupKeys", "context", "ballotBox"}
          /\ \A i, k \in DOMAIN item.parts : item.parts[i][1] = item.parts[k][1] => i = k
      BY <1>4, <2>2 DEF SignedBy
    <3>2. PICK p \in Bijection(DOMAIN other.parts, DOMAIN item.parts) :
            \A k \in DOMAIN other.parts : other.parts[k] = item.parts[p[k]]
      BY <1>1, <3>1 DEF SignedBy, SameParts
    <3> QED BY <1>2, <3>1, <3>2, SortedAlike
  <2> QED BY <2>1, <2>2
<1>6. ContextOf(other) = ContextOf(item)
  BY <1>1 DEF ContextOf
<1>7. Message(other.group, other) = Message(item.group, item)
  <2>1. CASE F \in {"setupKeys", "context"}
    BY <1>1, <1>5, <2>1, MessageIs
  <2>2. CASE F = "ballotBox"
    BY <1>1, <1>5, <2>2, MessageIs
  <2>3. CASE F = "onlineKeys"
    BY <1>1, <1>4, <2>3, MessageIs
  <2>4. CASE F = "tallyData"
    BY <1>1, <1>4, <2>4, MessageIs
  <2>5. CASE F = "shuffle"
    BY <1>1, <1>4, <2>5, MessageIs
  <2>6. CASE F = "finalShuffle"
    BY <1>1, <1>4, <2>6, MessageIs
  <2>7. CASE F = "finalVotes"
    BY <1>1, <1>4, <2>7, MessageIs
  <2> QED BY <1>2, <2>1, <2>2, <2>3, <2>4, <2>5, <2>6, <2>7 DEF ConfigFamilies, TallyFamilies
<1> QED BY <1>3, <1>6, <1>7 DEF SignedBy

(* The time of a run is bounded.                                           *)
InTime == now \in Nat /\ now <= EndOfTime

LEMMA StepInTime ==
    ASSUME InTime, [Next]_vars
    PROVE  InTime'
<1>1. now' = now \/ (now < EndOfTime /\ now' = now + 1)
  BY DEF Next, NoTrustStore, LoadCertificates, LoadKeystores, LoadFile, LoadRaises, LoopEnds,
         CheckXmlSignature, BuildChecks, BuildRaises, Verify, Return, Tick, vars
<1> QED BY <1>1, EndOfTimeAssumption DEF InTime

(* The certificate that a trust store for honest evidence comes to have.   *)
LEMMA HonestCertificate ==
    ASSUME TypeOK, StoreInv, InTime, HonestStore, pc \in {"xml", "build", "verify"},
           NEW signer \in {SignerOf(e.items[i]) : i \in DOMAIN e.items}
                            \cup (IF e.xml.present THEN {XmlSigner} ELSE {}),
           signer \in Signers
    PROVE  /\ certificates[signer] # NoCert /\ certificates[signer].key = signer
           /\ ValidAt(certificates[signer], now)
<1>1. Heard(signer) = FilesNaming(signer) /\ FilesNaming(signer) # {}
  BY DEF Heard, HonestStore
<1>2. Says(signer, FilesNaming(signer))
  BY <1>1 DEF StoreInv
<1>3. PICK i \in FilesNaming(signer) :
        /\ \A k \in FilesNaming(signer) : Later(k, i)
        /\ certificates[signer] = EntryOf(files[i])
  BY <1>1, <1>2 DEF Says
<1>4. LastFileNaming(signer) = i
  BY <1>3, OneIsLast
<1> DEFINE cert == certificates[signer]
<1>5. cert.key = signer /\ cert.from <= 0 /\ EndOfTime < cert.until
  BY <1>3, <1>4 DEF HonestStore
<1>6. cert \in Certificate
  <2>1. i \in DOMAIN files /\ files[i].certs # <<>> /\ files[i].certs \in Seq(Certificate)
    BY DirectoriesAssumption DEF TypeOK, FilesNaming
  <2> QED BY <1>3, <2>1 DEF EntryOf
<1>7. cert.from \in Int /\ cert.until \in Int
  BY <1>6 DEF Certificate
<1>8. cert # NoCert
  BY <1>5, <1>7, EndOfTimeAssumption DEF NoCert
<1> HIDE DEF cert
<1>9. ValidAt(cert, now)
  BY <1>5, <1>7, EndOfTimeAssumption DEF ValidAt, InTime
<1> QED BY <1>5, <1>8, <1>9 DEF cert

LEMMA HonestItemPasses ==
    ASSUME TypeOK, StoreInv, InTime, HonestEvidence, HonestStore, pc \in {"xml", "build", "verify"},
           NEW i \in DOMAIN e.items
    PROVE  SignatureOk(e.items[i])
<1> DEFINE item == e.items[i]
<1>1. PICK o \in Originals : SignedBy(o, item)
  BY DEF HonestEvidence
<1>2. item.group = e.group
  BY DEF HonestEvidence
<1>3. IsItem(item)
  BY EvidenceIs
<1>4. IsItem(o.item) /\ o.signer \in Signers
  BY OriginalsAssumption
<1>5. SignerOf(item) \in Signers
  BY <1>1, <1>4 DEF SignedBy
<1> DEFINE cert == certificates[SignerOf(item)]
<1>6. cert # NoCert /\ cert.key = SignerOf(item) /\ ValidAt(cert, now)
  BY <1>5, HonestCertificate
<1>7. item.signature = [key |-> SignerOf(item), message |-> Message(GroupOf(item), item),
                        context |-> ContextOf(item)]
  BY <1>1, <1>2, <1>3, <1>4, SignedAlike
<1> HIDE DEF item
<1>8. item.signature = [key |-> cert.key, message |-> Message(GroupOf(item), item),
                        context |-> ContextOf(item)]
  BY <1>6, <1>7
<1>9. SignatureOk(item)
  BY <1>5, <1>6, <1>8 DEF SignatureOk, VerifySignature
<1> QED BY <1>9 DEF item

LEMMA HonestXmlPasses ==
    ASSUME TypeOK, StoreInv, InTime, HonestEvidence, HonestStore, pc \in {"xml", "build", "verify"}
    PROVE  XmlOk
<1> SUFFICES ASSUME e.xml.present PROVE XmlOk
  BY DEF XmlOk
<1> DEFINE cert == certificates[XmlSigner]
<1>1. XmlSigner \in Signers
  BY DEF XmlSigner, Signers
<1>2. cert # NoCert /\ cert.key = XmlSigner /\ ValidAt(cert, now)
  BY <1>1, HonestCertificate
<1> QED BY <1>2 DEF XmlOk, VerifyXmlSignature, XmlSignedBy, HonestEvidence, XmlSigner

LEMMA StillOk ==
    ASSUME report \in Seq(Entries), ReportOk, NEW more \in Seq(Entries), report' = report \o more,
           \A k \in DOMAIN more : more[k].ok
    PROVE  ReportOk'
<1>1. ASSUME NEW k \in DOMAIN report'
      PROVE  report'[k].ok
  <2>1. CASE k <= Len(report)
    <3>1. k \in DOMAIN report /\ report'[k] = report[k]
      BY <2>1, ConcatProperties
    <3> QED BY <3>1 DEF ReportOk, Failing
  <2>2. CASE ~(k <= Len(report))
    <3>1. k - Len(report) \in DOMAIN more /\ report'[k] = more[k - Len(report)]
      BY <2>2, ConcatProperties
    <3> QED BY <3>1
  <2> QED BY <2>1, <2>2
<1> QED BY <1>1 DEF ReportOk, Failing

LEMMA EntryStillOk ==
    ASSUME report \in Seq(Entries), ReportOk, NEW id \in Ids, NEW ok \in BOOLEAN, ok = TRUE,
           report' = Append(report, Entry(id, ok))
    PROVE  ReportOk'
<1> DEFINE entry == Entry(id, ok)
<1>1. entry \in Entries /\ entry.ok
  BY DEF Entry, Entries
<1>2. report' = Append(report, entry)
  OBVIOUS
<1> HIDE DEF entry
<1>3. ASSUME NEW k \in DOMAIN report'
      PROVE  report'[k].ok
  <2>1. (k \in DOMAIN report /\ report'[k] = report[k]) \/ report'[k] = entry
    <3>1. report' \in Seq(Entries) /\ Len(report') = Len(report) + 1 /\ Len(report) \in Nat
      BY <1>1, <1>2, AppendProperties
    <3>2. /\ \A l \in 1..Len(report) : report'[l] = report[l]
          /\ report'[Len(report) + 1] = entry
      BY <1>1, <1>2, AppendProperties
    <3>3. k \in 1..Len(report) \/ k = Len(report) + 1
      BY <3>1
    <3>4. DOMAIN report = 1..Len(report)
      OBVIOUS
    <3> QED BY <3>2, <3>3, <3>4
  <2> QED BY <1>1, <2>1 DEF ReportOk, Failing
<1> QED BY <1>3 DEF ReportOk, Failing

(* The five checks that are passed without a trust store.                  *)
LEMMA UntrustedOk ==
    ASSUME TypeOK, ReportOk, NoTrustStore
    PROVE  ReportOk'
<1> DEFINE ids == IF e.phase = "config" THEN <<"2.01", "2.02", "2.03", "2.04", "2.05">>
                  ELSE <<"7.01", "7.02", "7.03", "7.04", "7.05">>
           entries == [k \in 1..5 |-> Entry(ids[k], TRUE)]
<1>1. \A k \in 1..5 : ids[k] \in Ids
  BY DEF Ids, ConfigIds, TallyIds
<1>2. entries \in Seq(Entries) /\ \A k \in DOMAIN entries : entries[k].ok
  <2> HIDE DEF ids
  <2>1. \A k \in 1..5 : Entry(ids[k], TRUE) \in Entries /\ Entry(ids[k], TRUE).ok
    BY <1>1 DEF Entry, Entries
  <2>2. entries \in [1..5 -> Entries] /\ \A k \in DOMAIN entries : entries[k].ok
    BY <2>1
  <2> HIDE DEF entries
  <2> QED BY <2>2, SeqDef
<1>3. report' = report \o entries
  BY DEF NoTrustStore, RecordAll
<1>4. report \in Seq(Entries)
  BY DEF TypeOK, Entries, Ids
<1> HIDE DEF entries
<1> QED BY <1>2, <1>3, <1>4, StillOk

(* What may be absent and is, is no failure.                               *)
LEMMA AbsentOk == \A k \in DOMAIN Absent : Absent[k].ok
<1>1. \A family : AbsenceOf(family) = <<>> \/ AbsenceOf(family) = <<Entry(CheckOf(family), TRUE)>>
  BY Zenon DEF AbsenceOf
<1>2. \A family : Entry(CheckOf(family), TRUE).ok
  BY DEF Entry
<1>3. ASSUME NEW family
      PROVE  \A k \in DOMAIN AbsenceOf(family) : AbsenceOf(family)[k].ok
  <2> DEFINE entry == Entry(CheckOf(family), TRUE)
  <2>1. entry.ok /\ (AbsenceOf(family) = <<>> \/ AbsenceOf(family) = <<entry>>)
    BY <1>1, <1>2
  <2> HIDE DEF entry
  <2> QED BY <2>1
<1>4. /\ AbsenceOf("finalShuffle") \in Seq(Entries)
      /\ AbsenceOf("finalVotes") \in Seq(Entries)
  BY AbsenceType DEF ConfigFamilies, TallyFamilies
<1> DEFINE shuffle == AbsenceOf("finalShuffle")
           votes == AbsenceOf("finalVotes")
<1>5. \A k \in DOMAIN (shuffle \o votes) : (shuffle \o votes)[k].ok
  <2>1. /\ shuffle \in Seq(Entries) /\ votes \in Seq(Entries)
        /\ (\A k \in DOMAIN shuffle : shuffle[k].ok) /\ \A k \in DOMAIN votes : votes[k].ok
    BY <1>3, <1>4
  <2> HIDE DEF shuffle, votes
  <2> QED BY <2>1, ConcatProperties
<1>6. CASE e.phase = "config"
  BY <1>3, <1>6 DEF Absent
<1>7. CASE e.phase # "config"
  BY <1>5, <1>7 DEF Absent
<1> QED BY <1>6, <1>7

(* The evidence and the trust store's files are fixed from the start.      *)
LEMMA HonestStays ==
    ASSUME UNCHANGED <<files, e>>, HonestEvidence', HonestStore'
    PROVE  HonestEvidence /\ HonestStore
<1>1. HonestEvidence
  BY DEF HonestEvidence, XmlSigner
<1>2. HonestStore
  <2>1. \A signer : FilesNaming(signer)' = FilesNaming(signer)
    BY DEF FilesNaming
  <2>2. \A i, k : Later(i, k)' = Later(i, k)
    BY DEF Later
  <2>3. \A signer : LastFileNaming(signer)' = LastFileNaming(signer)
    BY <2>1, <2>2 DEF LastFileNaming
  <2>4. XmlSigner' = XmlSigner
    BY DEF XmlSigner
  <2> QED BY <2>1, <2>3, <2>4 DEF HonestStore
<1> QED BY <1>1, <1>2

LEMMA StepHonestAccepted ==
    ASSUME TypeOK, StoreInv, InTime, HonestSignaturesAccepted, [Next]_vars
    PROVE  HonestSignaturesAccepted'
<1> SUFFICES ASSUME HonestEvidence', HonestStore' PROVE pc' # "crashed" /\ ReportOk'
  BY DEF HonestSignaturesAccepted
<1>1. UNCHANGED <<files, e>>
  BY DEF Next, NoTrustStore, LoadCertificates, LoadKeystores, LoadFile, LoadRaises, LoopEnds,
         CheckXmlSignature, BuildChecks, BuildRaises, Verify, Return, Tick, vars, unread
<1>2. HonestEvidence /\ HonestStore
  BY <1>1, HonestStays
<1>3. pc # "crashed" /\ ReportOk
  BY <1>2 DEF HonestSignaturesAccepted
<1>4. report \in Seq(Entries)
  BY DEF TypeOK, Entries, Ids
<1>5. report' = report => ReportOk'
  BY <1>3 DEF ReportOk, Failing
<1>6. CASE NoTrustStore
  BY <1>3, <1>6, UntrustedOk DEF NoTrustStore, RecordAll
<1>7. CASE LoadCertificates
  <2>1. ~LoadRaises("cert")
    BY <1>2 DEF LoadRaises, HonestStore
  <2> QED BY <1>3, <1>5, <1>7, <2>1 DEF LoadCertificates, LoadFile, LoopEnds
<1>8. CASE LoadKeystores
  <2>1. ~LoadRaises("p12")
    BY <1>2 DEF LoadRaises, HonestStore
  <2> QED BY <1>3, <1>5, <1>8, <2>1 DEF LoadKeystores, LoadFile, LoopEnds
<1>9. CASE CheckXmlSignature
  <2>1. XmlOk
    BY <1>2, <1>9, HonestXmlPasses DEF CheckXmlSignature
  <2>2. PICK ok \in BOOLEAN : ok = XmlOk
    BY VerdictsAreBooleans
  <2>3. PICK id \in Ids : report' = Append(report, Entry(id, ok))
    <3>1. report' = Append(report, Entry(IF e.phase = "config" THEN "2.01" ELSE "7.05", ok))
      BY <1>9, <2>2 DEF CheckXmlSignature
    <3> QED BY <3>1 DEF Ids, ConfigIds, TallyIds
  <2>4. ReportOk'
    BY <1>3, <1>4, <2>1, <2>2, <2>3, EntryStillOk
  <2> QED BY <1>9, <2>4 DEF CheckXmlSignature
<1>10. CASE BuildChecks
  <2>1. report' = report \o Absent /\ pc' # "crashed"
    BY <1>10 DEF BuildChecks, RecordAll
  <2> QED BY <1>3, <1>4, <2>1, AbsentType, AbsentOk, StillOk
<1>11. CASE BuildRaises
  BY <1>2, <1>11 DEF BuildRaises, Buildable, HonestEvidence
<1>12. CASE Verify
  <2> DEFINE item == e.items[next]
  <2>1. next \in DOMAIN e.items /\ pc = "verify" /\ pc' = pc
    BY <1>12 DEF Verify
  <2>2. SignatureOk(item)
    BY <1>2, <2>1, HonestItemPasses
  <2>3. PICK ok \in BOOLEAN : ok = SignatureOk(item)
    BY VerdictsAreBooleans
  <2>4. report' = Append(report, Entry(CheckOf(item.family), ok))
    BY <1>12, <2>3 DEF Verify
  <2>5. CheckOf(item.family) \in Ids
    BY <2>1, ChecksAreIds, EvidenceIs DEF IsItem
  <2>6. ReportOk'
    BY <1>3, <1>4, <2>2, <2>3, <2>4, <2>5, EntryStillOk
  <2> QED BY <2>1, <2>6
<1>13. CASE Return
  BY <1>5, <1>13 DEF Return, LoopEnds
<1>14. CASE Tick \/ UNCHANGED vars
  BY <1>3, <1>5, <1>14 DEF Tick, vars
<1> QED BY <1>6, <1>7, <1>8, <1>9, <1>10, <1>11, <1>12, <1>13, <1>14 DEF Next

LEMMA InitHonestAccepted == Init => InTime /\ HonestSignaturesAccepted
<1> SUFFICES ASSUME Init PROVE InTime /\ HonestSignaturesAccepted
  OBVIOUS
<1>1. now = 0 /\ report = <<>> /\ pc # "crashed"
  BY DEF Init, ReportInit
<1> QED BY <1>1, EndOfTimeAssumption DEF InTime, HonestSignaturesAccepted, ReportOk, Failing

(* What the components signed is accepted, for any trust store whose last  *)
(* file that names a signer has that signer's certificate, valid until the *)
(* run ends, whatever the files before it say, and in whatever order come  *)
(* the votes, card sets and components that are sorted before signing.     *)
THEOREM HonestSignersAccepted == Spec => []HonestSignaturesAccepted
<1>1. /\ InTime /\ [Next]_vars => InTime'
      /\ TypeOK /\ StoreInv /\ InTime /\ HonestSignaturesAccepted /\ [Next]_vars
           => HonestSignaturesAccepted'
  BY StepInTime, StepHonestAccepted
<1> QED BY <1>1, InitHonestAccepted, TypeCorrect, LastFileCounts, PTL DEF Spec
=============================================================================
