------------------------------- MODULE Report -------------------------------
(***************************************************************************)
(* The shape every verification run has: an ordered list of checks, each   *)
(* appending one entry to a VerificationReport (result.py).  pc is the id  *)
(* of the check that runs next, "done" once the report is returned and     *)
(* "crashed" when an exception leaves the verifier: the caller then gets   *)
(* no report at all.                                                       *)
(***************************************************************************)
EXTENDS Sequences, Naturals

VARIABLES pc, report

Entry(id, ok) == [id |-> id, ok |-> ok]

ReportInit(first) == pc = first /\ report = <<>>

(* VerificationReport.add at the end of the check id; next runs after it.  *)
Record(id, ok, next) ==
    /\ pc = id
    /\ pc' = next
    /\ report' = Append(report, Entry(id, ok))

(* A check that adds several entries: the handler at id adds all of them.  *)
RecordAll(id, entries, next) ==
    /\ pc = id
    /\ pc' = next
    /\ report' = report \o entries

(* An exception nobody catches: whatever was recorded is lost to the user. *)
Crash(id) ==
    /\ pc = id
    /\ pc' = "crashed"
    /\ UNCHANGED report

(* VerificationReport.failing and VerificationReport.ok.                   *)
Failing == {k \in DOMAIN report : ~report[k].ok}
ReportOk == Failing = {}

Ran(id) == \E k \in DOMAIN report : report[k].id = id
Passed(id) == \E k \in DOMAIN report : report[k].id = id /\ report[k].ok

Ended == pc \in {"done", "crashed"}
=============================================================================
