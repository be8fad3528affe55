--------------------------- MODULE MixDecPromise ----------------------------
(***************************************************************************)
(* What following the votes through the mix net promises, without how: one *)
(* verdict, given once, and "accepted" only for evidence whose plaintexts  *)
(* are the confirmed votes.  The run may also end without a verdict.       *)
(***************************************************************************)
VARIABLES correct,   \* whether the plaintexts are the confirmed votes
          verdict

PromiseInit == correct \in BOOLEAN /\ verdict = "pending"

Accept == verdict = "pending" /\ verdict' = "accepted" /\ correct /\ UNCHANGED correct
Reject == verdict = "pending" /\ verdict' = "rejected" /\ UNCHANGED correct
GiveUp == verdict = "pending" /\ verdict' = "none" /\ UNCHANGED correct

PromiseNext == Accept \/ Reject \/ GiveUp

PromiseSpec == PromiseInit /\ [][PromiseNext]_<<correct, verdict>>
=============================================================================
