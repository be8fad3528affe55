--------------------------- MODULE MCMixDecChain ----------------------------
(* Instances of MixDecChain for TLC: evidence produced by MixNet.           *)
EXTENDS MixNet, TLC

CONSTANTS x, y, z

(* Evidence of the ballot boxes 1..k.                                      *)
NobodyDeviates(k) == [b \in 1..k |-> [j \in Holder |-> "honest"]]
OneDeviates(k) == {[NobodyDeviates(k) EXCEPT ![b][j] = deed] :
                     b \in 1..k, j \in Holder, deed \in Deeds}
TwoDeviate(k) == {[f EXCEPT ![b][j] = deed] :
                    f \in OneDeviates(k), b \in 1..k, j \in Holder, deed \in Deeds}

OneBox == {<< <<>> >>, << <<x>> >>, << <<x, y>> >>, << <<x, y, z>> >>}
TwoBoxes == {<< <<x, y>>, <<y>> >>, << <<x>>, <<x, y, z>> >>}

FileOrders(xs) == xs \cup {Disturbed(e, "reversed", 1) : e \in xs}

Honest(votes) == {Evidence(v, NobodyDeviates(Len(v))) : v \in votes}

(* All N components of one ballot box; any two steps of the mix deviate.   *)
OneBoxDatasets ==
    {Evidence(v, deeds) : v \in {<< <<x, y>> >>}, deeds \in TwoDeviate(1)}
      \cup {Evidence(v, deeds) : v \in OneBox, deeds \in OneDeviates(1)}
      \cup Honest(OneBox)

(* Two ballot boxes in either file order; one step of the mix deviates,    *)
(* and a file or a setup key is disturbed.                                 *)
TwoBoxDatasets ==
    LET honest == Honest(TwoBoxes)
        deviant == {Evidence(v, deeds) : v \in TwoBoxes, deeds \in OneDeviates(2)}
        disturbed == {Disturbed(e, f, k) : e \in honest, f \in Faults, k \in 1..N}
    IN  FileOrders(honest \cup deviant \cup disturbed)
=============================================================================
