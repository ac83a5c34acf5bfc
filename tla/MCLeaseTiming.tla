---------------------------- MODULE MCLeaseTiming ---------------------------
(* Instances of LeaseTiming for TLC.                                       *)
EXTENDS LeaseTiming

CONSTANTS w1, l1, l2
OneWorker == {w1}
TwoLeases == {l1, l2}
OwnedByOne == [l \in Leases |-> w1]
SecondLease == {l2}
=============================================================================
