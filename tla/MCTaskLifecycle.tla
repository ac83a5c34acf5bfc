-------------------------- MODULE MCTaskLifecycle ---------------------------
(* Instances of TaskLifecycle for TLC.                                     *)
EXTENDS TaskLifecycle, TLC

CONSTANTS t1, w1, w2

OneTask == {t1}
TwoWorkers == {w1, w2}

Budget2 == [t \in Tasks |-> 2]

WorkerSymmetry == Permutations(Workers)
=============================================================================
