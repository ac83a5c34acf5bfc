---------------------------- MODULE MCSubmission ----------------------------
(* Instances of Submission for TLC: a submission and a retry of it, two    *)
(* more with their key, one of them with other parameters and one with     *)
(* another payload, and one without a key.                                 *)
EXTENDS Submission

CONSTANTS first, retry, lower, other, keyless

FiveSubmissions == {first, retry, lower, other, keyless}
OneTenant == {"A"}
tenant_of == [t \in Tasks |-> "A"]
KeyOf == [t \in Tasks |-> IF t = keyless THEN NoKey ELSE "k"]
PayloadOf == [t \in Tasks |-> IF t = other THEN "q" ELSE "p"]
ParametersOf == [t \in Tasks |-> IF t = lower THEN "low" ELSE "high"]
OneEach == [n \in Tenants |-> 1]
=============================================================================
