---------------------------- MODULE MCToolPolicy ----------------------------
(* Instances of ToolPolicy for TLC: two tools of tenant A, a namesake of   *)
(* one of them in tenant B, a version of A, and an attempt with or without *)
(* that version.                                                           *)
EXTENDS ToolPolicy

CONSTANTS x, y, xB, v1, a1

ThreeTools == {x, y, xB}
OneVersion == {v1}
TwoTenants == {"A", "B"}
OneAttempt == {a1}
AllButOne == {x, xB}
tenant_of == [t \in Tools |-> IF t = xB THEN "B" ELSE "A"]
name_of == [t \in Tools |-> IF t = y THEN "y" ELSE "x"]
version_tenant_of == [u \in Versions |-> "A"]
=============================================================================
