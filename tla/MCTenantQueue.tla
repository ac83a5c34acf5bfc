--------------------------- MODULE MCTenantQueue ----------------------------
(* Instances of TenantQueue for TLC: two tenants, one with the more urgent *)
(* task and each with one of the least priority, so that claims meet the   *)
(* tenants in different rounds and orders; required names with capitals,   *)
(* with a comma, and blank; a worker that claims by key and one with more  *)
(* capabilities, which claims by the filter.                               *)
EXTENDS TenantQueue

CONSTANTS a1, a2, b1, b2, w1, w2

FourTasks == {a1, a2, b1, b2}
TwoTenants == {"A", "B"}
TwoWorkers == {w1, w2}

tenant_of == [t \in Tasks |-> IF t \in {a1, a2} THEN "A" ELSE "B"]
OneEach == [n \in Tenants |-> 1]

PriorityOf == [t \in Tasks |-> CASE t = a1 -> 1 [] t = b1 -> 2 [] OTHER -> 3]
ScanOf == [n \in Tenants |-> IF n = "A" THEN 1 ELSE 2]

Written == {"gpu", "GPU", "net", "ram", "gpu,net", ""}
Commas == {"gpu,net"}
lower == [c \in Written |-> IF c = "GPU" THEN "gpu" ELSE c]
joined == [S \in SUBSET Written |-> IF S = Commas THEN {"gpu", "net"} ELSE S]
RequiredOf == [t \in Tasks |-> CASE t = a1 -> {"GPU", ""} [] t = b1 -> {"gpu,net"}
                                 [] t = b2 -> {"gpu"} [] OTHER -> {}]
OfferedBy == [w \in Workers |->
                IF w = w1 THEN {"gpu", "net"} ELSE {"gpu", "net", "ram"}]
=============================================================================
