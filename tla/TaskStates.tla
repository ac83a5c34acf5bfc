----------------------------- MODULE TaskStates -----------------------------
(***************************************************************************)
(* The vocabulary of domain/states.py: the five task states and the legal  *)
(* transition graph.  A pure module, like the file it models.              *)
(***************************************************************************)

State == {"QUEUED", "RUNNING", "SUCCEEDED", "FAILED", "CANCELLED"}
TERMINAL == {"SUCCEEDED", "FAILED", "CANCELLED"}

\* The complete legal transition graph; a terminal state has no successor.
ALLOWED == [ s \in State |->
  CASE s = "QUEUED"  -> {"RUNNING", "CANCELLED"}
    [] s = "RUNNING" -> {"QUEUED", "SUCCEEDED", "FAILED", "CANCELLED"}
    [] OTHER         -> {} ]

is_legal(frm, to) == to \in ALLOWED[frm]
=============================================================================
