---------------------------- MODULE MCTestPanel ----------------------------
(***************************************************************************)
(* Step lists for TLC: every mode before a ground-bond step, two steps     *)
(* with a wait for the start key in between, and one step.                 *)
(***************************************************************************)
EXTENDS TestPanel, MCTestSched

PanelPrograms == ClosedPrograms
                   \cup {<<Last(Step("ACW")), Last(Step("GR"))>>, <<Last(Step("ACW"))>>}
=============================================================================
