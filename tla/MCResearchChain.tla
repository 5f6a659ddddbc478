--------------------------- MODULE MCResearchChain ---------------------------
(* Instances of ResearchChain for TLC.                                        *)
EXTENDS ResearchChain, TLC

CONSTANTS ReportBound, SelectionBound

MCKinds == {"comparison", "explainability", "statistical", "residual", "market", "selection"}
MCMaxReports == [k \in MCKinds |-> IF k = "selection" THEN SelectionBound ELSE ReportBound]
Symmetry == Permutations(Procs)
=============================================================================
