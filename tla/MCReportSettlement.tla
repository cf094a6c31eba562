------------------------- MODULE MCReportSettlement -------------------------
(* Instances of ReportSettlement for TLC: the two months around the turn   *)
(* of a year, one ordinary expense and one that may come back late.        *)
EXTENDS ReportSettlement, TLC

CONSTANTS e1, e2, m1, m2

MCExpenses     == {e1, e2}
MCLateExpenses == {e2}
MCPeriods      == {<<2026, 12>>, <<2027, 1>>}
MCManagers     == {m1, m2}
MCSymmetry     == Permutations(MCManagers)
=============================================================================
