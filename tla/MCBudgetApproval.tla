-------------------------- MODULE MCBudgetApproval --------------------------
(* Instances of BudgetApproval for TLC: one category with a budget of two  *)
(* won and one without a budget row.                                       *)
EXTENDS BudgetApproval, TLC

CONSTANTS e1, e2, m1, m2, labor, travel

MCExpenses   == {e1, e2}
MCManagers   == {m1, m2}
MCCategories == {labor, travel}
MCBudget     == labor :> 2

=============================================================================
