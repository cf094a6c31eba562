------------------------- MODULE MCExpenseWorkflow -------------------------
(* Instances of ExpenseWorkflow for TLC.                                   *)
EXTENDS ExpenseWorkflow, TLC

CONSTANTS e1, e2, w1, w2

MCOneExpense  == {e1}
MCTwoExpenses == {e1, e2}
MCWorkers     == {w1, w2}

(* Both contents, and one where only the queue is looked at: no worker and *)
(* no property of workflow_slow tells them apart.                          *)
MCContents == Content
MCSound    == {"sound"}

MCErrors  == {"error"}
MCDeaths  == {"error", "crash"}
MCCrashes == {"error", "finish_error", "crash"}
MCAll     == FaultKinds

(* Workers and expenses are interchangeable; only for runs that check no   *)
(* liveness property.                                                      *)
MCSymmetry == Permutations(MCTwoExpenses) \union Permutations(MCWorkers)
=============================================================================
