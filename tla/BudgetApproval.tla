--------------------------- MODULE BudgetApproval ---------------------------
(***************************************************************************)
(* Approving expenses against the budget of their category when several    *)
(* managers do so at once: approve in services/expense.py and              *)
(* services/budget.py.                                                     *)
(*                                                                         *)
(* The approval transaction is cut at every statement it sends: it locks   *)
(* the expense row, locks the budget row, sums what is approved, and       *)
(* commits.  Statements of other transactions come in between; each sees   *)
(* what is committed (READ COMMITTED), and one that needs a locked row     *)
(* waits.  A lock is held by the transaction that took it until its end,   *)
(* so who holds what follows from where each transaction stands.           *)
(***************************************************************************)
EXTENDS Integers, FiniteSets

CONSTANTS
  Expenses,     \* rows of table expenses
  NoExpense,    \* no expense: the target of no transaction
  Categories,   \* a project's expense categories
  Budget,       \* table budgets: the amount of each category that has a row
  MaxAmount,    \* bound: what Numeric(15, 0) holds
  Managers,     \* sessions that approve
  LateWorkers,  \* may a worker that was given up write after all?
  MaxReviews    \* bound: times an expense comes to review

ASSUME BudgetAssumption ==
  /\ IsFiniteSet(Expenses)
  /\ NoExpense \notin Expenses
  /\ DOMAIN Budget \subseteq Categories
  /\ \A c \in DOMAIN Budget : Budget[c] \in Nat
  /\ MaxAmount \in Nat
  /\ LateWorkers \in BOOLEAN
  /\ MaxReviews \in Nat

Amounts == 1 .. MaxAmount

Status == {"DRAFT", "SUBMITTED", "NEEDS_REVIEW", "APPROVED", "REJECTED"}

(* Where an approval stands: "called" before its first statement,          *)
(* "expense" with the expense row locked and found in review, "budget"     *)
(* with the budget row locked as well, "summed" with approved_sum read.    *)
Step == {"idle", "called", "expense", "budget", "summed"}

VARIABLES
  status,     \* expenses.status
  category,   \* expenses.category
  amount,     \* expenses.amount
  decisions,  \* rows of table approvals of each expense
  reviews,    \* reviews each expense came to and was not taken back from
  step,       \* where each manager's transaction stands
  target,     \* the expense it is to approve
  already     \* the approved sum it read

expenseVars == <<status, category, amount, decisions, reviews>>
txnVars     == <<step, target, already>>
vars        == <<expenseVars, txnVars>>

TypeOK ==
  /\ status \in [Expenses -> Status]
  /\ category \in [Expenses -> Categories]
  /\ amount \in [Expenses -> Amounts]
  /\ decisions \in [Expenses -> Nat]
  /\ reviews \in [Expenses -> 0 .. MaxReviews]
  /\ step \in [Managers -> Step]
  /\ target \in [Managers -> Expenses \union {NoExpense}]
  /\ \A m \in Managers : step[m] # "idle" => target[m] \in Expenses
  /\ already \in [Managers -> Nat]

----------------------------------------------------------------------------
(* approved_sum: the amounts of a category's approved expenses, counted    *)
(* won by won.                                                             *)
Approved(c) == {e \in Expenses : status[e] = "APPROVED" /\ category[e] = c}
ApprovedWon(c) == {x \in Approved(c) \X Amounts : x[2] <= amount[x[1]]}
ApprovedSum(c) == Cardinality(ApprovedWon(c))

(* What may be approved in a category: nothing without a budget row.       *)
Limit(c) == IF c \in DOMAIN Budget THEN Budget[c] ELSE 0

LocksExpense(m) == step[m] \in {"expense", "budget", "summed"}
LocksBudget(m)  == step[m] \in {"budget", "summed"}

(* Variation: rows read without FOR UPDATE, so that nothing ever waits.    *)
NeverLocked(x) == TRUE

ExpenseFree(e) == \A m \in Managers : ~(LocksExpense(m) /\ target[m] = e)
BudgetFree(c) ==
  \A m \in Managers : ~(LocksBudget(m) /\ category[target[m]] = c)

(* Variation: the session forgets what it works on but not its locks.      *)
EndKeepingLocks(m) ==
  /\ target' = [target EXCEPT ![m] = NoExpense]
  /\ already' = [already EXCEPT ![m] = 0]
  /\ UNCHANGED step

(* The end of a transaction, by commit or rollback: its locks are gone.    *)
End(m) ==
  /\ step' = [step EXCEPT ![m] = "idle"]
  /\ target' = [target EXCEPT ![m] = NoExpense]
  /\ already' = [already EXCEPT ![m] = 0]

Decide(e, decision) ==
  /\ status' = [status EXCEPT ![e] = decision]
  /\ decisions' = [decisions EXCEPT ![e] = @ + 1]
  /\ UNCHANGED <<category, amount, reviews>>

----------------------------------------------------------------------------
(* The approval, statement by statement                                    *)

Call(m, e) ==
  /\ step[m] = "idle"
  /\ step' = [step EXCEPT ![m] = "called"]
  /\ target' = [target EXCEPT ![m] = e]
  /\ UNCHANGED <<expenseVars, already>>

(* get_expense_or_404 FOR UPDATE and the check of the status: after the    *)
(* wait the row is read as the previous holder left it.                    *)
LockExpense(m) ==
  /\ step[m] = "called"
  /\ ExpenseFree(target[m])
  /\ IF status[target[m]] = "NEEDS_REVIEW"
     THEN step' = [step EXCEPT ![m] = "expense"] /\ UNCHANGED <<target, already>>
     ELSE End(m)
  /\ UNCHANGED expenseVars

(* get_budget_for_update; without a budget row the request is refused.     *)
LockBudget(m) ==
  LET c == category[target[m]]
  IN  /\ step[m] = "expense"
      /\ IF c \in DOMAIN Budget
         THEN /\ BudgetFree(c)
              /\ step' = [step EXCEPT ![m] = "budget"]
              /\ UNCHANGED <<target, already>>
         ELSE End(m)
      /\ UNCHANGED expenseVars

SumApproved(m) ==
  /\ step[m] = "budget"
  /\ already' = [already EXCEPT ![m] = ApprovedSum(category[target[m]])]
  /\ step' = [step EXCEPT ![m] = "summed"]
  /\ UNCHANGED <<expenseVars, target>>

(* Variation: the check leaves out the expense that is being approved.     *)
CommitOverdraft(m) ==
  LET e == target[m]
  IN  /\ step[m] = "summed"
      /\ IF already[m] <= Budget[category[e]]
         THEN Decide(e, "APPROVED")
         ELSE UNCHANGED expenseVars
      /\ End(m)

(* Variation: BUDGET_EXCEEDED without a rollback leaves the rows locked.   *)
CommitOrHang(m) ==
  /\ step[m] = "summed"
  /\ already[m] + amount[target[m]] <= Budget[category[target[m]]]
  /\ Decide(target[m], "APPROVED")
  /\ End(m)

(* The check against the budget, then APPROVED or BUDGET_EXCEEDED.         *)
Commit(m) ==
  LET e == target[m]
  IN  /\ step[m] = "summed"
      /\ IF already[m] + amount[e] <= Budget[category[e]]
         THEN Decide(e, "APPROVED")
         ELSE UNCHANGED expenseVars
      /\ End(m)

(* FAIL results without an override, or a connection that drops.           *)
Rollback(m) ==
  /\ step[m] # "idle"
  /\ End(m)
  /\ UNCHANGED expenseVars

----------------------------------------------------------------------------
(* Other transactions on an expense.  Each locks the row, checks it and    *)
(* writes it, and reads nothing else in between: one step, taken when the  *)
(* row is free.                                                            *)

Reject(e) ==
  /\ ExpenseFree(e)
  /\ status[e] = "NEEDS_REVIEW"
  /\ Decide(e, "REJECTED")
  /\ UNCHANGED txnVars

(* update_expense: category and amount can be edited.                      *)
Edit(e, c, a) ==
  /\ ExpenseFree(e)
  /\ status[e] \in {"DRAFT", "REJECTED"}
  /\ status' = [status EXCEPT ![e] = "DRAFT"]
  /\ category' = [category EXCEPT ![e] = c]
  /\ amount' = [amount EXCEPT ![e] = a]
  /\ UNCHANGED <<decisions, reviews, txnVars>>

Submit(e) ==
  /\ ExpenseFree(e)
  /\ status[e] = "DRAFT"
  /\ status' = [status EXCEPT ![e] = "SUBMITTED"]
  /\ UNCHANGED <<category, amount, decisions, reviews, txnVars>>

(* mark_validated, by the worker (module ExpenseWorkflow).  A worker whose *)
(* run was given up meanwhile writes over any status.                      *)
Validate(e) ==
  /\ ExpenseFree(e)
  /\ \/ status[e] = "SUBMITTED"
     \/ LateWorkers /\ status[e] # "NEEDS_REVIEW"
  /\ reviews[e] < MaxReviews
  /\ status' = [status EXCEPT ![e] = "NEEDS_REVIEW"]
  /\ reviews' = [reviews EXCEPT ![e] = @ + 1]
  /\ UNCHANGED <<category, amount, decisions, txnVars>>

(* The start of a pipeline, committed by a worker that found the expense   *)
(* SUBMITTED and was given up before: VALIDATING over any status, here as  *)
(* SUBMITTED.  An expense in review is taken back from it, undecided.      *)
Revalidate(e) ==
  /\ LateWorkers
  /\ ExpenseFree(e)
  /\ status[e] # "SUBMITTED"
  /\ status' = [status EXCEPT ![e] = "SUBMITTED"]
  /\ reviews' = [reviews EXCEPT ![e] =
                   IF status[e] = "NEEDS_REVIEW" THEN @ - 1 ELSE @]
  /\ UNCHANGED <<category, amount, decisions, txnVars>>

----------------------------------------------------------------------------
(* Drafts as create_expense leaves them.                                   *)
Init ==
  /\ status = [e \in Expenses |-> "DRAFT"]
  /\ category \in [Expenses -> Categories]
  /\ amount \in [Expenses -> Amounts]
  /\ decisions = [e \in Expenses |-> 0]
  /\ reviews = [e \in Expenses |-> 0]
  /\ step = [m \in Managers |-> "idle"]
  /\ target = [m \in Managers |-> NoExpense]
  /\ already = [m \in Managers |-> 0]

(* An approval that was called, as far as it depends on the database.      *)
Proceed(m) ==
  \/ LockExpense(m)
  \/ LockBudget(m)
  \/ SumApproved(m)
  \/ Commit(m)

Approval ==
  \E m \in Managers :
    \/ \E e \in Expenses : Call(m, e)
    \/ Proceed(m)
    \/ Rollback(m)

OtherRequest ==
  \E e \in Expenses :
    \/ Reject(e)
    \/ \E c \in Categories, a \in Amounts : Edit(e, c, a)
    \/ Submit(e)
    \/ Validate(e)
    \/ Revalidate(e)

Next == Approval \/ OtherRequest

Spec == Init /\ [][Next]_vars

(* The database runs a statement that can run, and hands a row to those    *)
(* who wait for it in turn.  Nobody is obliged to call or to roll back.    *)
Fairness == \A m \in Managers : SF_vars(Proceed(m))

FairSpec == Spec /\ Fairness

----------------------------------------------------------------------------
(* The docstring of approve: whatever managers approve at the same time,   *)
(* the approved expenses of a category never exceed its budget.            *)
NeverOverBudget == \A c \in Categories : ApprovedSum(c) <= Limit(c)

(* An expense is decided exactly once each time it comes to review and is  *)
(* not taken back, however many managers approve or reject it at the same  *)
(* time.                                                                   *)
OneDecisionPerReview ==
  \A e \in Expenses :
    decisions[e] = IF status[e] = "NEEDS_REVIEW" THEN reviews[e] - 1
                                                 ELSE reviews[e]

(* Waiting for row locks ends: every approval gets its answer.             *)
ApprovalsEnd ==
  \A m \in Managers : step[m] # "idle" ~> step[m] = "idle"

(* Summing the approved expenses under the locks is as good as storing a   *)
(* balance and charging it in one step.                                    *)
Ledger == INSTANCE BudgetLedger WITH
  balance <- [c \in Categories |-> Limit(c) - ApprovedSum(c)],
  charge  <- [e \in Expenses |-> IF status[e] = "APPROVED"
                                 THEN {<<category[e], amount[e]>>}
                                 ELSE {}]

ImplementsLedger == Ledger!Spec
=============================================================================
