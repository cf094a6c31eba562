---------------------------- MODULE BudgetLedger ----------------------------
(***************************************************************************)
(* What approving against a budget promises: one stored balance per budget *)
(* line, charged in a single step by an approval it covers and given back  *)
(* when the expense is moved back.  The code stores no such balance.       *)
(***************************************************************************)
EXTENDS Integers

CONSTANTS
  Expenses,
  Categories,
  Amounts,
  Limit(_)    \* the budget of a category

VARIABLES
  balance,    \* what is left of each budget
  charge      \* the category and amount charged for an expense, if any

vars == <<balance, charge>>

Init ==
  /\ balance = [c \in Categories |-> Limit(c)]
  /\ charge = [e \in Expenses |-> {}]

Charge(e, c, a) ==
  /\ charge[e] = {}
  /\ a <= balance[c]
  /\ balance' = [balance EXCEPT ![c] = @ - a]
  /\ charge' = [charge EXCEPT ![e] = {<<c, a>>}]

GiveBack(e, c, a) ==
  /\ charge[e] = {<<c, a>>}
  /\ balance' = [balance EXCEPT ![c] = @ + a]
  /\ charge' = [charge EXCEPT ![e] = {}]

Next ==
  \E e \in Expenses, c \in Categories, a \in Amounts :
    Charge(e, c, a) \/ GiveBack(e, c, a)

Spec == Init /\ [][Next]_vars
=============================================================================
