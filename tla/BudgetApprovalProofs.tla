------------------------ MODULE BudgetApprovalProofs ------------------------
(***************************************************************************)
(* Proofs about BudgetApproval, for any number of expenses, managers and   *)
(* categories and any budget.                                              *)
(*                                                                         *)
(* The argument: an expense that is locked stays in review (so nobody else *)
(* decides it and nobody edits it), at most one manager is between the     *)
(* lock of a budget row and its commit, and only such a manager adds to    *)
(* the sum of that category.  A sum that was read is therefore still an    *)
(* upper bound of the true one when it is used.                            *)
(***************************************************************************)
EXTENDS BudgetApproval, FiniteSetTheorems, TLAPS

(* Row locks exclude each other.                                           *)
LocksExclusive ==
  /\ \A m, n \in Managers :
       LocksExpense(m) /\ LocksExpense(n) /\ target[m] = target[n] => m = n
  /\ \A m, n \in Managers :
       /\ LocksBudget(m) /\ LocksBudget(n)
       /\ category[target[m]] = category[target[n]]
       => m = n

(* What a manager found under its locks is still true.                     *)
FoundIsCurrent ==
  \A m \in Managers :
    /\ LocksExpense(m) => status[target[m]] = "NEEDS_REVIEW"
    /\ LocksBudget(m) => category[target[m]] \in DOMAIN Budget
    /\ step[m] = "summed" => ApprovedSum(category[target[m]]) <= already[m]

BudgetInv ==
  /\ TypeOK
  /\ LocksExclusive
  /\ FoundIsCurrent
  /\ OneDecisionPerReview
  /\ NeverOverBudget

----------------------------------------------------------------------------
(* The sum of the approved amounts                                         *)

(* Adding n won of an expense that has none among S.                       *)
LEMMA WonAdded ==
  ASSUME NEW S, IsFiniteSet(S), NEW e, NEW n \in Nat,
         \A k : <<e, k>> \notin S
  PROVE  /\ IsFiniteSet(S \cup ({e} \X (1 .. n)))
         /\ Cardinality(S \cup ({e} \X (1 .. n))) = Cardinality(S) + n
<1>1. IsFiniteSet({e}) /\ Cardinality({e}) = 1
  BY FS_Singleton
<1>2. IsFiniteSet(1 .. n) /\ Cardinality(1 .. n) = n
  BY FS_Interval
<1>3. /\ IsFiniteSet({e} \X (1 .. n))
      /\ Cardinality({e} \X (1 .. n)) = n
  <2>1. /\ IsFiniteSet({e} \X (1 .. n))
        /\ Cardinality({e} \X (1 .. n)) = Cardinality({e}) * Cardinality(1 .. n)
    BY <1>1, <1>2, FS_Product, Zenon
  <2> QED BY <1>1, <1>2, <2>1
<1>4. S \cap ({e} \X (1 .. n)) = {}
  OBVIOUS
<1>5. Cardinality(S) \in Nat
  BY FS_CardinalityType
<1> QED BY <1>3, <1>4, <1>5, FS_Union, FS_EmptySet

LEMMA SumIsNat ==
  ASSUME NEW c
  PROVE  /\ IsFiniteSet(ApprovedWon(c)) /\ ApprovedSum(c) \in Nat
         /\ IsFiniteSet(ApprovedWon(c)') /\ ApprovedSum(c)' \in Nat
<1>1. IsFiniteSet(Amounts)
  BY FS_Interval, BudgetAssumption DEF Amounts
<1>2. IsFiniteSet(Expenses \X Amounts)
  BY <1>1, FS_Product, BudgetAssumption, Zenon
<1>3. /\ ApprovedWon(c) \subseteq Expenses \X Amounts
      /\ ApprovedWon(c)' \subseteq Expenses \X Amounts
  BY DEF ApprovedWon, Approved
<1>4. IsFiniteSet(ApprovedWon(c)) /\ IsFiniteSet(ApprovedWon(c)')
  BY <1>2, <1>3, FS_Subset
<1> QED BY <1>4, FS_CardinalityType DEF ApprovedSum

(* The won of the approved expenses, and those of one more expense e.      *)
LEMMA WonOfOneMore ==
  ASSUME NEW A, NEW e, NEW amt, amt[e] \in Amounts
  PROVE  {x \in (A \cup {e}) \X Amounts : x[2] <= amt[x[1]]}
         = {x \in A \X Amounts : x[2] <= amt[x[1]]} \cup ({e} \X (1 .. amt[e]))
<1>1. \A k : k \in Amounts /\ k <= amt[e] <=> k \in 1 .. amt[e]
  BY BudgetAssumption DEF Amounts
<1>2. ASSUME NEW x \in (A \cup {e}) \X Amounts, x[2] <= amt[x[1]]
      PROVE  \/ x \in A \X Amounts
             \/ x \in {e} \X (1 .. amt[e])
  <2>1. PICK f \in A \cup {e}, k \in Amounts : x = <<f, k>>
    OBVIOUS
  <2>2. k <= amt[f]
    BY <1>2, <2>1
  <2>3. CASE f = e
    <3>1. k \in 1 .. amt[e]
      BY <1>1, <2>2, <2>3
    <3> QED BY <2>1, <2>3, <3>1
  <2>4. CASE f \in A
    BY <2>1, <2>4
  <2> QED BY <2>3, <2>4
<1>3. ASSUME NEW x \in {e} \X (1 .. amt[e])
      PROVE  x \in (A \cup {e}) \X Amounts /\ x[2] <= amt[x[1]]
  <2>1. PICK k \in 1 .. amt[e] : x = <<e, k>>
    OBVIOUS
  <2>2. k \in Amounts /\ k <= amt[e]
    BY <1>1
  <2> QED BY <2>1, <2>2
<1> QED BY <1>2, <1>3

(* Nothing happens to the sums while the expense that changes is not       *)
(* approved.                                                               *)
LEMMA SumsStay ==
  ASSUME NEW e \in Expenses,
         status[e] # "APPROVED", status'[e] # "APPROVED",
         \A f \in Expenses : f # e =>
           /\ status'[f] = status[f]
           /\ category'[f] = category[f]
           /\ amount'[f] = amount[f]
  PROVE  \A c : ApprovedSum(c)' = ApprovedSum(c)
<1> SUFFICES ASSUME NEW c
             PROVE  ApprovedSum(c)' = ApprovedSum(c)
  OBVIOUS
<1>1. Approved(c)' = Approved(c)
  BY DEF Approved
<1>2. \A f \in Approved(c) : amount'[f] = amount[f]
  BY DEF Approved
<1>3. ApprovedWon(c)' = ApprovedWon(c)
  BY <1>1, <1>2 DEF ApprovedWon
<1> QED BY <1>3 DEF ApprovedSum

(* Approving e adds its amount to the sum of its category and to no other. *)
LEMMA SumGrows ==
  ASSUME TypeOK, NEW e \in Expenses, status[e] # "APPROVED",
         status' = [status EXCEPT ![e] = "APPROVED"],
         UNCHANGED <<category, amount>>
  PROVE  /\ ApprovedSum(category[e])' = ApprovedSum(category[e]) + amount[e]
         /\ \A c : c # category[e] => ApprovedSum(c)' = ApprovedSum(c)
<1>1. /\ status'[e] = "APPROVED"
      /\ \A f \in Expenses : f # e => status'[f] = status[f]
      /\ amount[e] \in Amounts /\ amount[e] \in Nat
  BY BudgetAssumption DEF TypeOK, Amounts
<1>2. \A c : c # category[e] => ApprovedSum(c)' = ApprovedSum(c)
  <2> SUFFICES ASSUME NEW c, c # category[e]
               PROVE  ApprovedSum(c)' = ApprovedSum(c)
    OBVIOUS
  <2>1. Approved(c)' = Approved(c)
    BY <1>1 DEF Approved
  <2> QED BY <2>1 DEF ApprovedSum, ApprovedWon
<1>3. PICK c : c = category[e]
  OBVIOUS
<1>4. Approved(c)' = Approved(c) \cup {e} /\ e \notin Approved(c)
  BY <1>1, <1>3 DEF Approved
<1>5. ApprovedWon(c)' = ApprovedWon(c) \cup ({e} \X (1 .. amount[e]))
  <2>1. ApprovedWon(c)' =
          {x \in (Approved(c) \cup {e}) \X Amounts : x[2] <= amount[x[1]]}
    BY <1>4 DEF ApprovedWon
  <2>2. @ = {x \in Approved(c) \X Amounts : x[2] <= amount[x[1]]}
            \cup ({e} \X (1 .. amount[e]))
    BY <1>1, WonOfOneMore
  <2> QED BY <2>1, <2>2 DEF ApprovedWon
<1>6. \A k : <<e, k>> \notin ApprovedWon(c)
  BY <1>4 DEF ApprovedWon
<1>7. ApprovedSum(c)' = ApprovedSum(c) + amount[e]
  <2>1. IsFiniteSet(ApprovedWon(c)) /\ amount[e] \in Nat
    BY <1>1, SumIsNat
  <2>2. Cardinality(ApprovedWon(c) \cup ({e} \X (1 .. amount[e])))
          = Cardinality(ApprovedWon(c)) + amount[e]
    BY <1>6, <2>1, WonAdded, Zenon
  <2> QED BY <1>5, <2>2 DEF ApprovedSum
<1> QED BY <1>2, <1>3, <1>7

(* And when e is moved back its amount is subtracted again.                *)
LEMMA SumShrinks ==
  ASSUME TypeOK, NEW e \in Expenses, status[e] = "APPROVED",
         NEW s, s # "APPROVED", status' = [status EXCEPT ![e] = s],
         UNCHANGED <<category, amount>>
  PROVE  /\ ApprovedSum(category[e]) = ApprovedSum(category[e])' + amount[e]
         /\ \A c : c # category[e] => ApprovedSum(c)' = ApprovedSum(c)
<1>1. /\ status'[e] # "APPROVED"
      /\ \A f \in Expenses : f # e => status'[f] = status[f]
      /\ amount[e] \in Amounts /\ amount[e] \in Nat
  BY BudgetAssumption DEF TypeOK, Amounts
<1>2. \A c : c # category[e] => ApprovedSum(c)' = ApprovedSum(c)
  <2> SUFFICES ASSUME NEW c, c # category[e]
               PROVE  ApprovedSum(c)' = ApprovedSum(c)
    OBVIOUS
  <2>1. Approved(c)' = Approved(c)
    BY <1>1 DEF Approved
  <2> QED BY <2>1 DEF ApprovedSum, ApprovedWon
<1>3. PICK c : c = category[e]
  OBVIOUS
<1>4. Approved(c) = Approved(c)' \cup {e} /\ e \notin Approved(c)'
  BY <1>1, <1>3 DEF Approved
<1>5. ApprovedWon(c) = ApprovedWon(c)' \cup ({e} \X (1 .. amount[e]))
  <2>1. ApprovedWon(c) =
          {x \in (Approved(c)' \cup {e}) \X Amounts : x[2] <= amount[x[1]]}
    BY <1>4 DEF ApprovedWon
  <2>2. @ = {x \in Approved(c)' \X Amounts : x[2] <= amount[x[1]]}
            \cup ({e} \X (1 .. amount[e]))
    BY <1>1, WonOfOneMore
  <2> QED BY <2>1, <2>2 DEF ApprovedWon
<1>6. \A k : <<e, k>> \notin ApprovedWon(c)'
  BY <1>4 DEF ApprovedWon
<1>7. IsFiniteSet(ApprovedWon(c)')
  BY SumIsNat
<1>8. ApprovedSum(c) = ApprovedSum(c)' + amount[e]
  <2>1. Cardinality(ApprovedWon(c)' \cup ({e} \X (1 .. amount[e])))
          = Cardinality(ApprovedWon(c)') + amount[e]
    BY <1>1, <1>6, <1>7, WonAdded, Zenon
  <2> QED BY <1>5, <2>1 DEF ApprovedSum
<1> QED BY <1>2, <1>3, <1>8

----------------------------------------------------------------------------
(* Preservation                                                            *)

LEMMA BudgetInit == Init => BudgetInv
<1> SUFFICES ASSUME Init
             PROVE  BudgetInv
  OBVIOUS
<1>1. TypeOK
  BY BudgetAssumption DEF Init, TypeOK, Status, Step
<1>2. \A c : ApprovedSum(c) = 0
  <2>1. \A c : ApprovedWon(c) = {}
    BY DEF Init, ApprovedWon, Approved
  <2> QED BY <2>1, FS_EmptySet DEF ApprovedSum
<1>3. NeverOverBudget
  BY <1>2, BudgetAssumption DEF NeverOverBudget, Limit
<1> QED BY <1>1, <1>3
        DEF Init, BudgetInv, LocksExclusive, FoundIsCurrent, LocksExpense,
            LocksBudget, OneDecisionPerReview

(* An approval that only moves on keeps every sum, ...                     *)
LEMMA SumsUnchanged ==
  ASSUME UNCHANGED <<status, category, amount>>
  PROVE  \A c : ApprovedSum(c)' = ApprovedSum(c)
BY DEF ApprovedSum, ApprovedWon, Approved

(* ... and one that ends only gives up its locks.                          *)
LEMMA EndStep ==
  ASSUME BudgetInv, NEW m \in Managers, End(m), UNCHANGED expenseVars
  PROVE  BudgetInv'
<1>1. TypeOK'
  BY DEF BudgetInv, TypeOK, End, expenseVars, Step
<1>2. /\ step'[m] = "idle"
      /\ \A n \in Managers : n # m =>
           step'[n] = step[n] /\ target'[n] = target[n] /\ already'[n] = already[n]
  BY DEF BudgetInv, TypeOK, End
<1>3. \A c : ApprovedSum(c)' = ApprovedSum(c)
  BY SumsUnchanged DEF expenseVars
<1>4. \A n \in Managers :
        /\ LocksExpense(n)' => n # m /\ LocksExpense(n)
        /\ LocksBudget(n)' => n # m /\ LocksBudget(n)
  BY <1>2 DEF LocksExpense, LocksBudget
<1>5. LocksExclusive'
  BY <1>2, <1>4 DEF BudgetInv, LocksExclusive, expenseVars
<1>6. FoundIsCurrent'
  BY <1>2, <1>3, <1>4 DEF BudgetInv, FoundIsCurrent, expenseVars
<1>7. OneDecisionPerReview' /\ NeverOverBudget'
  BY <1>3 DEF BudgetInv, OneDecisionPerReview, NeverOverBudget, expenseVars
<1> QED BY <1>1, <1>5, <1>6, <1>7 DEF BudgetInv

(* Taking the next lock, or reading the sum.                               *)
LEMMA AdvanceStep ==
  ASSUME BudgetInv, NEW m \in Managers,
         \/ LockExpense(m) /\ status[target[m]] = "NEEDS_REVIEW"
         \/ LockBudget(m) /\ category[target[m]] \in DOMAIN Budget
         \/ SumApproved(m)
  PROVE  BudgetInv'
<1>1. /\ UNCHANGED <<expenseVars, target>>
      /\ \A n \in Managers : n # m =>
           step'[n] = step[n] /\ already'[n] = already[n]
      /\ step[m] # "idle" /\ target[m] \in Expenses
  BY DEF BudgetInv, TypeOK, LockExpense, LockBudget, SumApproved
<1>2. TypeOK'
  BY <1>1, SumIsNat
  DEF BudgetInv, TypeOK, LockExpense, LockBudget, SumApproved, Step, expenseVars
<1>3. \A c : ApprovedSum(c)' = ApprovedSum(c)
  BY <1>1, SumsUnchanged DEF expenseVars
<1>4. \A n \in Managers : n # m =>
        /\ LocksExpense(n)' = LocksExpense(n)
        /\ LocksBudget(n)' = LocksBudget(n)
  BY <1>1 DEF LocksExpense, LocksBudget
<1>5. CASE LockExpense(m) /\ status[target[m]] = "NEEDS_REVIEW"
  <2>1. /\ step'[m] = "expense" /\ ~LocksBudget(m)' /\ already' = already
        /\ \A n \in Managers : ~(LocksExpense(n) /\ target[n] = target[m])
    BY <1>5
    DEF LockExpense, ExpenseFree, LocksBudget, BudgetInv, TypeOK
  <2>2. LocksExclusive'
    BY <1>1, <1>4, <2>1 DEF BudgetInv, LocksExclusive, expenseVars
  <2>3. FoundIsCurrent'
    BY <1>1, <1>3, <1>4, <1>5, <2>1
    DEF BudgetInv, FoundIsCurrent, expenseVars
  <2> QED BY <2>2, <2>3, <1>1, <1>2, <1>3
          DEF BudgetInv, OneDecisionPerReview, NeverOverBudget, expenseVars
<1>6. CASE LockBudget(m) /\ category[target[m]] \in DOMAIN Budget
  <2>1. /\ step'[m] = "budget" /\ LocksExpense(m) /\ already' = already
        /\ \A n \in Managers :
             ~(LocksBudget(n) /\ category[target[n]] = category[target[m]])
    BY <1>6 DEF LockBudget, BudgetFree, LocksExpense, BudgetInv, TypeOK
  <2>2. LocksExclusive'
    BY <1>1, <1>4, <2>1 DEF BudgetInv, LocksExclusive, expenseVars
  <2>3. FoundIsCurrent'
    BY <1>1, <1>3, <1>4, <1>6, <2>1
    DEF BudgetInv, FoundIsCurrent, expenseVars
  <2> QED BY <2>2, <2>3, <1>1, <1>2, <1>3
          DEF BudgetInv, OneDecisionPerReview, NeverOverBudget, expenseVars
<1>7. CASE SumApproved(m)
  <2>1. /\ step'[m] = "summed" /\ LocksExpense(m) /\ LocksBudget(m)
        /\ already'[m] = ApprovedSum(category[target[m]])
    BY <1>7 DEF SumApproved, LocksExpense, LocksBudget, BudgetInv, TypeOK
  <2>2. LocksExclusive'
    BY <1>1, <1>4, <2>1 DEF BudgetInv, LocksExclusive, expenseVars
  <2>3. \A n \in Managers :
          /\ LocksExpense(n)' => status'[target'[n]] = "NEEDS_REVIEW"
          /\ LocksBudget(n)' => category'[target'[n]] \in DOMAIN Budget
    BY <1>1, <1>4, <2>1 DEF BudgetInv, FoundIsCurrent, expenseVars
  <2>4. ApprovedSum(category[target[m]]) <= ApprovedSum(category[target[m]])
    BY SumIsNat
  <2>5. ASSUME NEW n \in Managers, step'[n] = "summed"
        PROVE  ApprovedSum(category[target[n]]) <= already'[n]
    <3>1. CASE n = m
      BY <2>1, <2>4, <3>1
    <3>2. CASE n # m
      BY <1>1, <2>5, <3>2 DEF BudgetInv, FoundIsCurrent
    <3> QED BY <3>1, <3>2
  <2>6. FoundIsCurrent'
    BY <1>1, <1>3, <2>3, <2>5 DEF FoundIsCurrent, expenseVars
  <2> QED BY <2>2, <2>6, <1>1, <1>2, <1>3
          DEF BudgetInv, OneDecisionPerReview, NeverOverBudget, expenseVars
<1> QED BY <1>5, <1>6, <1>7

(* The commit within the budget.  Another manager that has read a sum has  *)
(* read that of another category.                                          *)
LEMMA CommitStep ==
  ASSUME BudgetInv, NEW m \in Managers, Commit(m),
         already[m] + amount[target[m]] <= Budget[category[target[m]]]
  PROVE  BudgetInv'
<1>1. PICK e \in Expenses, c \in Categories, a \in Nat :
        e = target[m] /\ c = category[e] /\ a = amount[e]
  BY BudgetAssumption DEF BudgetInv, TypeOK, Commit, Amounts
<1>2. /\ LocksExpense(m) /\ LocksBudget(m)
      /\ status[e] = "NEEDS_REVIEW" /\ c \in DOMAIN Budget
      /\ ApprovedSum(c) <= already[m] /\ already[m] + a <= Budget[c]
  BY <1>1 DEF Commit, LocksExpense, LocksBudget, BudgetInv, FoundIsCurrent
<1>3. /\ status' = [status EXCEPT ![e] = "APPROVED"]
      /\ decisions' = [decisions EXCEPT ![e] = @ + 1]
      /\ UNCHANGED <<category, amount, reviews>>
      /\ End(m)
  BY <1>1 DEF Commit, Decide
<1>4. /\ ApprovedSum(c)' = ApprovedSum(c) + a
      /\ \A d : d # c => ApprovedSum(d)' = ApprovedSum(d)
  BY <1>1, <1>2, <1>3, SumGrows DEF BudgetInv
<1>5. TypeOK'
  BY <1>3 DEF BudgetInv, TypeOK, Status, Step, End
<1>6. /\ step'[m] = "idle"
      /\ \A n \in Managers : n # m =>
           step'[n] = step[n] /\ target'[n] = target[n] /\ already'[n] = already[n]
  BY <1>3 DEF BudgetInv, TypeOK, End
<1>7. \A n \in Managers :
        /\ LocksExpense(n)' => n # m /\ LocksExpense(n)
        /\ LocksBudget(n)' => n # m /\ LocksBudget(n)
        /\ LocksBudget(n) => LocksExpense(n) /\ target[n] \in Expenses
        /\ LocksExpense(n) => target[n] \in Expenses
        /\ step[n] = "summed" => LocksBudget(n)
  BY <1>6 DEF LocksExpense, LocksBudget, BudgetInv, TypeOK
<1>8. LocksExclusive'
  BY <1>3, <1>6, <1>7 DEF BudgetInv, LocksExclusive
<1>9. FoundIsCurrent'
  <2> SUFFICES ASSUME NEW n \in Managers, n # m
               PROVE  /\ LocksExpense(n) => status'[target[n]] = "NEEDS_REVIEW"
                      /\ LocksBudget(n) => category[target[n]] \in DOMAIN Budget
                      /\ step[n] = "summed" =>
                           \A d : d = category[target[n]] =>
                                 ApprovedSum(d)' <= already[n]
    BY <1>3, <1>6, <1>7 DEF FoundIsCurrent, LocksExpense, LocksBudget
  <2>1. LocksExpense(n) => target[n] # e
    BY <1>1, <1>2 DEF BudgetInv, LocksExclusive
  <2>2. LocksBudget(n) => category[target[n]] # c
    BY <1>1, <1>2 DEF BudgetInv, LocksExclusive
  <2>3. LocksExpense(n) => status'[target[n]] = "NEEDS_REVIEW"
    BY <1>3, <1>7, <2>1 DEF BudgetInv, FoundIsCurrent, TypeOK
  <2>4. step[n] = "summed" =>
          \A d : d = category[target[n]] => ApprovedSum(d)' <= already[n]
    BY <1>3, <1>4, <1>7, <2>2 DEF BudgetInv, FoundIsCurrent
  <2> QED BY <2>3, <2>4 DEF BudgetInv, FoundIsCurrent
<1>10. OneDecisionPerReview'
  BY <1>2, <1>3 DEF BudgetInv, OneDecisionPerReview, TypeOK
<1>11. NeverOverBudget'
  <2>1. ApprovedSum(c)' <= Limit(c)
    <3>1. /\ ApprovedSum(c) \in Nat /\ already[m] \in Nat
          /\ Budget[c] \in Nat /\ Limit(c) = Budget[c]
      BY <1>2, SumIsNat, BudgetAssumption DEF Limit, BudgetInv, TypeOK
    <3> QED BY <1>2, <1>4, <3>1
  <2>2. \A d \in Categories : d # c => ApprovedSum(d)' <= Limit(d)
    BY <1>4 DEF BudgetInv, NeverOverBudget
  <2> QED BY <2>1, <2>2 DEF NeverOverBudget
<1> QED BY <1>5, <1>8, <1>9, <1>10, <1>11 DEF BudgetInv

(* A transaction on an expense that no approval has locked.                *)
LEMMA FreeStep ==
  ASSUME BudgetInv, NEW e \in Expenses, ExpenseFree(e), UNCHANGED txnVars,
         \A f \in Expenses : f # e =>
           status'[f] = status[f] /\ category'[f] = category[f],
         \A c : ApprovedSum(c)' <= ApprovedSum(c),
         TypeOK', OneDecisionPerReview'
  PROVE  BudgetInv'
<1>1. \A n \in Managers :
        /\ LocksExpense(n)' = LocksExpense(n)
        /\ LocksBudget(n)' = LocksBudget(n)
        /\ LocksBudget(n) => LocksExpense(n)
        /\ step[n] = "summed" => LocksBudget(n)
        /\ LocksExpense(n) => target[n] \in Expenses /\ target[n] # e
  BY DEF LocksExpense, LocksBudget, txnVars, ExpenseFree, BudgetInv, TypeOK
<1>2. LocksExclusive'
  BY <1>1 DEF BudgetInv, LocksExclusive, txnVars
<1>3. FoundIsCurrent'
  <2> SUFFICES ASSUME NEW n \in Managers, LocksExpense(n)
               PROVE  /\ status'[target[n]] = "NEEDS_REVIEW"
                      /\ LocksBudget(n) => category'[target[n]] \in DOMAIN Budget
                      /\ step[n] = "summed" =>
                           \A c : c = category[target[n]] =>
                                 ApprovedSum(c)' <= already[n]
    BY <1>1 DEF FoundIsCurrent, txnVars
  <2>1. /\ status'[target[n]] = status[target[n]]
        /\ category'[target[n]] = category[target[n]]
    BY <1>1
  <2>2. ASSUME NEW c, c = category[target[n]], step[n] = "summed"
        PROVE  ApprovedSum(c)' <= already[n]
    <3>1. /\ ApprovedSum(c) \in Nat /\ ApprovedSum(c)' \in Nat
          /\ already[n] \in Nat
      BY SumIsNat DEF BudgetInv, TypeOK
    <3>2. ApprovedSum(c) <= already[n] /\ ApprovedSum(c)' <= ApprovedSum(c)
      BY <2>2 DEF BudgetInv, FoundIsCurrent
    <3> QED BY <3>1, <3>2
  <2> QED BY <2>1, <2>2 DEF BudgetInv, FoundIsCurrent
<1>4. NeverOverBudget'
  <2> SUFFICES ASSUME NEW c \in Categories
               PROVE  ApprovedSum(c)' <= Limit(c)
    BY DEF NeverOverBudget
  <2>1. /\ ApprovedSum(c) \in Nat /\ ApprovedSum(c)' \in Nat
        /\ Limit(c) \in Nat /\ ApprovedSum(c) <= Limit(c)
    BY SumIsNat, BudgetAssumption DEF BudgetInv, NeverOverBudget, Limit
  <2> QED BY <2>1
<1> QED BY <1>2, <1>3, <1>4 DEF BudgetInv

LEMMA ProceedStep ==
  ASSUME BudgetInv, NEW m \in Managers, Proceed(m)
  PROVE  BudgetInv'
<1>1. CASE LockExpense(m)
  BY <1>1, AdvanceStep, EndStep DEF LockExpense
<1>2. CASE LockBudget(m)
  BY <1>2, AdvanceStep, EndStep DEF LockBudget
<1>3. CASE SumApproved(m)
  BY <1>3, AdvanceStep
<1>4. CASE Commit(m)
  BY <1>4, CommitStep, EndStep DEF Commit
<1> QED BY <1>1, <1>2, <1>3, <1>4 DEF Proceed

LEMMA OtherStep ==
  ASSUME BudgetInv, NEW e \in Expenses,
         \/ Reject(e)
         \/ \E c \in Categories, a \in Amounts : Edit(e, c, a)
         \/ Submit(e)
         \/ Validate(e)
         \/ Revalidate(e)
  PROVE  BudgetInv'
<1>1. /\ ExpenseFree(e) /\ UNCHANGED txnVars /\ status'[e] # "APPROVED"
      /\ \A f \in Expenses : f # e =>
           /\ status'[f] = status[f]
           /\ category'[f] = category[f]
           /\ amount'[f] = amount[f]
  BY DEF Reject, Edit, Submit, Validate, Revalidate, Decide, BudgetInv, TypeOK
<1>2. TypeOK'
  <2>1. CASE Revalidate(e)
    <3>1. (IF status[e] = "NEEDS_REVIEW" THEN reviews[e] - 1 ELSE reviews[e])
            \in 0 .. MaxReviews
      BY BudgetAssumption DEF BudgetInv, TypeOK, OneDecisionPerReview
    <3> QED BY <2>1, <3>1 DEF Revalidate, BudgetInv, TypeOK, Status, txnVars
  <2>2. CASE ~Revalidate(e)
    BY <2>2, BudgetAssumption
    DEF Reject, Edit, Submit, Validate, Decide, BudgetInv, TypeOK, Status,
        txnVars
  <2> QED BY <2>1, <2>2
<1>3. OneDecisionPerReview'
  BY BudgetAssumption
  DEF Reject, Edit, Submit, Validate, Revalidate, Decide, BudgetInv, TypeOK,
      OneDecisionPerReview
<1>4. \A c : ApprovedSum(c)' <= ApprovedSum(c)
  <2>1. CASE status[e] # "APPROVED"
    BY <1>1, <2>1, SumsStay, SumIsNat
  <2>2. CASE status[e] = "APPROVED"
    <3>1. PICK s \in {"NEEDS_REVIEW", "SUBMITTED"} :
            /\ status' = [status EXCEPT ![e] = s]
            /\ UNCHANGED <<category, amount>>
      BY <2>2 DEF Reject, Edit, Submit, Validate, Revalidate
    <3>2. amount[e] \in Nat
      BY BudgetAssumption DEF BudgetInv, TypeOK, Amounts
    <3>3. TypeOK
      BY DEF BudgetInv
    <3>4. /\ ApprovedSum(category[e]) = ApprovedSum(category[e])' + amount[e]
          /\ \A c : c # category[e] => ApprovedSum(c)' = ApprovedSum(c)
      BY <2>2, <3>1, <3>3, SumShrinks
    <3>5. PICK c : c = category[e]
      OBVIOUS
    <3>6. ApprovedSum(c)' <= ApprovedSum(c)
      BY <3>1, <3>2, <3>4, <3>5, SumIsNat
    <3> QED BY <3>4, <3>5, <3>6, SumIsNat
  <2> QED BY <2>1, <2>2
<1> QED BY <1>1, <1>2, <1>3, <1>4, FreeStep

LEMMA BudgetStep == BudgetInv /\ [Next]_vars => BudgetInv'
<1> SUFFICES ASSUME BudgetInv, [Next]_vars
             PROVE  BudgetInv'
  OBVIOUS
<1>1. ASSUME NEW m \in Managers, NEW e \in Expenses, Call(m, e)
      PROVE  BudgetInv'
  <2>1. /\ UNCHANGED <<expenseVars, already>>
        /\ \A n \in Managers :
             /\ n # m => step'[n] = step[n] /\ target'[n] = target[n]
             /\ n = m => step[n] = "idle" /\ step'[n] = "called"
    BY <1>1 DEF Call, BudgetInv, TypeOK
  <2>2. TypeOK'
    BY <1>1 DEF Call, BudgetInv, TypeOK, Step, expenseVars
  <2>3. \A n \in Managers :
          /\ LocksExpense(n)' => n # m /\ LocksExpense(n)
          /\ LocksBudget(n)' => n # m /\ LocksBudget(n)
    BY <2>1 DEF LocksExpense, LocksBudget
  <2>4. \A c : ApprovedSum(c)' = ApprovedSum(c)
    BY <2>1, SumsUnchanged DEF expenseVars
  <2>5. LocksExclusive'
    BY <2>1, <2>3 DEF BudgetInv, LocksExclusive, expenseVars
  <2>6. FoundIsCurrent'
    BY <2>1, <2>3, <2>4 DEF BudgetInv, FoundIsCurrent, expenseVars
  <2> QED BY <2>1, <2>2, <2>4, <2>5, <2>6
          DEF BudgetInv, OneDecisionPerReview, NeverOverBudget, expenseVars
<1>2. ASSUME NEW m \in Managers, Proceed(m) \/ Rollback(m)
      PROVE  BudgetInv'
  BY <1>2, ProceedStep, EndStep DEF Rollback
<1>3. CASE OtherRequest
  BY <1>3, OtherStep DEF OtherRequest
<1>4. CASE UNCHANGED vars
  <2>1. \A c : ApprovedSum(c)' = ApprovedSum(c)
    BY <1>4, SumsUnchanged DEF vars, expenseVars
  <2>2. \A n \in Managers :
          /\ LocksExpense(n)' = LocksExpense(n)
          /\ LocksBudget(n)' = LocksBudget(n)
    BY <1>4 DEF LocksExpense, LocksBudget, vars, txnVars
  <2> QED BY <1>4, <2>1, <2>2
          DEF BudgetInv, TypeOK, LocksExclusive, FoundIsCurrent,
              OneDecisionPerReview, NeverOverBudget, vars, txnVars, expenseVars
<1> QED BY <1>1, <1>2, <1>3, <1>4 DEF Next, Approval

LEMMA BudgetAlways == Spec => []BudgetInv
BY BudgetInit, BudgetStep, PTL DEF Spec

----------------------------------------------------------------------------
(* The theorems: however many managers approve at the same time, ...       *)

(* ... the state keeps its type;                                           *)
THEOREM BudgetTypeCorrect == Spec => []TypeOK
BY BudgetAlways, PTL DEF BudgetInv

(* ... approve never lets the approved expenses of a category exceed its   *)
(* budget;                                                                 *)
THEOREM BudgetNeverExceeded == Spec => []NeverOverBudget
BY BudgetAlways, PTL DEF BudgetInv

(* ... each review of an expense ends with one decision of one manager.    *)
THEOREM ReviewDecidedOnce == Spec => []OneDecisionPerReview
BY BudgetAlways, PTL DEF BudgetInv

----------------------------------------------------------------------------
(* Waiting for row locks.  That every approval gets its answer needs       *)
(* fairness; that nobody can wait for ever does not.                       *)

(* The next statement of m locks a row that n has locked.                  *)
WaitsFor(m, n) ==
  \/ step[m] = "called" /\ LocksExpense(n) /\ target[n] = target[m]
  \/ /\ step[m] = "expense" /\ category[target[m]] \in DOMAIN Budget
     /\ LocksBudget(n) /\ category[target[n]] = category[target[m]]

(* The guard of Proceed(m): its next statement can run.                    *)
Running(m) == step[m] # "idle" /\ \A n \in Managers : ~WaitsFor(m, n)

WaitingEnds ==
  \A m, n \in Managers : WaitsFor(m, n) =>
    /\ \A k \in Managers : WaitsFor(m, k) => k = n
    /\ Running(n) \/ \E k \in Managers : WaitsFor(n, k) /\ Running(k)

(* Whoever holds a budget row waits for nobody.                            *)
LEMMA HoldersRun ==
  ASSUME NEW m \in Managers, LocksBudget(m)
  PROVE  Running(m)
BY DEF LocksBudget, Running, WaitsFor

(* The rows are locked in one order, the expense before the budget, so     *)
(* whatever managers approve at the same time, each waits for one other    *)
(* only, who can go on or waits for one who can: there is no deadlock.     *)
THEOREM ApprovalsNeverDeadlock == Spec => []WaitingEnds
<1>1. BudgetInv => WaitingEnds
  <2> SUFFICES ASSUME LocksExclusive,
                      NEW m \in Managers, NEW n \in Managers, WaitsFor(m, n)
               PROVE  /\ \A k \in Managers : WaitsFor(m, k) => k = n
                      /\ \/ Running(n)
                         \/ \E k \in Managers : WaitsFor(n, k) /\ Running(k)
    BY DEF BudgetInv, WaitingEnds
  <2>1. \A k \in Managers : WaitsFor(m, k) => k = n
    BY DEF WaitsFor, LocksExclusive
  <2>2. LocksExpense(n) /\ step[n] # "idle" /\ step[n] # "called"
    BY DEF WaitsFor, LocksExpense, LocksBudget
  <2>3. ASSUME NEW k \in Managers, WaitsFor(n, k)
        PROVE  Running(k)
    <3>1. LocksBudget(k)
      BY <2>2, <2>3 DEF WaitsFor
    <3> QED BY <3>1, HoldersRun
  <2> QED BY <2>1, <2>2, <2>3 DEF Running
<1> QED BY <1>1, BudgetAlways, PTL

----------------------------------------------------------------------------
(* Refinement of the ledger                                                *)

Balance == [c \in Categories |-> Limit(c) - ApprovedSum(c)]
ChargeOf(e) == IF status[e] = "APPROVED" THEN {<<category[e], amount[e]>>} ELSE {}
Charges == [e \in Expenses |-> ChargeOf(e)]

LEMMA LedgerInit == Init => Ledger!Init
<1> SUFFICES ASSUME Init
             PROVE  Ledger!Init
  OBVIOUS
<1>1. \A c : ApprovedSum(c) = 0
  <2>1. \A c : ApprovedWon(c) = {}
    BY DEF Init, ApprovedWon, Approved
  <2> QED BY <2>1, FS_EmptySet DEF ApprovedSum
<1>2. \A c \in Categories : Limit(c) - 0 = Limit(c)
  BY BudgetAssumption DEF Limit
<1> QED BY <1>1, <1>2 DEF Init, Ledger!Init

LEMMA LedgerUnchanged ==
  ASSUME \A c : ApprovedSum(c)' = ApprovedSum(c),
         \A e \in Expenses : ChargeOf(e)' = ChargeOf(e)
  PROVE  UNCHANGED Ledger!vars
BY DEF Ledger!vars, ChargeOf

(* Approving e is charging its amount, ...                                 *)
LEMMA LedgerCharge ==
  ASSUME BudgetInv, NEW m \in Managers, Commit(m),
         already[m] + amount[target[m]] <= Budget[category[target[m]]]
  PROVE  Ledger!Next
<1>1. PICK e \in Expenses, c \in Categories, a \in Amounts :
        e = target[m] /\ c = category[e] /\ a = amount[e]
  BY DEF BudgetInv, TypeOK, Commit
<1>2. /\ status[e] = "NEEDS_REVIEW" /\ c \in DOMAIN Budget
      /\ ApprovedSum(c) <= already[m] /\ already[m] + a <= Budget[c]
      /\ a \in Nat /\ already[m] \in Nat /\ Budget[c] \in Nat
  BY <1>1, BudgetAssumption
  DEF Commit, LocksExpense, LocksBudget, BudgetInv, FoundIsCurrent, TypeOK,
      Amounts
<1>3. /\ status' = [status EXCEPT ![e] = "APPROVED"]
      /\ UNCHANGED <<category, amount>>
  BY <1>1 DEF Commit, Decide
<1>4. /\ ApprovedSum(c)' = ApprovedSum(c) + a
      /\ \A d : d # c => ApprovedSum(d)' = ApprovedSum(d)
  BY <1>1, <1>2, <1>3, SumGrows DEF BudgetInv
<1>5. \A d \in Categories : ApprovedSum(d) \in Nat /\ Limit(d) \in Nat
  BY SumIsNat, BudgetAssumption DEF Limit
<1>6. a <= Balance[c]
  BY <1>2, <1>5 DEF Balance, Limit
<1>7. Balance' = [Balance EXCEPT ![c] = @ - a]
  <2>1. \A d \in Categories :
          Limit(d) - ApprovedSum(d)' = IF d = c THEN Balance[c] - a ELSE Balance[d]
    BY <1>2, <1>4, <1>5 DEF Balance
  <2> QED BY <2>1 DEF Balance
<1>8. Charges[e] = {} /\ Charges' = [Charges EXCEPT ![e] = {<<c, a>>}]
  <2>1. /\ ChargeOf(e) = {} /\ ChargeOf(e)' = {<<c, a>>}
        /\ \A f \in Expenses : f # e => ChargeOf(f)' = ChargeOf(f)
    BY <1>1, <1>2, <1>3 DEF BudgetInv, TypeOK, ChargeOf
  <2> QED BY <2>1 DEF Charges
<1>9. Ledger!Charge(e, c, a)
  BY <1>6, <1>7, <1>8 DEF Ledger!Charge, Balance, Charges, ChargeOf
<1> QED BY <1>9 DEF Ledger!Next

(* ... a late worker gives it back, ...                                    *)
LEMMA LedgerGiveBack ==
  ASSUME BudgetInv, NEW e \in Expenses, status[e] = "APPROVED",
         NEW s, s # "APPROVED", status' = [status EXCEPT ![e] = s],
         UNCHANGED <<category, amount>>
  PROVE  Ledger!Next
<1>1. PICK c \in Categories, a \in Amounts : c = category[e] /\ a = amount[e]
  BY DEF BudgetInv, TypeOK
<1>2. a \in Nat
  BY BudgetAssumption DEF Amounts
<1>3. /\ ApprovedSum(c) = ApprovedSum(c)' + a
      /\ \A d : d # c => ApprovedSum(d)' = ApprovedSum(d)
  BY <1>1, SumShrinks DEF BudgetInv
<1>4. \A d \in Categories :
        /\ ApprovedSum(d) \in Nat /\ ApprovedSum(d)' \in Nat
        /\ Limit(d) \in Nat
  BY SumIsNat, BudgetAssumption DEF Limit
<1>5. Balance' = [Balance EXCEPT ![c] = @ + a]
  <2>1. \A d \in Categories :
          Limit(d) - ApprovedSum(d)' = IF d = c THEN Balance[c] + a ELSE Balance[d]
    BY <1>2, <1>3, <1>4 DEF Balance
  <2> QED BY <2>1 DEF Balance
<1>6. Charges[e] = {<<c, a>>} /\ Charges' = [Charges EXCEPT ![e] = {}]
  <2>1. /\ ChargeOf(e) = {<<c, a>>} /\ ChargeOf(e)' = {}
        /\ \A f \in Expenses : f # e => ChargeOf(f)' = ChargeOf(f)
    BY <1>1 DEF BudgetInv, TypeOK, ChargeOf
  <2> QED BY <2>1 DEF Charges
<1>7. Ledger!GiveBack(e, c, a)
  BY <1>5, <1>6 DEF Ledger!GiveBack, Balance, Charges, ChargeOf
<1> QED BY <1>7 DEF Ledger!Next

(* ... and nothing else touches the ledger.                                *)
LEMMA LedgerStep ==
  ASSUME BudgetInv, [Next]_vars
  PROVE  [Ledger!Next]_(Ledger!vars)
<1>1. CASE UNCHANGED <<status, category, amount>>
  BY <1>1, SumsUnchanged, LedgerUnchanged DEF ChargeOf
<1>2. ASSUME NEW m \in Managers, Commit(m)
      PROVE  [Ledger!Next]_(Ledger!vars)
  BY <1>1, <1>2, LedgerCharge DEF Commit, expenseVars
<1>3. ASSUME NEW e \in Expenses,
             \/ Reject(e)
             \/ \E c \in Categories, a \in Amounts : Edit(e, c, a)
             \/ Submit(e)
             \/ Validate(e)
             \/ Revalidate(e)
      PROVE  [Ledger!Next]_(Ledger!vars)
  <2>1. CASE status[e] = "APPROVED"
    <3>1. PICK s \in {"NEEDS_REVIEW", "SUBMITTED"} :
            /\ status' = [status EXCEPT ![e] = s]
            /\ UNCHANGED <<category, amount>>
      BY <1>3, <2>1 DEF Reject, Edit, Submit, Validate, Revalidate
    <3> QED BY <2>1, <3>1, LedgerGiveBack
  <2>2. CASE status[e] # "APPROVED"
    <3>1. /\ status'[e] # "APPROVED"
          /\ \A f \in Expenses : f # e =>
               /\ status'[f] = status[f]
               /\ category'[f] = category[f]
               /\ amount'[f] = amount[f]
      BY <1>3
      DEF Reject, Edit, Submit, Validate, Revalidate, Decide, BudgetInv, TypeOK
    <3>2. \A c : ApprovedSum(c)' = ApprovedSum(c)
      BY <2>2, <3>1, SumsStay
    <3>3. \A f \in Expenses : ChargeOf(f)' = ChargeOf(f)
      BY <2>2, <3>1 DEF ChargeOf
    <3> QED BY <3>2, <3>3, LedgerUnchanged
  <2> QED BY <2>1, <2>2
<1>4. ASSUME NEW m \in Managers,
             \/ \E e \in Expenses : Call(m, e)
             \/ LockExpense(m) \/ LockBudget(m) \/ SumApproved(m) \/ Rollback(m)
      PROVE  UNCHANGED <<status, category, amount>>
  BY <1>4 DEF Call, LockExpense, LockBudget, SumApproved, Rollback, expenseVars
<1>5. CASE UNCHANGED vars
  BY <1>1, <1>5 DEF vars, expenseVars
<1> QED BY <1>1, <1>2, <1>3, <1>4, <1>5
        DEF Next, Approval, Proceed, OtherRequest

(* The approval transactions implement a stored balance that each approval *)
(* charges in one step.                                                    *)
THEOREM ApprovalImplementsLedger == Spec => ImplementsLedger
BY LedgerInit, LedgerStep, BudgetAlways, PTL
DEF Spec, ImplementsLedger, Ledger!Spec
=============================================================================
