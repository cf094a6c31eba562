----------------------- MODULE ReportSettlementProofs -----------------------
(***************************************************************************)
(* Proofs about ReportSettlement for any number of expenses, months,       *)
(* managers and reports.                                                   *)
(***************************************************************************)
EXTENDS ReportSettlement, TLAPS

(* A finalize in progress works on a draft and is the only one to do so.   *)
LocksExclusive ==
  /\ \A m \in Managers : task[m] = "finalize" =>
       report[target[m]] = "DRAFT" /\ about[m] = period[target[m]]
  /\ \A m, n \in Managers :
       /\ task[m] = "finalize" /\ task[n] = "finalize"
       /\ target[m] = target[n]
       => m = n

(* What a session has summed is still approved in its month.               *)
SumsCurrent ==
  \A m \in Managers :
    /\ task[m] = "none" => monthRead[m] = {}
    /\ \A e \in monthRead[m] \ LateExpenses :
         e \in approved /\ InMonth(spent[e], about[m])
    /\ read[m] = 2 => monthRead[m] \ LateExpenses \subseteq cumulativeRead[m]

SettlementInv ==
  /\ TypeOK
  /\ LocksExclusive
  /\ SumsCurrent
  /\ OneReportPerMonth
  /\ LockedInMonth
  /\ CountedAreLocked
  /\ CumulativeCoversMonth

----------------------------------------------------------------------------
(* Months                                                                  *)

(* A month holds the dates that bear its year and month and no others, at  *)
(* the turn of the year too: no date lies in two months.                   *)
LEMMA MonthHoldsItself ==
  ASSUME NEW d \in Nat \X (1 .. 12), NEW p \in Nat \X (1 .. 12)
  PROVE  InMonth(d, p) <=> d = p
<1>1. PICK y \in Nat, k \in 1 .. 12 : d = <<y, k>>
  OBVIOUS
<1>2. PICK z \in Nat, l \in 1 .. 12 : p = <<z, l>>
  OBVIOUS
<1>3. CASE l = 12
  BY <1>1, <1>2, <1>3 DEF InMonth, Before, MonthEnd
<1>4. CASE l # 12
  BY <1>1, <1>2, <1>4 DEF InMonth, Before, MonthEnd
<1> QED BY <1>3, <1>4

LEMMA OneMonth ==
  ASSUME NEW d \in Periods, NEW p \in Periods, NEW q \in Periods,
         InMonth(d, p), InMonth(d, q)
  PROVE  p = q
BY MonthHoldsItself, ReportAssumption

LEMMA AnyPeriodIsPeriod == AnyPeriod \in Periods
BY ReportAssumption DEF AnyPeriod

----------------------------------------------------------------------------
LEMMA InitSettlement == Init => SettlementInv
<1> SUFFICES ASSUME Init PROVE SettlementInv
  OBVIOUS
<1>1. TypeOK
  BY ReportAssumption, AnyPeriodIsPeriod
  DEF Init, TypeOK, Reports, ReportStatus, Task
<1>2. LocksExclusive
  BY DEF Init, LocksExclusive
<1>3. SumsCurrent
  BY DEF Init, SumsCurrent
<1>4. OneReportPerMonth /\ LockedInMonth /\ CountedAreLocked
  BY DEF Init, OneReportPerMonth, LockedInMonth, CountedAreLocked
<1>5. CumulativeCoversMonth
  BY DEF Init, CumulativeCoversMonth
<1> QED BY <1>1, <1>2, <1>3, <1>4, <1>5 DEF SettlementInv

----------------------------------------------------------------------------
(* Steps of one manager's session that write no report: the others' locks  *)
(* and everything the reports say stay as they are.                        *)

LEMMA ReportsKept ==
  ASSUME SettlementInv, UNCHANGED <<expenseVars, reportVars>>
  PROVE  /\ OneReportPerMonth' /\ LockedInMonth'
         /\ CountedAreLocked' /\ CumulativeCoversMonth'
<1>1. OneReportPerMonth'
  BY DEF SettlementInv, OneReportPerMonth, reportVars
<1>2. LockedInMonth'
  BY DEF SettlementInv, LockedInMonth, reportVars, expenseVars, InMonth, Before
<1>3. CountedAreLocked'
  BY DEF SettlementInv, CountedAreLocked, reportVars, expenseVars
<1>4. CumulativeCoversMonth'
  BY DEF SettlementInv, CumulativeCoversMonth, reportVars
<1> QED BY <1>1, <1>2, <1>3, <1>4

LEMMA RequestReportStep ==
  ASSUME SettlementInv, NEW m \in Managers, NEW p \in Periods,
         RequestReport(m, p)
  PROVE  SettlementInv'
<1> USE DEF RequestReport
<1>1. TypeOK'
  BY DEF SettlementInv, TypeOK, expenseVars, reportVars, Task
<1>2. LocksExclusive'
  BY DEF SettlementInv, TypeOK, LocksExclusive, reportVars
<1>3. SumsCurrent'
  BY DEF SettlementInv, TypeOK, SumsCurrent, expenseVars
<1> QED BY <1>1, <1>2, <1>3, ReportsKept DEF SettlementInv

LEMMA LockReportStep ==
  ASSUME SettlementInv, NEW m \in Managers, NEW r \in Reports,
         LockReport(m, r)
  PROVE  SettlementInv'
<1> USE DEF LockReport
<1>r. r \in 0 .. MaxReports
  BY DEF Reports
<1>1. TypeOK'
  BY <1>r DEF SettlementInv, TypeOK, expenseVars, reportVars, Task
<1>2. LocksExclusive'
  BY DEF SettlementInv, TypeOK, LocksExclusive, reportVars, ReportFree
<1>3. SumsCurrent'
  BY DEF SettlementInv, TypeOK, SumsCurrent, expenseVars
<1> QED BY <1>1, <1>2, <1>3, ReportsKept DEF SettlementInv

LEMMA SumMonthStep ==
  ASSUME SettlementInv, NEW m \in Managers, SumMonth(m)
  PROVE  SettlementInv'
<1> USE DEF SumMonth
<1>1. TypeOK'
  BY DEF SettlementInv, TypeOK, expenseVars, reportVars, MonthApproved
<1>2. LocksExclusive'
  BY DEF SettlementInv, LocksExclusive, reportVars
<1>3. SumsCurrent'
  BY DEF SettlementInv, TypeOK, SumsCurrent, expenseVars, MonthApproved
<1> QED BY <1>1, <1>2, <1>3, ReportsKept DEF SettlementInv

LEMMA SumCumulativeStep ==
  ASSUME SettlementInv, NEW m \in Managers, SumCumulative(m)
  PROVE  SettlementInv'
<1> USE DEF SumCumulative
<1>1. TypeOK'
  BY DEF SettlementInv, TypeOK, expenseVars, reportVars, CumulativeApproved
<1>2. LocksExclusive'
  BY DEF SettlementInv, LocksExclusive, reportVars
<1>3. monthRead[m] \ LateExpenses \subseteq CumulativeApproved(about[m])
  BY DEF SettlementInv, SumsCurrent, CumulativeApproved, InMonth
<1>4. SumsCurrent'
  BY <1>3 DEF SettlementInv, TypeOK, SumsCurrent, expenseVars
<1> QED BY <1>1, <1>2, <1>4, ReportsKept DEF SettlementInv

(* The end of a request, as far as the sessions are concerned.             *)
LEMMA EndSession ==
  ASSUME SettlementInv, NEW m \in Managers, EndRequest(m),
         UNCHANGED <<spent, approved>>
  PROVE  /\ task' \in [Managers -> Task]
         /\ target' \in [Managers -> 0 .. MaxReports]
         /\ \A n \in Managers : task'[n] = "finalize" => target'[n] \in Reports
         /\ about' \in [Managers -> Periods]
         /\ read' \in [Managers -> 0 .. 2]
         /\ monthRead' \in [Managers -> SUBSET Expenses]
         /\ cumulativeRead' \in [Managers -> SUBSET Expenses]
         /\ \A n \in Managers : task'[n] = "finalize" =>
              n # m /\ task[n] = "finalize" /\ target'[n] = target[n]
              /\ about'[n] = about[n]
         /\ SumsCurrent'
<1> USE DEF EndRequest
<1>1. 0 \in 0 .. MaxReports
  BY ReportAssumption
<1>2. /\ task' \in [Managers -> Task]
      /\ target' \in [Managers -> 0 .. MaxReports]
      /\ \A n \in Managers : task'[n] = "finalize" => target'[n] \in Reports
      /\ about' \in [Managers -> Periods]
      /\ read' \in [Managers -> 0 .. 2]
  BY <1>1, AnyPeriodIsPeriod DEF SettlementInv, TypeOK, Task
<1>3. /\ monthRead' \in [Managers -> SUBSET Expenses]
      /\ cumulativeRead' \in [Managers -> SUBSET Expenses]
  BY DEF SettlementInv, TypeOK
<1>4. \A n \in Managers : task'[n] = "finalize" =>
        n # m /\ task[n] = "finalize" /\ target'[n] = target[n]
        /\ about'[n] = about[n]
  BY DEF SettlementInv, TypeOK
<1>5. SumsCurrent'
  BY DEF SettlementInv, TypeOK, SumsCurrent
<1> QED BY <1>2, <1>3, <1>4, <1>5

LEMMA RollbackStep ==
  ASSUME SettlementInv, NEW m \in Managers, Rollback(m)
  PROVE  SettlementInv'
<1>1. UNCHANGED <<expenseVars, reportVars>> /\ EndRequest(m)
  BY DEF Rollback
<1>2. TypeOK'
  BY <1>1, EndSession DEF SettlementInv, TypeOK, expenseVars, reportVars
<1>3. LocksExclusive'
  BY <1>1, EndSession DEF SettlementInv, LocksExclusive, reportVars, expenseVars
<1>4. SumsCurrent'
  BY <1>1, EndSession DEF expenseVars
<1> QED BY <1>1, <1>2, <1>3, <1>4, ReportsKept DEF SettlementInv

----------------------------------------------------------------------------
(* The two steps that write a report                                       *)

LEMMA InsertReportStep ==
  ASSUME SettlementInv, NEW m \in Managers, InsertReport(m)
  PROVE  SettlementInv'
<1>1. UNCHANGED expenseVars /\ EndRequest(m) /\ read[m] = 2
  BY DEF InsertReport
<1>2. SumsCurrent'
  BY <1>1, EndSession DEF expenseVars
<1>3. CASE UNCHANGED reportVars
  <2>1. TypeOK'
    BY <1>1, <1>3, EndSession DEF SettlementInv, TypeOK, expenseVars, reportVars
  <2>2. LocksExclusive'
    BY <1>1, <1>3, EndSession
    DEF SettlementInv, LocksExclusive, reportVars, expenseVars
  <2> QED BY <1>1, <1>2, <1>3, <2>1, <2>2, ReportsKept DEF SettlementInv
<1>4. CASE ReportsOf(about[m]) = {} /\ \E r \in Reports : NewReport(m, r)
  <2>1. PICK r \in Reports : NewReport(m, r)
    BY <1>4
  <2>2. /\ report[r] = "ABSENT"
        /\ report' = [report EXCEPT ![r] = "DRAFT"]
        /\ period' = [period EXCEPT ![r] = about[m]]
        /\ month' = [month EXCEPT ![r] = monthRead[m]]
        /\ cumulative' = [cumulative EXCEPT ![r] = cumulativeRead[m]]
    BY <2>1 DEF NewReport
  <2>3. TypeOK'
    BY <1>1, <2>2, EndSession
    DEF SettlementInv, TypeOK, expenseVars, ReportStatus
  <2>4. LocksExclusive'
    BY <1>1, <2>2, EndSession DEF SettlementInv, TypeOK, LocksExclusive,
       expenseVars
  <2>5. OneReportPerMonth'
    BY <1>4, <2>2 DEF SettlementInv, TypeOK, OneReportPerMonth, ReportsOf
  <2>6. LockedInMonth'
    <3> SUFFICES ASSUME NEW e \in Expenses, reportId'[e] # 0
                 PROVE  /\ report'[reportId'[e]] = "FINAL"
                        /\ InMonth(spent'[e], period'[reportId'[e]])
      BY DEF LockedInMonth, InMonth, Before, MonthEnd
    <3>1. reportId'[e] = reportId[e] /\ reportId[e] \in Reports
          /\ spent'[e] = spent[e]
      BY <1>1 DEF SettlementInv, TypeOK, Reports, expenseVars
    <3>2. report[reportId[e]] = "FINAL" /\ InMonth(spent[e], period[reportId[e]])
      BY <3>1 DEF SettlementInv, LockedInMonth
    <3> QED BY <3>1, <3>2, <2>2 DEF SettlementInv, TypeOK
  <2>7. CountedAreLocked'
    BY <1>1, <2>2 DEF SettlementInv, TypeOK, CountedAreLocked, expenseVars
  <2>8. CumulativeCoversMonth'
    BY <1>1, <2>2 DEF SettlementInv, TypeOK, CumulativeCoversMonth, SumsCurrent
  <2> QED BY <1>2, <2>3, <2>4, <2>5, <2>6, <2>7, <2>8 DEF SettlementInv
<1> QED BY <1>3, <1>4 DEF InsertReport

(* A final report does not change when another one is finalized, and what  *)
(* the finalized one counts was free to be locked by it.                   *)
LEMMA FinalizeReportStep ==
  ASSUME SettlementInv, NEW m \in Managers, FinalizeReport(m)
  PROVE  /\ SettlementInv'
         /\ \A q \in Reports : report[q] = "FINAL" =>
              /\ report'[q] = "FINAL"
              /\ month'[q] = month[q] /\ cumulative'[q] = cumulative[q]
              /\ LockedBy(q)' = LockedBy(q)
<1> DEFINE r == target[m]
<1>1. /\ task[m] = "finalize" /\ read[m] = 2
      /\ reportId' = [e \in Expenses |->
                        IF e \in MonthApproved(about[m]) /\ reportId[e] = 0
                        THEN r ELSE reportId[e]]
      /\ report' = [report EXCEPT ![r] = "FINAL"]
      /\ month' = [month EXCEPT ![r] = monthRead[m]]
      /\ cumulative' = [cumulative EXCEPT ![r] = cumulativeRead[m]]
      /\ UNCHANGED <<approved, spent, period>>
      /\ EndRequest(m)
  BY DEF FinalizeReport
<1>2. r \in Reports /\ report[r] = "DRAFT" /\ about[m] = period[r]
  BY <1>1 DEF SettlementInv, TypeOK, LocksExclusive
<1>3. Reports \subseteq 0 .. MaxReports /\ 0 \notin Reports
  BY DEF Reports
<1>4. \A e \in Expenses : reportId[e] # 0 =>
        /\ reportId[e] \in Reports /\ reportId[e] # r
        /\ report[reportId[e]] = "FINAL"
        /\ InMonth(spent[e], period[reportId[e]])
        /\ reportId'[e] = reportId[e]
  <2>1. \A e \in Expenses : reportId[e] # 0 =>
          reportId[e] \in Reports /\ reportId'[e] = reportId[e]
    BY <1>1 DEF SettlementInv, TypeOK, Reports
  <2> QED BY <1>2, <2>1 DEF SettlementInv, LockedInMonth
<1>5. \A e \in Expenses : reportId[e] = 0 =>
        reportId'[e] = IF e \in MonthApproved(about[m]) THEN r ELSE 0
  BY <1>1
<1>6. SumsCurrent'
  BY <1>1, EndSession
<1>7. TypeOK'
  <2>1. reportId' \in [Expenses -> 0 .. MaxReports]
    BY <1>1, <1>2, <1>3 DEF SettlementInv, TypeOK
  <2>2. /\ report' \in [Reports -> ReportStatus]
        /\ month' \in [Reports -> SUBSET Expenses]
        /\ cumulative' \in [Reports -> SUBSET Expenses]
    BY <1>1 DEF SettlementInv, TypeOK, ReportStatus
  <2> QED BY <1>1, <2>1, <2>2, EndSession DEF SettlementInv, TypeOK
<1>8. LocksExclusive'
  <2>1. \A n \in Managers : task'[n] = "finalize" =>
          /\ n # m /\ task[n] = "finalize" /\ target'[n] = target[n]
          /\ about'[n] = about[n] /\ target[n] # r
    BY <1>1, EndSession DEF SettlementInv, LocksExclusive
  <2> QED BY <1>1, <2>1 DEF SettlementInv, TypeOK, LocksExclusive
<1>9. OneReportPerMonth'
  BY <1>1, <1>2 DEF SettlementInv, TypeOK, OneReportPerMonth
<1>10. LockedInMonth'
  <2> SUFFICES ASSUME NEW e \in Expenses, reportId'[e] # 0
               PROVE  /\ report'[reportId'[e]] = "FINAL"
                      /\ InMonth(spent[e], period[reportId'[e]])
    BY <1>1 DEF LockedInMonth, InMonth, Before, MonthEnd
  <2>1. CASE reportId[e] # 0
    BY <1>1, <1>4, <2>1 DEF SettlementInv, TypeOK
  <2>2. CASE reportId[e] = 0
    <3>1. e \in MonthApproved(about[m]) /\ reportId'[e] = r
      BY <1>5, <2>2
    <3>2. InMonth(spent[e], period[r])
      BY <1>2, <3>1 DEF MonthApproved
    <3> QED BY <1>1, <1>2, <3>1, <3>2 DEF SettlementInv, TypeOK
  <2> QED BY <2>1, <2>2
<1>11. CountedAreLocked'
  <2> SUFFICES ASSUME NEW q \in Reports, report'[q] = "FINAL",
                      NEW e \in month'[q] \ LateExpenses
               PROVE  e \in approved /\ reportId'[e] = q
    BY <1>1 DEF CountedAreLocked
  <2>1. CASE q # r
    <3>1. report[q] = "FINAL" /\ e \in month[q] \ LateExpenses
      BY <1>1, <2>1 DEF SettlementInv, TypeOK
    <3>2. e \in Expenses /\ e \in approved /\ reportId[e] = q
      BY <3>1 DEF SettlementInv, TypeOK, CountedAreLocked
    <3> QED BY <1>3, <1>4, <3>2
  <2>2. CASE q = r
    <3>1. e \in monthRead[m] \ LateExpenses
      BY <1>1, <1>2, <2>2 DEF SettlementInv, TypeOK
    <3>2. e \in Expenses /\ e \in approved /\ InMonth(spent[e], about[m])
      BY <3>1 DEF SettlementInv, TypeOK, SumsCurrent
    <3>3. reportId[e] = 0
      <4> SUFFICES ASSUME reportId[e] # 0 PROVE FALSE
        OBVIOUS
      <4> DEFINE s == reportId[e]
      <4>1. s \in Reports /\ s # r /\ report[s] = "FINAL"
            /\ InMonth(spent[e], period[s])
        BY <1>4, <3>2
      <4>2. period[s] = period[r]
        BY <1>2, <3>2, <4>1, OneMonth DEF SettlementInv, TypeOK
      <4> QED BY <1>2, <4>1, <4>2 DEF SettlementInv, OneReportPerMonth
    <3>4. e \in MonthApproved(about[m])
      BY <3>2 DEF MonthApproved
    <3> QED BY <1>5, <2>2, <3>2, <3>3, <3>4
  <2> QED BY <2>1, <2>2
<1>12. CumulativeCoversMonth'
  BY <1>1, <1>2 DEF SettlementInv, TypeOK, CumulativeCoversMonth, SumsCurrent
<1>13. ASSUME NEW q \in Reports, report[q] = "FINAL"
       PROVE  /\ report'[q] = "FINAL"
              /\ month'[q] = month[q] /\ cumulative'[q] = cumulative[q]
              /\ LockedBy(q)' = LockedBy(q)
  <2>1. q # r
    BY <1>2, <1>13
  <2>2. \A e \in Expenses : reportId'[e] = q <=> reportId[e] = q
    BY <1>3, <1>4, <1>5, <2>1
  <2> QED BY <1>1, <1>13, <2>1, <2>2 DEF SettlementInv, TypeOK, LockedBy
<1> QED
  BY <1>6, <1>7, <1>8, <1>9, <1>10, <1>11, <1>12, <1>13 DEF SettlementInv

----------------------------------------------------------------------------
(* Steps on expenses                                                       *)

LEMMA EditStep ==
  ASSUME SettlementInv, NEW e \in Expenses, NEW d \in Periods, Edit(e, d)
  PROVE  SettlementInv'
<1>1. /\ e \notin approved /\ reportId[e] = 0
      /\ spent' = [spent EXCEPT ![e] = d]
      /\ UNCHANGED <<approved, reportId, reportVars, sessionVars>>
  BY DEF Edit
<1>2. TypeOK'
  BY <1>1 DEF SettlementInv, TypeOK, reportVars, sessionVars
<1>3. LocksExclusive'
  BY <1>1 DEF SettlementInv, LocksExclusive, reportVars, sessionVars
<1>4. \A f \in Expenses : f # e => spent'[f] = spent[f]
  BY <1>1 DEF SettlementInv, TypeOK
<1>5. SumsCurrent'
  <2> SUFFICES ASSUME NEW m \in Managers, NEW f \in monthRead[m] \ LateExpenses
               PROVE  f \in approved /\ InMonth(spent'[f], about[m])
    BY <1>1 DEF SettlementInv, SumsCurrent, sessionVars, InMonth, Before, MonthEnd
  <2>1. f \in Expenses /\ f \in approved /\ InMonth(spent[f], about[m])
    BY DEF SettlementInv, TypeOK, SumsCurrent
  <2> QED BY <1>1, <1>4, <2>1
<1>6. LockedInMonth'
  <2> SUFFICES ASSUME NEW f \in Expenses, reportId[f] # 0
               PROVE  /\ report[reportId[f]] = "FINAL"
                      /\ InMonth(spent'[f], period[reportId[f]])
    BY <1>1 DEF LockedInMonth, reportVars, InMonth, Before, MonthEnd
  <2>1. f # e
    BY <1>1
  <2> QED BY <1>4, <2>1 DEF SettlementInv, LockedInMonth
<1>7. OneReportPerMonth' /\ CountedAreLocked' /\ CumulativeCoversMonth'
  BY <1>1 DEF SettlementInv, OneReportPerMonth, CountedAreLocked,
     CumulativeCoversMonth, reportVars
<1> QED BY <1>2, <1>3, <1>5, <1>6, <1>7 DEF SettlementInv

(* Approving, and reopening a late expense: no ordinary expense is lost.   *)
LEMMA DecideStep ==
  ASSUME SettlementInv, NEW e \in Expenses, Approve(e) \/ Reopen(e)
  PROVE  SettlementInv'
<1>1. /\ approved' \in SUBSET Expenses
      /\ approved \ LateExpenses \subseteq approved'
      /\ UNCHANGED <<spent, reportId, reportVars, sessionVars>>
  BY DEF Approve, Reopen, SettlementInv, TypeOK
<1>2. TypeOK'
  BY <1>1 DEF SettlementInv, TypeOK, reportVars, sessionVars
<1>3. LocksExclusive'
  BY <1>1 DEF SettlementInv, LocksExclusive, reportVars, sessionVars
<1>4. SumsCurrent'
  BY <1>1 DEF SettlementInv, SumsCurrent, sessionVars, InMonth, Before, MonthEnd
<1>5. LockedInMonth'
  BY <1>1 DEF SettlementInv, LockedInMonth, reportVars, InMonth, Before, MonthEnd
<1>6. OneReportPerMonth' /\ CountedAreLocked' /\ CumulativeCoversMonth'
  BY <1>1 DEF SettlementInv, OneReportPerMonth, CountedAreLocked,
     CumulativeCoversMonth, reportVars
<1> QED BY <1>2, <1>3, <1>4, <1>5, <1>6 DEF SettlementInv

----------------------------------------------------------------------------
LEMMA StepSettlement == SettlementInv /\ [Next]_vars => SettlementInv'
<1> SUFFICES ASSUME SettlementInv, [Next]_vars PROVE SettlementInv'
  OBVIOUS
<1>1. CASE ReportRequest
  <2>1. PICK m \in Managers :
          \/ \E p \in Periods : RequestReport(m, p)
          \/ \E r \in Reports : LockReport(m, r)
          \/ SumMonth(m) \/ SumCumulative(m)
          \/ InsertReport(m) \/ FinalizeReport(m)
          \/ Rollback(m)
    BY <1>1 DEF ReportRequest
  <2> QED
    BY <2>1, RequestReportStep, LockReportStep, SumMonthStep, SumCumulativeStep,
       InsertReportStep, FinalizeReportStep, RollbackStep
<1>2. CASE ExpenseRequest
  BY <1>2, EditStep, DecideStep DEF ExpenseRequest
<1>3. CASE UNCHANGED vars
  <2>1. TypeOK'
    BY <1>3 DEF SettlementInv, TypeOK, vars, expenseVars, reportVars, sessionVars
  <2>2. LocksExclusive'
    BY <1>3 DEF SettlementInv, LocksExclusive, vars, reportVars, sessionVars
  <2>3. SumsCurrent'
    BY <1>3 DEF SettlementInv, SumsCurrent, vars, expenseVars, sessionVars,
       InMonth, Before, MonthEnd
  <2> QED BY <1>3, <2>1, <2>2, <2>3, ReportsKept DEF SettlementInv, vars
<1> QED BY <1>1, <1>2, <1>3 DEF Next

LEMMA AlwaysSettlement == Spec => []SettlementInv
<1> QED BY InitSettlement, StepSettlement, PTL DEF Spec

(* Every state of the model is well typed.                                 *)
THEOREM ReportTypeCorrect == Spec => []TypeOK
<1>1. SettlementInv => TypeOK
  BY DEF SettlementInv
<1> QED BY <1>1, AlwaysSettlement, PTL

(* Two managers who create a month's report at once make one report, as    *)
(* the unique constraint behind create_report guarantees.                  *)
THEOREM MonthReportedOnce == Spec => []OneReportPerMonth
<1>1. SettlementInv => OneReportPerMonth
  BY DEF SettlementInv
<1> QED BY <1>1, AlwaysSettlement, PTL

(* What a final report locks keeps its date, because update_expense        *)
(* refuses a locked expense in whatever status a late worker has put it.   *)
THEOREM LockedKeepMonth == Spec => []LockedInMonth
<1>1. SettlementInv => LockedInMonth
  BY DEF SettlementInv
<1> QED BY <1>1, AlwaysSettlement, PTL

(* What the figures of a final report count, finalize has locked for it,   *)
(* so no expense is counted by two final reports.                          *)
THEOREM CountedAlwaysLocked == Spec => []CountedAreLocked
<1>1. SettlementInv => CountedAreLocked
  BY DEF SettlementInv
<1> QED BY <1>1, AlwaysSettlement, PTL

(* The order of the two sums in build_summary keeps the cumulative figure  *)
(* at least as large as the month's.                                       *)
THEOREM CumulativeAlwaysCovers == Spec => []CumulativeCoversMonth
<1>1. SettlementInv => CumulativeCoversMonth
  BY DEF SettlementInv
<1> QED BY <1>1, AlwaysSettlement, PTL

(* Once finalize has committed, no later finalize, edit or late worker     *)
(* changes a report's figures or the set of expenses it locks.             *)
THEOREM FinalReportsFrozen == Spec => FinalFrozen
<1> DEFINE Frozen == \A r \in Reports : report[r] = "FINAL" =>
                       /\ report'[r] = "FINAL"
                       /\ month'[r] = month[r]
                       /\ cumulative'[r] = cumulative[r]
                       /\ LockedBy(r)' = LockedBy(r)
<1>1. SettlementInv /\ [Next]_vars => [Frozen]_vars
  <2> SUFFICES ASSUME SettlementInv, Next PROVE Frozen
    OBVIOUS
  <2>1. ASSUME NEW m \in Managers, FinalizeReport(m) PROVE Frozen
    BY <2>1, FinalizeReportStep
  <2>2. CASE UNCHANGED <<reportId, reportVars>>
    BY <2>2 DEF LockedBy, reportVars
  <2>3. ASSUME NEW m \in Managers, NEW r \in Reports, NewReport(m, r),
               UNCHANGED reportId
        PROVE  Frozen
    BY <2>3 DEF NewReport, LockedBy, SettlementInv, TypeOK
  <2>4. CASE ReportRequest
    BY <2>1, <2>2, <2>3, <2>4
    DEF ReportRequest, RequestReport, LockReport, SumMonth, SumCumulative,
        InsertReport, Rollback, expenseVars
  <2>5. CASE ExpenseRequest
    BY <2>2, <2>5 DEF ExpenseRequest, Edit, Approve, Reopen
  <2> QED BY <2>4, <2>5 DEF Next
<1> QED BY <1>1, AlwaysSettlement, PTL DEF Spec, FinalFrozen

----------------------------------------------------------------------------
(* The books                                                               *)

(* A month with a row has exactly one, and its book says what the row says.*)
BooksRead ==
  /\ \A r \in Reports : report[r] # "ABSENT" =>
       /\ ReportsOf(period[r]) = {r}
       /\ Book[period[r]] = IF report[r] = "FINAL" THEN "CLOSED" ELSE "OPEN"
       /\ Figures[period[r]] = month[r]
       /\ Total[period[r]] = cumulative[r]
  /\ \A p \in Periods : ReportsOf(p) = {} =>
       Book[p] = "NONE" /\ Figures[p] = {} /\ Total[p] = {}

LEMMA BooksReadRows == SettlementInv => BooksRead
<1> SUFFICES ASSUME SettlementInv PROVE BooksRead
  OBVIOUS
<1>1. ASSUME NEW r \in Reports, report[r] # "ABSENT"
      PROVE  /\ ReportsOf(period[r]) = {r}
             /\ Book[period[r]] = IF report[r] = "FINAL" THEN "CLOSED" ELSE "OPEN"
             /\ Figures[period[r]] = month[r]
             /\ Total[period[r]] = cumulative[r]
  <2>1. ReportsOf(period[r]) = {r} /\ period[r] \in Periods
    BY <1>1 DEF SettlementInv, TypeOK, OneReportPerMonth, ReportsOf
  <2>2. Book[period[r]] = IF report[r] = "FINAL" THEN "CLOSED" ELSE "OPEN"
    BY <2>1 DEF Book
  <2>3. UNION {month[q] : q \in {r}} = month[r]
        /\ UNION {cumulative[q] : q \in {r}} = cumulative[r]
    OBVIOUS
  <2> QED BY <2>1, <2>2, <2>3 DEF Figures, Total
<1>2. ASSUME NEW p \in Periods, ReportsOf(p) = {}
      PROVE  Book[p] = "NONE" /\ Figures[p] = {} /\ Total[p] = {}
  BY <1>2 DEF Book, Figures, Total
<1> QED BY <1>1, <1>2 DEF BooksRead

LEMMA InitBooks == Init => Books!Init
<1> SUFFICES ASSUME Init PROVE Books!Init
  OBVIOUS
<1>1. \A p \in Periods : ReportsOf(p) = {}
  BY DEF Init, ReportsOf
<1>2. BooksRead
  BY InitSettlement, BooksReadRows
<1>3. Settled = [e \in Expenses |-> {}]
  BY DEF Settled, Init
<1> QED BY <1>1, <1>2, <1>3 DEF BooksRead, Books!Init, Book, Figures, Total

(* The books of the months that a step writes no row of.                   *)
LEMMA OtherBooks ==
  ASSUME NEW r \in Reports, NEW q \in Periods,
         ReportsOf(q)' = ReportsOf(q), r \notin ReportsOf(q),
         \A s \in Reports \ {r} : /\ report'[s] = report[s]
                                 /\ month'[s] = month[s]
                                 /\ cumulative'[s] = cumulative[s]
  PROVE  Book'[q] = Book[q] /\ Figures'[q] = Figures[q] /\ Total'[q] = Total[q]
<1>1. \A s \in ReportsOf(q) : /\ report'[s] = report[s]
                              /\ month'[s] = month[s]
                              /\ cumulative'[s] = cumulative[s]
  BY DEF ReportsOf
<1>2. Book'[q] = Book[q]
  BY <1>1 DEF Book
<1>3. {month'[s] : s \in ReportsOf(q)} = {month[s] : s \in ReportsOf(q)}
  BY <1>1
<1>4. {cumulative'[s] : s \in ReportsOf(q)} = {cumulative[s] : s \in ReportsOf(q)}
  BY <1>1
<1> QED BY <1>2, <1>3, <1>4 DEF Figures, Total

(* A step that writes one row writes the book of one month.                *)
LEMMA OneBookWritten ==
  ASSUME NEW p \in Periods, NEW state, NEW F, NEW T,
         Book'[p] = state, Figures'[p] = F, Total'[p] = T,
         \A q \in Periods \ {p} :
           Book'[q] = Book[q] /\ Figures'[q] = Figures[q] /\ Total'[q] = Total[q]
  PROVE  /\ Book' = [Book EXCEPT ![p] = state]
         /\ Figures' = [Figures EXCEPT ![p] = F]
         /\ Total' = [Total EXCEPT ![p] = T]
<1>1. Book' = [Book EXCEPT ![p] = state]
  BY DEF Book
<1>2. Figures' = [Figures EXCEPT ![p] = F]
  BY DEF Figures
<1>3. Total' = [Total EXCEPT ![p] = T]
  BY DEF Total
<1> QED BY <1>1, <1>2, <1>3

LEMMA NewReportOpens ==
  ASSUME SettlementInv, SettlementInv', NEW m \in Managers,
         NEW r \in Reports, NewReport(m, r), ReportsOf(about[m]) = {},
         read[m] = 2, UNCHANGED expenseVars
  PROVE  Books!Open(about[m])
<1> DEFINE p == about[m]
<1>1. /\ report[r] = "ABSENT"
      /\ report' = [report EXCEPT ![r] = "DRAFT"]
      /\ period' = [period EXCEPT ![r] = p]
      /\ month' = [month EXCEPT ![r] = monthRead[m]]
      /\ cumulative' = [cumulative EXCEPT ![r] = cumulativeRead[m]]
  BY DEF NewReport
<1>2. p \in Periods /\ monthRead[m] \in SUBSET Expenses
      /\ cumulativeRead[m] \in SUBSET Expenses
  BY DEF SettlementInv, TypeOK
<1>3. BooksRead /\ BooksRead'
  BY BooksReadRows, PTL
<1>4. report'[r] = "DRAFT" /\ period'[r] = p /\ month'[r] = monthRead[m]
      /\ cumulative'[r] = cumulativeRead[m]
  BY <1>1 DEF SettlementInv, TypeOK
<1>5. Book'[p] = "OPEN" /\ Figures'[p] = monthRead[m]
      /\ Total'[p] = cumulativeRead[m]
  BY <1>3, <1>4 DEF BooksRead
<1>6. \A q \in Periods \ {p} :
        Book'[q] = Book[q] /\ Figures'[q] = Figures[q] /\ Total'[q] = Total[q]
  <2> SUFFICES ASSUME NEW q \in Periods, q # p
               PROVE  /\ Book'[q] = Book[q] /\ Figures'[q] = Figures[q]
                      /\ Total'[q] = Total[q]
    OBVIOUS
  <2>1. ReportsOf(q)' = ReportsOf(q) /\ r \notin ReportsOf(q)
    BY <1>1 DEF ReportsOf, SettlementInv, TypeOK
  <2> QED BY <1>1, <2>1, OtherBooks DEF SettlementInv, TypeOK
<1>7. /\ Book' = [Book EXCEPT ![p] = "OPEN"]
      /\ Figures' = [Figures EXCEPT ![p] = monthRead[m]]
      /\ Total' = [Total EXCEPT ![p] = cumulativeRead[m]]
  BY <1>2, <1>5, <1>6, OneBookWritten
<1>8. Book[p] = "NONE"
  BY <1>2, <1>3 DEF BooksRead
<1>9. Settled' = Settled
  <2>1. \A e \in Expenses : reportId'[e] = reportId[e]
    BY DEF expenseVars
  <2>2. \A e \in Expenses : reportId[e] # 0 =>
          period'[reportId[e]] = period[reportId[e]]
    BY <1>1 DEF SettlementInv, TypeOK, LockedInMonth, Reports
  <2>3. \A e \in Expenses : {period'[s] : s \in {reportId'[e]} \ {0}}
                           = {period[s] : s \in {reportId[e]} \ {0}}
    BY <2>1, <2>2
  <2> QED BY <2>3 DEF Settled
<1>10. monthRead[m] \ LateExpenses \subseteq cumulativeRead[m]
  BY DEF SettlementInv, SumsCurrent
<1>11. Books!Entered(p, monthRead[m])
  BY <1>2, <1>7, <1>10 DEF Books!Entered
<1> QED BY <1>2, <1>7, <1>8, <1>9, <1>11 DEF Books!Open

LEMMA FinalizeCloses ==
  ASSUME SettlementInv, SettlementInv', NEW m \in Managers, FinalizeReport(m)
  PROVE  Books!Close(period[target[m]])
<1> DEFINE r == target[m]
           p == period[r]
           S == {e \in MonthApproved(about[m]) : reportId[e] = 0}
<1>1. /\ task[m] = "finalize" /\ read[m] = 2
      /\ reportId' = [e \in Expenses |->
                        IF e \in MonthApproved(about[m]) /\ reportId[e] = 0
                        THEN r ELSE reportId[e]]
      /\ report' = [report EXCEPT ![r] = "FINAL"]
      /\ month' = [month EXCEPT ![r] = monthRead[m]]
      /\ cumulative' = [cumulative EXCEPT ![r] = cumulativeRead[m]]
      /\ UNCHANGED <<approved, spent, period>>
  BY DEF FinalizeReport
<1>2. /\ r \in Reports /\ report[r] = "DRAFT" /\ r # 0
      /\ p \in Periods /\ monthRead[m] \in SUBSET Expenses
      /\ cumulativeRead[m] \in SUBSET Expenses /\ S \in SUBSET Expenses
  BY <1>1 DEF SettlementInv, TypeOK, LocksExclusive, Reports, MonthApproved
<1>3. BooksRead /\ BooksRead'
  BY BooksReadRows, PTL
<1>4. report'[r] = "FINAL" /\ period'[r] = p /\ month'[r] = monthRead[m]
      /\ cumulative'[r] = cumulativeRead[m]
  BY <1>1, <1>2 DEF SettlementInv, TypeOK
<1>5. Book'[p] = "CLOSED" /\ Figures'[p] = monthRead[m]
      /\ Total'[p] = cumulativeRead[m]
  BY <1>2, <1>3, <1>4 DEF BooksRead
<1>6. Book[p] = "OPEN"
  BY <1>2, <1>3 DEF BooksRead
<1>7. \A q \in Periods \ {p} :
        Book'[q] = Book[q] /\ Figures'[q] = Figures[q] /\ Total'[q] = Total[q]
  <2> SUFFICES ASSUME NEW q \in Periods, q # p
               PROVE  /\ Book'[q] = Book[q] /\ Figures'[q] = Figures[q]
                      /\ Total'[q] = Total[q]
    OBVIOUS
  <2>1. ReportsOf(q)' = ReportsOf(q) /\ r \notin ReportsOf(q)
    BY <1>1, <1>2 DEF ReportsOf, SettlementInv, TypeOK
  <2> QED BY <1>1, <1>2, <2>1, OtherBooks DEF SettlementInv, TypeOK
<1>8. /\ Book' = [Book EXCEPT ![p] = "CLOSED"]
      /\ Figures' = [Figures EXCEPT ![p] = monthRead[m]]
      /\ Total' = [Total EXCEPT ![p] = cumulativeRead[m]]
  BY <1>2, <1>5, <1>7, OneBookWritten
<1>9. Books!Entered(p, monthRead[m])
  <2>1. monthRead[m] \ LateExpenses \subseteq cumulativeRead[m]
    BY <1>1 DEF SettlementInv, SumsCurrent
  <2> QED BY <1>2, <1>8, <2>1 DEF Books!Entered
<1>10. monthRead[m] \ LateExpenses \subseteq S
  <2> SUFFICES ASSUME NEW e \in monthRead[m] \ LateExpenses PROVE e \in S
    OBVIOUS
  <2>1. e \in Expenses /\ reportId'[e] = r
    BY <1>2, <1>4 DEF SettlementInv, CountedAreLocked
  <2>2. reportId[e] # r
    BY <1>2, <2>1 DEF SettlementInv, LockedInMonth
  <2> QED BY <1>1, <2>1, <2>2
<1>11. \A e \in S : Settled[e] = {}
  BY <1>2 DEF Settled
<1>12. Settled' = [e \in Expenses |-> IF e \in S THEN {p} ELSE Settled[e]]
  <2>1. \A e \in Expenses : {period'[s] : s \in {reportId'[e]} \ {0}}
                           = IF e \in S THEN {p} ELSE Settled[e]
    <3> SUFFICES ASSUME NEW e \in Expenses
                 PROVE  {period'[s] : s \in {reportId'[e]} \ {0}}
                        = IF e \in S THEN {p} ELSE Settled[e]
      OBVIOUS
    <3>1. CASE e \in S
      <4>1. reportId'[e] = r /\ period' = period
        BY <1>1, <3>1
      <4> QED BY <1>2, <3>1, <4>1
    <3>2. CASE e \notin S
      BY <1>1, <3>2 DEF Settled
    <3> QED BY <3>1, <3>2
  <2> QED BY <2>1 DEF Settled
<1> QED BY <1>2, <1>6, <1>8, <1>9, <1>10, <1>11, <1>12 DEF Books!Close

LEMMA StepBooks ==
  SettlementInv /\ SettlementInv' /\ [Next]_vars => [Books!Next]_Books!vars
<1> SUFFICES ASSUME SettlementInv, SettlementInv', [Next]_vars
             PROVE  Books!Next \/ UNCHANGED <<Book, Figures, Total, Settled>>
  BY DEF Books!vars
<1>1. CASE UNCHANGED <<reportId, reportVars>>
  BY <1>1 DEF reportVars, Book, Figures, Total, Settled, ReportsOf
<1>2. ASSUME NEW m \in Managers, InsertReport(m), ~UNCHANGED reportVars
      PROVE  Books!Next
  <2>1. /\ ReportsOf(about[m]) = {} /\ read[m] = 2 /\ UNCHANGED expenseVars
        /\ about[m] \in Periods
    BY <1>2 DEF InsertReport, SettlementInv, TypeOK
  <2>2. PICK r \in Reports : NewReport(m, r)
    BY <1>2 DEF InsertReport
  <2> QED BY <2>1, <2>2, NewReportOpens DEF Books!Next
<1>3. ASSUME NEW m \in Managers, FinalizeReport(m)
      PROVE  Books!Next
  <2>1. period[target[m]] \in Periods
    BY <1>3 DEF FinalizeReport, SettlementInv, TypeOK
  <2> QED BY <1>3, <2>1, FinalizeCloses DEF Books!Next
<1>4. CASE ReportRequest
  BY <1>1, <1>2, <1>3, <1>4
  DEF ReportRequest, RequestReport, LockReport, SumMonth, SumCumulative,
      InsertReport, Rollback, expenseVars
<1>5. CASE ExpenseRequest
  BY <1>1, <1>5 DEF ExpenseRequest, Edit, Approve, Reopen
<1> QED BY <1>1, <1>4, <1>5 DEF Next, vars, expenseVars

(* create_report and finalize, cut at every query and run by any number of *)
(* managers at once, implement books that are opened and closed in single  *)
(* steps: uq_reports_period opens a month's book once, FOR UPDATE closes   *)
(* it once, and the lock on the expenses settles what the figures count.   *)
THEOREM SettlementImplementsBooks == Spec => ImplementsBooks
<1> QED BY InitBooks, StepBooks, AlwaysSettlement, PTL
        DEF Spec, ImplementsBooks, Books!Spec
=============================================================================
