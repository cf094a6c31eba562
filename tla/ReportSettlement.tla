-------------------------- MODULE ReportSettlement --------------------------
(***************************************************************************)
(* Monthly reports: the figures a manager freezes and the expenses locked  *)
(* with them (services/report.py, api/routes/reports.py).                  *)
(*                                                                         *)
(* create_report and finalize are cut at every query whose result they     *)
(* use; under READ COMMITTED each query sees what is committed when it     *)
(* runs.  Their writes are one step with the commit.  A sum over expenses  *)
(* is represented by the set of expenses it counts, and of the statuses    *)
(* only APPROVED matters: module ExpenseWorkflow has the others.  The      *)
(* narrative is left out; it shares no state with the figures.             *)
(***************************************************************************)
EXTENDS Integers

CONSTANTS
  Expenses,      \* expenses of one project and category
  Periods,       \* months, as pairs <<year, month>>
  Managers,      \* sessions of managers
  LateExpenses,  \* expenses that a given-up run may still complete
  MaxReports     \* bound: rows of table reports

ASSUME ReportAssumption ==
  /\ Periods \subseteq Nat \X (1 .. 12)
  /\ Periods # {}
  /\ LateExpenses \subseteq Expenses
  /\ MaxReports \in Nat

Reports == 1 .. MaxReports
ReportStatus == {"ABSENT", "DRAFT", "FINAL"}

(* What a manager's session is doing: create_report after its check for a  *)
(* duplicate, or finalize with the report row locked.                      *)
Task == {"none", "create", "finalize"}

VARIABLES
  approved,    \* expenses with status APPROVED
  spent,       \* the month of expenses.spent_at
  reportId,    \* expenses.report_id, 0 for NULL
  report,      \* reports.status
  period,      \* reports.period_year and period_month
  month,       \* month_approved in summary_json
  cumulative,  \* cumulative_approved in summary_json
  task,        \* what each manager's session is doing
  target,      \* the report it works on, 0 for none
  about,       \* the month it works on
  read,        \* how many of the two sums it has read
  monthRead, cumulativeRead   \* and what they were

expenseVars == <<approved, spent, reportId>>
reportVars  == <<report, period, month, cumulative>>
sessionVars == <<task, target, about, read, monthRead, cumulativeRead>>
vars == <<expenseVars, reportVars, sessionVars>>

TypeOK ==
  /\ approved \in SUBSET Expenses
  /\ spent \in [Expenses -> Periods]
  /\ reportId \in [Expenses -> 0 .. MaxReports]
  /\ report \in [Reports -> ReportStatus]
  /\ period \in [Reports -> Periods]
  /\ month \in [Reports -> SUBSET Expenses]
  /\ cumulative \in [Reports -> SUBSET Expenses]
  /\ task \in [Managers -> Task]
  /\ target \in [Managers -> 0 .. MaxReports]
  /\ \A m \in Managers : task[m] = "finalize" => target[m] \in Reports
  /\ about \in [Managers -> Periods]
  /\ read \in [Managers -> 0 .. 2]
  /\ monthRead \in [Managers -> SUBSET Expenses]
  /\ cumulativeRead \in [Managers -> SUBSET Expenses]

(* Stands where a month has no meaning yet.                                *)
AnyPeriod == CHOOSE p \in Periods : TRUE

----------------------------------------------------------------------------
(* Months.  Both ends of a month's range are firsts of months, so of a     *)
(* date only year and month count.                                         *)

Before(d, e) == d[1] < e[1] \/ (d[1] = e[1] /\ d[2] < e[2])

(* _month_range: the first day after the month.                            *)
MonthEnd(p) == IF p[2] = 12 THEN <<p[1] + 1, 1>> ELSE <<p[1], p[2] + 1>>

(* Variation: the range includes the first day of the next month.          *)
InMonthOrNext(d, p) == ~Before(d, p) /\ ~Before(MonthEnd(p), d)

InMonth(d, p) == ~Before(d, p) /\ Before(d, MonthEnd(p))

(* approved_sums of build_summary, since the start of the month and since  *)
(* the start of the project.                                               *)
MonthApproved(p) == {e \in approved : InMonth(spent[e], p)}

(* Variation: the cumulative sum ends where the month begins.              *)
CumulativeBefore(p) == {e \in approved : Before(spent[e], p)}

CumulativeApproved(p) == {e \in approved : Before(spent[e], MonthEnd(p))}

(* The rows of a month, which uq_reports_period keeps to one.              *)
ReportsOf(p) == {r \in Reports : report[r] # "ABSENT" /\ period[r] = p}

(* Variation: finalize reads the report without FOR UPDATE.                *)
NeverLocked(r) == TRUE

(* finalize holds the row of its report until it commits.                  *)
ReportFree(r) == \A m \in Managers : ~(task[m] = "finalize" /\ target[m] = r)

(* Variation: the session forgets its report but not what it was doing.    *)
EndWithinTask(m) ==
  /\ target' = [target EXCEPT ![m] = 0]
  /\ read' = [read EXCEPT ![m] = 0]
  /\ monthRead' = [monthRead EXCEPT ![m] = {}]
  /\ cumulativeRead' = [cumulativeRead EXCEPT ![m] = {}]
  /\ about' = [about EXCEPT ![m] = AnyPeriod]
  /\ UNCHANGED task

(* The end of a request, by commit, rollback or refusal.                   *)
EndRequest(m) ==
  /\ task' = [task EXCEPT ![m] = "none"]
  /\ target' = [target EXCEPT ![m] = 0]
  /\ read' = [read EXCEPT ![m] = 0]
  /\ monthRead' = [monthRead EXCEPT ![m] = {}]
  /\ cumulativeRead' = [cumulativeRead EXCEPT ![m] = {}]
  /\ about' = [about EXCEPT ![m] = AnyPeriod]

----------------------------------------------------------------------------
(* Requests on reports                                                     *)

(* create_report up to its check for a duplicate.                          *)
RequestReport(m, p) ==
  /\ task[m] = "none"
  /\ ReportsOf(p) = {}
  /\ task' = [task EXCEPT ![m] = "create"]
  /\ about' = [about EXCEPT ![m] = p]
  /\ UNCHANGED <<expenseVars, reportVars, target, read, monthRead,
                 cumulativeRead>>

(* Variation: finalize does not look at the status.                        *)
LockAnyReport(m, r) ==
  /\ task[m] = "none"
  /\ report[r] # "ABSENT"
  /\ ReportFree(r)
  /\ task' = [task EXCEPT ![m] = "finalize"]
  /\ target' = [target EXCEPT ![m] = r]
  /\ about' = [about EXCEPT ![m] = period[r]]
  /\ UNCHANGED <<expenseVars, reportVars, read, monthRead, cumulativeRead>>

(* finalize up to its check of the status, under FOR UPDATE.               *)
LockReport(m, r) ==
  /\ task[m] = "none"
  /\ report[r] = "DRAFT"
  /\ ReportFree(r)
  /\ task' = [task EXCEPT ![m] = "finalize"]
  /\ target' = [target EXCEPT ![m] = r]
  /\ about' = [about EXCEPT ![m] = period[r]]
  /\ UNCHANGED <<expenseVars, reportVars, read, monthRead, cumulativeRead>>

(* build_summary: the month's sum, then the cumulative one.                *)
SumMonth(m) ==
  /\ task[m] \in {"create", "finalize"}
  /\ read[m] = 0
  /\ read' = [read EXCEPT ![m] = 1]
  /\ monthRead' = [monthRead EXCEPT ![m] = MonthApproved(about[m])]
  /\ UNCHANGED <<expenseVars, reportVars, task, target, about, cumulativeRead>>

SumCumulative(m) ==
  /\ task[m] \in {"create", "finalize"}
  /\ read[m] = 1
  /\ read' = [read EXCEPT ![m] = 2]
  /\ cumulativeRead' =
       [cumulativeRead EXCEPT ![m] = CumulativeApproved(about[m])]
  /\ UNCHANGED <<expenseVars, reportVars, task, target, about, monthRead>>

(* The row of a new report of manager m, with the next id.                 *)
NewReport(m, r) ==
  /\ report[r] = "ABSENT"
  /\ \A q \in Reports : q < r => report[q] # "ABSENT"
  /\ report' = [report EXCEPT ![r] = "DRAFT"]
  /\ period' = [period EXCEPT ![r] = about[m]]
  /\ month' = [month EXCEPT ![r] = monthRead[m]]
  /\ cumulative' = [cumulative EXCEPT ![r] = cumulativeRead[m]]

(* Variation: reports have no unique constraint on the month.              *)
InsertUnconstrained(m) ==
  /\ task[m] = "create"
  /\ read[m] = 2
  /\ \E r \in Reports : NewReport(m, r)
  /\ EndRequest(m)
  /\ UNCHANGED expenseVars

(* The insert of create_report and its commit.                             *)
(* If somebody else's report of the month has been committed meanwhile,    *)
(* the unique constraint refuses this one.                                 *)
InsertReport(m) ==
  /\ task[m] = "create"
  /\ read[m] = 2
  /\ \/ ReportsOf(about[m]) = {} /\ \E r \in Reports : NewReport(m, r)
     \/ ReportsOf(about[m]) # {} /\ UNCHANGED reportVars
  /\ EndRequest(m)
  /\ UNCHANGED expenseVars

(* The rest of finalize: the UPDATE that locks the month's approved        *)
(* expenses, and the commit of the snapshot read before it.                *)
FinalizeReport(m) ==
  LET r == target[m]
  IN  /\ task[m] = "finalize"
      /\ read[m] = 2
      /\ reportId' =
           [e \in Expenses |->
              IF e \in MonthApproved(about[m]) /\ reportId[e] = 0
              THEN r ELSE reportId[e]]
      /\ report' = [report EXCEPT ![r] = "FINAL"]
      /\ month' = [month EXCEPT ![r] = monthRead[m]]
      /\ cumulative' = [cumulative EXCEPT ![r] = cumulativeRead[m]]
      /\ EndRequest(m)
      /\ UNCHANGED <<approved, spent, period>>

(* A request that is cut off is rolled back.                               *)
Rollback(m) ==
  /\ task[m] # "none"
  /\ EndRequest(m)
  /\ UNCHANGED <<expenseVars, reportVars>>

----------------------------------------------------------------------------
(* What happens to expenses meanwhile                                      *)

(* Variation: ensure_editable does not look at report_id.                  *)
EditLocked(e, d) ==
  /\ e \notin approved
  /\ spent' = [spent EXCEPT ![e] = d]
  /\ UNCHANGED <<approved, reportId, reportVars, sessionVars>>

(* update_expense: the date can be edited, unless a report locks the row.  *)
(* (The code refuses it in review too; reports cannot tell.)               *)
Edit(e, d) ==
  /\ e \notin approved
  /\ reportId[e] = 0
  /\ spent' = [spent EXCEPT ![e] = d]
  /\ UNCHANGED <<approved, reportId, reportVars, sessionVars>>

Approve(e) ==
  /\ e \notin approved
  /\ approved' = approved \union {e}
  /\ UNCHANGED <<spent, reportId, reportVars, sessionVars>>

(* mark_validated by a worker whose run was given up: it writes            *)
(* NEEDS_REVIEW over any status, and the expense may be rejected then.     *)
Reopen(e) ==
  /\ e \in LateExpenses \intersect approved
  /\ approved' = approved \ {e}
  /\ UNCHANGED <<spent, reportId, reportVars, sessionVars>>

----------------------------------------------------------------------------
Init ==
  /\ approved = {}
  /\ spent \in [Expenses -> Periods]
  /\ reportId = [e \in Expenses |-> 0]
  /\ report = [r \in Reports |-> "ABSENT"]
  /\ period = [r \in Reports |-> AnyPeriod]
  /\ month = [r \in Reports |-> {}]
  /\ cumulative = [r \in Reports |-> {}]
  /\ task = [m \in Managers |-> "none"]
  /\ target = [m \in Managers |-> 0]
  /\ about = [m \in Managers |-> AnyPeriod]
  /\ read = [m \in Managers |-> 0]
  /\ monthRead = [m \in Managers |-> {}]
  /\ cumulativeRead = [m \in Managers |-> {}]

ReportRequest ==
  \E m \in Managers :
    \/ \E p \in Periods : RequestReport(m, p)
    \/ \E r \in Reports : LockReport(m, r)
    \/ SumMonth(m) \/ SumCumulative(m)
    \/ InsertReport(m) \/ FinalizeReport(m)
    \/ Rollback(m)

ExpenseRequest ==
  \E e \in Expenses :
    \/ \E d \in Periods : Edit(e, d)
    \/ Approve(e)
    \/ Reopen(e)

Next == ReportRequest \/ ExpenseRequest

Spec == Init /\ [][Next]_vars
----------------------------------------------------------------------------
(* Two managers who create the report of a month at once make one report.  *)
OneReportPerMonth ==
  \A q, r \in Reports :
    report[q] # "ABSENT" /\ report[r] # "ABSENT" /\ period[q] = period[r]
      => q = r

(* A final report is final: its figures and the set of expenses it locks   *)
(* never change, whoever finalizes at the same time and whatever happens   *)
(* to the expenses.                                                        *)
LockedBy(r) == {e \in Expenses : reportId[e] = r}

FinalFrozen ==
  [][\A r \in Reports : report[r] = "FINAL" =>
       /\ report'[r] = "FINAL"
       /\ month'[r] = month[r]
       /\ cumulative'[r] = cumulative[r]
       /\ LockedBy(r)' = LockedBy(r)]_vars

(* An expense stays in the month of the report that locks it, even after a *)
(* late worker has taken it back to review and a manager has rejected it.  *)
LockedInMonth ==
  \A e \in Expenses : reportId[e] # 0 =>
    /\ report[reportId[e]] = "FINAL"
    /\ InMonth(spent[e], period[reportId[e]])

(* What the figures of a final report count is approved and locked by that *)
(* report, although sums and lock are separate queries.                    *)
CountedAreLocked ==
  \A r \in Reports : report[r] = "FINAL" =>
    \A e \in month[r] \ LateExpenses : e \in approved /\ reportId[e] = r

(* Within a report the cumulative figure covers the month's figure,        *)
(* although approvals come in between the two sums.                        *)
CumulativeCoversMonth ==
  \A r \in Reports : month[r] \ LateExpenses \subseteq cumulative[r]

(* The docstring of Report: what a final report locks is what it includes. *)
FiguresMatchLocked ==
  \A r \in Reports : report[r] = "FINAL" =>
    LockedBy(r) \ LateExpenses \subseteq month[r]

(* The books that the rows amount to.                                      *)
Book ==
  [p \in Periods |->
     IF ReportsOf(p) = {} THEN "NONE"
     ELSE IF \E r \in ReportsOf(p) : report[r] = "FINAL" THEN "CLOSED" ELSE "OPEN"]

Figures == [p \in Periods |-> UNION {month[r] : r \in ReportsOf(p)}]

Total == [p \in Periods |-> UNION {cumulative[r] : r \in ReportsOf(p)}]

Settled == [e \in Expenses |-> {period[r] : r \in {reportId[e]} \ {0}}]

Books == INSTANCE MonthlyBooks WITH
  Months <- Periods, book <- Book, figures <- Figures, total <- Total,
  settled <- Settled

(* Queries, unique constraint and row locks together are as good as a book *)
(* per month that is opened and closed in single steps.                    *)
ImplementsBooks == Books!Spec
=============================================================================
