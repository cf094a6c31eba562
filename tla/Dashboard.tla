------------------------------ MODULE Dashboard ------------------------------
(***************************************************************************)
(* The figures of the dashboard and of a project's page, which several     *)
(* statements read one after the other while projects are created and      *)
(* expenses decided (services/dashboard.py, services/budget.py).  A sum is *)
(* represented by the expenses it adds up.  Rules, lead times and what AI  *)
(* and automation achieved are left out: nothing else is compared to them. *)
(***************************************************************************)
EXTENDS Projects, FiniteSets

CONSTANTS
  Claims,      \* expenses
  LateClaims,  \* those a given-up run may still take back after approval
  Viewers,     \* sessions that read the dashboard
  LastMonth,   \* bound: months that expenses are dated in
  Shown        \* months that the trend shows

ASSUME DashboardAssumption ==
  /\ Categories # {}
  /\ LateClaims \subseteq Claims
  /\ IsFiniteSet(Claims)
  /\ LastMonth \in Nat \ {0}
  /\ Shown \in Nat \ {0}

Months == 1 .. LastMonth

(* The scope of a read that is not limited to a project.                   *)
All == 0

(* How far a read has come: the statements it has sent.                    *)
Progress == {"idle", "lines", "usage", "counts", "trend"}

VARIABLES
  owner,     \* expenses.project_id, 0 before there is a row
  filed,     \* expenses.category
  dated,     \* the month of expenses.spent_at
  granted,   \* the expenses with status APPROVED
  progress,  \* where each viewer's request stands
  scope,     \* its project_id, or All
  linesRead, \* the budget lines it has added up, <<project, category>>
  usage,     \* the approved expenses set against them
  inCounts,  \* those in the row for APPROVED of the status counts
  trend      \* those in the trend, each with its month

claimVars == <<owner, filed, dated, granted>>
viewVars == <<progress, scope, linesRead, usage, inCounts, trend>>
dashboardVars == <<tableVars, claimVars, viewVars>>

DashboardTypeOK ==
  /\ owner \in [Claims -> Projects \union {0}]
  /\ filed \in [Claims -> Categories]
  /\ dated \in [Claims -> Months]
  /\ granted \in SUBSET Claims
  /\ progress \in [Viewers -> Progress]
  /\ scope \in [Viewers -> Projects \union {All}]
  /\ linesRead \in [Viewers -> SUBSET (Projects \X Categories)]
  /\ usage \in [Viewers -> SUBSET Claims]
  /\ inCounts \in [Viewers -> SUBSET Claims]
  /\ trend \in [Viewers -> SUBSET (Claims \X Months)]

AnyCategory == CHOOSE c \in Categories : TRUE

----------------------------------------------------------------------------
(* What happens to expenses meanwhile.                                     *)

(* create_expense: any category, whether the project has a line or not.    *)
CreateClaim(e, p, c, d) ==
  /\ owner[e] = 0
  /\ Exists(p)
  /\ owner' = [owner EXCEPT ![e] = p]
  /\ filed' = [filed EXCEPT ![e] = c]
  /\ dated' = [dated EXCEPT ![e] = d]
  /\ UNCHANGED <<tableVars, viewVars, granted>>

(* update_expense: the project of an expense stays.                        *)
EditClaim(e, c, d) ==
  /\ owner[e] # 0
  /\ e \notin granted
  /\ filed' = [filed EXCEPT ![e] = c]
  /\ dated' = [dated EXCEPT ![e] = d]
  /\ UNCHANGED <<tableVars, viewVars, owner, granted>>

(* approve needs a budget row; what the row allows is BudgetApproval's.    *)
GrantClaim(e) ==
  /\ owner[e] # 0 /\ e \notin granted
  /\ filed[e] \in budgetLines[owner[e]]
  /\ granted' = granted \union {e}
  /\ UNCHANGED <<tableVars, viewVars, owner, filed, dated>>

ReopenClaim(e) ==
  /\ e \in LateClaims \intersect granted
  /\ granted' = granted \ {e}
  /\ UNCHANGED <<tableVars, viewVars, owner, filed, dated>>

----------------------------------------------------------------------------
(* A read, statement by statement.                                         *)

InScope(v, e) == scope[v] \in {All, owner[e]}

ReadTo(v, from, to) ==
  /\ progress[v] = from
  /\ progress' = [progress EXCEPT ![v] = to]
  /\ UNCHANGED <<tableVars, claimVars>>

(* The request may name a project that does not exist.                     *)
ReadBudgets(v, s) ==
  /\ ReadTo(v, "idle", "lines")
  /\ scope' = [scope EXCEPT ![v] = s]
  /\ linesRead' = [linesRead EXCEPT ![v] =
       {x \in Projects \X Categories : s \in {All, x[1]} /\ x[2] \in budgetLines[x[1]]}]
  /\ UNCHANGED <<usage, inCounts, trend>>

(* The sum of each category; build_dashboard and budget_summaries drop     *)
(* those of categories without a line.                                     *)
ReadUsage(v) ==
  /\ ReadTo(v, "lines", "usage")
  /\ usage' = [usage EXCEPT ![v] = {e \in granted : InScope(v, e)}]
  /\ UNCHANGED <<scope, linesRead, inCounts, trend>>

ReadCounts(v) ==
  /\ ReadTo(v, "usage", "counts")
  /\ inCounts' = [inCounts EXCEPT ![v] = {e \in granted : InScope(v, e)}]
  /\ UNCHANGED <<scope, linesRead, usage, trend>>

(* The months that have approved expenses in scope.                        *)
MonthsWithData(v) == {dated[e] : e \in {f \in granted : InScope(v, f)}}

(* Variation: the trend shows the first months instead of the last.        *)
FirstMonths(v) ==
  {d \in MonthsWithData(v) : Cardinality({k \in MonthsWithData(v) : k < d}) < Shown}

(* monthly_rows[-months:]                                                  *)
ShownMonths(v) ==
  {d \in MonthsWithData(v) : Cardinality({k \in MonthsWithData(v) : k > d}) < Shown}

ReadTrend(v) ==
  /\ ReadTo(v, "counts", "trend")
  /\ trend' = [trend EXCEPT ![v] =
       {<<e, dated[e]>> : e \in {f \in granted : InScope(v, f)
                                               /\ dated[f] \in ShownMonths(v)}}]
  /\ UNCHANGED <<scope, linesRead, usage, inCounts>>

(* The request ends, or is cut off; budget_summaries ends after two reads. *)
EndRead(v) ==
  /\ progress[v] # "idle"
  /\ progress' = [progress EXCEPT ![v] = "idle"]
  /\ scope' = [scope EXCEPT ![v] = All]
  /\ linesRead' = [linesRead EXCEPT ![v] = {}]
  /\ usage' = [usage EXCEPT ![v] = {}]
  /\ inCounts' = [inCounts EXCEPT ![v] = {}]
  /\ trend' = [trend EXCEPT ![v] = {}]
  /\ UNCHANGED <<tableVars, claimVars>>

----------------------------------------------------------------------------
ClaimsInit ==
  /\ owner = [e \in Claims |-> 0]
  /\ filed = [e \in Claims |-> AnyCategory]
  /\ dated = [e \in Claims |-> 1]
  /\ granted = {}

ViewsInit ==
  /\ progress = [v \in Viewers |-> "idle"]
  /\ scope = [v \in Viewers |-> All]
  /\ linesRead = [v \in Viewers |-> {}]
  /\ usage = [v \in Viewers |-> {}]
  /\ inCounts = [v \in Viewers |-> {}]
  /\ trend = [v \in Viewers |-> {}]

DashboardInit == ProjectsInit /\ ClaimsInit /\ ViewsInit

ClaimStep ==
  \E e \in Claims :
    \/ \E c \in Categories, d \in Months :
         EditClaim(e, c, d) \/ \E p \in Projects : CreateClaim(e, p, c, d)
    \/ GrantClaim(e)
    \/ ReopenClaim(e)

ViewStep ==
  \E v \in Viewers :
    \/ \E s \in Projects \union {All} : ReadBudgets(v, s)
    \/ ReadUsage(v) \/ ReadCounts(v) \/ ReadTrend(v)
    \/ EndRead(v)

DashboardNext ==
  \/ ProjectsNext /\ UNCHANGED <<claimVars, viewVars>>
  \/ ClaimStep
  \/ ViewStep

DashboardSpec == DashboardInit /\ [][DashboardNext]_dashboardVars

----------------------------------------------------------------------------
(* Although each figure of a dashboard is a query of its own, and approvals*)
(* come in between, what stays approved adds up: nothing that is used is   *)
(* dropped for want of a line, unless its project is younger than the read;*)
(* what is used is also counted; what is counted is also in the trend,     *)
(* unless later months fill it.                                            *)
UsageHasLine(v) ==
  \A e \in usage[v] \ LateClaims :
    /\ InScope(v, e)
    /\ \/ <<owner[e], filed[e]>> \in linesRead[v]
       \/ \A c \in Categories : <<owner[e], c>> \notin linesRead[v]

UsedIsCounted(v) ==
  progress[v] \in {"counts", "trend"} => usage[v] \ LateClaims \subseteq inCounts[v]

CountedIsShown(v) ==
  progress[v] = "trend" =>
    \A e \in inCounts[v] \ LateClaims :
      \/ <<e, dated[e]>> \in trend[v]
      \/ trend[v] # {} /\ \A x \in trend[v] : dated[e] < x[2]

DashboardAddsUp ==
  /\ DashboardTypeOK
  /\ \A v \in Viewers : UsageHasLine(v) /\ UsedIsCounted(v) /\ CountedIsShown(v)
=============================================================================
