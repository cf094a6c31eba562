# TLA+ verification of rnd-settlement-hub

rnd-settlement-hub settles the expenses of R&D projects. Researchers register
and submit expenses, a background worker validates each submission (AI
extraction, fifteen rules, tax office), a manager approves or rejects it
against the budget of its category, and each month's approved expenses are
frozen in a report. This directory holds TLA+ models of its concurrent core and
of the inputs and decisions around it, TLC configurations that check them on
small instances, and TLAPS proofs of the main results for every value of the
constants.

File and line references are relative to `backend/app/` unless they start with
another directory.

## 1. The system

| Component | State | Operations | Interacts with | Modelled |
|---|---|---|---|---|
| Expense workflow (`services/expense.py`, `api/routes/expenses.py`) | `expenses.status`, fields, `deleted_at`, `report_id`, rows of `approvals` | create, edit, delete, submit, approve, reject, `mark_validated`, upload evidence | enqueues runs; read by rules and reports | `ExpenseWorkflow`, `BudgetApproval`, `EvidenceUpload` |
| Job queue (`services/queue.py`) | `automation_runs` (status, attempt, started_at) | enqueue, `claim_next`, `finish`, `requeue_stale` | called by submit, by reports and by workers | `ExpenseWorkflow`, `ReportNarrative` |
| Worker and pipeline (`worker.py`, `pipeline.py`) | one session and one run per worker | `execute`, `run_expense_pipeline`, `_handle_permanent_failure` | queue, expense rows, `validation_results`, external calls | `ExpenseWorkflow`, `RuleEvaluation`, `DuplicateClaims` |
| Budget (`services/budget.py`) | `budgets` (no balance is stored) | lock a row, sum what is approved, `budget_summaries` | approve, rules, reports, dashboard | `BudgetApproval`, `BudgetLedger`, `Dashboard` |
| Projects (`api/routes/projects.py`) | `projects`, the rows of `budgets` | create, update | expenses and budgets name a project | `Projects` |
| Monthly reports (`services/report.py`, `api/routes/reports.py`) | `reports`, `expenses.report_id` | create, edit narrative, finalize, narrative worker | queue, expenses, AI | `ReportSettlement`, `MonthlyBooks`, `ReportNarrative` |
| Card reconciliation (`services/reconciliation.py`) | snapshots | parse, match, store | reads expenses | `CardReconciliation` |
| Rules (`rules/`) | none | fifteen pure rules | pipeline | `RuleCatalog` |
| Vendor cache (`external/nts.py`) | `vendor_checks` | `check_vendor_status` | pipeline, tax office | `VendorCache` |
| Holiday calendar (`external/holidays.py`) | `holidays` | `sync_year`, `is_nonworking_day` | pipeline, astronomy institute | `HolidayCalendar` |
| Evidence files (`services/storage.py`) | files, `evidences` | save, look up | upload, pipeline | `EvidenceUpload` |
| AI (`ai/`, `services/ai_log.py`) | `ai_runs` | extract, suggest, draft | pipeline, reports | outcomes only, in `RuleEvaluation` and `ReportNarrative` |
| Dashboard (`services/dashboard.py`) | none | four queries one after the other | reads projects, budgets, expenses | `Dashboard` |
| Audit, notifications, authentication, web client | rows nobody in the core reads back | | | see *Not modelled* |

What is hard here is not any single function but the interleaving of
transactions: HTTP handlers run in a thread pool, several workers may run, a
worker holds a run across slow external calls *without* a lock on the expense,
its session keeps the object it loaded (`expire_on_commit=False`,
`autoflush=False`, db.py:17), runs are retried after an error and collected
after ten minutes when a worker dies. `PROJECT.json` lists the hazards line by
line with the properties that cover them.

What makes each component correct:

* workflow: a decision rests on the verdict of the content under review, is
  made once, and is final; a failing expense needs an override;
* queue: one worker per run at a time, bounded attempts, nothing forgotten;
* worker: every submission ends up in front of a reviewer;
* budget: the approved expenses of a category never exceed it;
* rules: results without a warning rest on a first evidence that was read and a
  vendor that was asked about, two claims of one purchase are noticed, a
  mistyped business number is caught;
* vendor cache, holidays: an answer is as recent as the time to live promises, a
  verified one is never lost, a synced holiday is flagged;
* evidence: every row has its file, and nothing is attached to an expense under
  review by a request that came after its submission;
* reports: the frozen figures are those of the frozen expenses, the narrative is
  the manager's once written, and somebody hears of the draft or its failure;
* reconciliation: no expense matched twice, no better pair overlooked;
* projects: a code is registered once, every project has budget lines, and no
  project ends before it starts;
* dashboard: figures that separate queries have read agree on what stays
  approved.

## 2. Modules

| Module | Content |
|---|---|
| `ExpenseWorkflow` | expenses, runs and workers, one action per transaction |
| `ExpenseLifecycle` | abstract specification: the state machine of an expense, validation as one step |
| `BudgetApproval` | approvals cut at every SQL statement, with row locks |
| `BudgetLedger` | abstract specification: a stored balance charged in one step |
| `ReportSettlement` | monthly reports cut at every query, and the expenses they count and lock |
| `MonthlyBooks` | abstract specification: a book per month, opened once and closed once |
| `ReportNarrative` | the draft of the worker against the text of the managers |
| `RuleCatalog`, `RuleEvaluation` | the fifteen rules; one expense on its way through the pipeline to them |
| `DuplicateClaims` | expenses of one purchase, evaluated and edited at once |
| `VendorCache` | the status of one vendor: tax office, cache, overlapping checks |
| `HolidayCalendar` | the holidays of one year: listing, table, syncs, lookups |
| `EvidenceUpload` | files and rows of evidence against submissions |
| `CardReconciliation` | a card statement matched with the expenses of a project |
| `Projects` | projects and their budget lines, created and updated by administrators |
| `Dashboard` | the figures read statement by statement while projects and approvals change |
| `MCExpenseWorkflow`, `MCBudgetApproval`, `MCReportSettlement`, `MCValidationInputs`, `MCSettlementDesk` | instances for TLC |
| `ExpenseWorkflowProofs`, `ExpenseLifecycleProofs`, `BudgetApprovalProofs`, `ReportSettlementProofs`, `VendorCacheProofs`, `ValidationInputsProofs`, `CardReconciliationProofs`, `SettlementDeskProofs` | theorems and proofs |

The operators marked *Variation* next to an action are plausible bugs of that
action. No specification uses them; each property is known to fail when the
action is replaced by the variation named for it in `PROJECT.json`.

### ExpenseWorkflow

State: `status`, `content`, `deleted`, `decision` are columns of an expense
(`decision` is its newest row of `approvals`); `runStatus`, `runExpense`,
`attempt` are the columns of a row of `automation_runs`, whose number is its
`id`; `results` are the `validation_results` of a run; `pc`, `job`, `seen`,
`found` say where a worker stands, its run, the content in its copy of the
expense, and the run as `finish` read it after an exception.

| Action | Code |
|---|---|
| `Create`, `Edit`, `Delete` | routes/expenses.py:65, 260; services/expense.py:251 |
| `Submit` | `submit` with `enqueue_expense_pipeline` (one commit) |
| `Approve`, `Reject` | services/expense.py:115, 194 |
| `Claim` | `claim_next` |
| `StartPipeline`, `BeginValidation` | pipeline.py:44-50 and 51-52: the unlocked read of the expense; the commit of `VALIDATING` |
| `SkipPipeline` | its early returns, 45-47 and 53-55 |
| `CompleteValidation` | results, `mark_validated`, commit, 105-118 |
| `FinishSuccess` | worker.py:45 |
| `PipelineError`, `FinishCommitError` | worker.py:46-49: the rollback, and the unlocked read of the run in `finish` (services/queue.py:83) |
| `FinishError` | the write and the commit of `finish`, 84-91, and the test of worker.py:50 |
| `PermanentFailure`, `HandOver` | worker.py:54-61 and 62-78: the unlocked read of the expense; the write and the commit |
| `RequeueStale` | services/queue.py:94-121 |
| `Crash` | the process dies; what it committed stays |

Between `BeginValidation` and `CompleteValidation` the worker waits for
external systems, and anything may happen. Where a transaction of a worker reads a
row without a lock and writes it later, the read and the write are two actions,
and the write asks no guard of the row: the `UPDATE` goes by primary key.
`WriteOutcome` leaves the status alone if the outcome is the status `finish` had
read, since an `UPDATE` holds changed columns only. `CompleteValidation` has no guard on
the status: `mark_validated` tests the object the session loaded *before* those
calls, whose status is `VALIDATING` whatever the row says, so its test never
stops the write. Only the `deleted_at` filter is evaluated by the database.

Abstractions, each deliberate:

* a transaction that locks what it decides on and makes no external call is one
  step; so are `finish` without an error, which writes `SUCCEEDED` whatever the
  row says, and requests, which lock the expense;
* what the rules read is a `content` that fails a rule or does not; a verdict
  depends on nothing else (rules that read budgets and other expenses are not
  told apart), so one content always gets the same verdict;
* authorisation, audit and notification rows, the wording of results, the budget
  test of `approve` (module `BudgetApproval`) and the lock of a final report
  (module `ReportSettlement`) are left out: who sends a
  request is free, and `Approve` may be refused by simply not happening;
* the key-share lock a foreign key takes can only delay a worker or end in a
  deadlock error; the first is time, the second is fault `"error"`;
* the fault `"slow"`, a live worker past `STALE_RUNNING_MINUTES`, is an
  over-approximation: the calls of a run have timeouts that add up to about
  five minutes, and `SKIP LOCKED` passes over a run whose row is locked.

### BudgetApproval

State: `status`, `category`, `amount` of an expense, the number of its
`decisions` and of its `reviews`; `step`, `target`, `already` of each manager's
transaction. Locks are not variables: PostgreSQL holds them until the
transaction ends, so `LocksExpense` and `LocksBudget` follow from `step`.
`LockExpense`, `LockBudget`, `SumApproved` and `Commit` are the four statements
of `approve` (services/expense.py:126, 144, 152, 153-190); `Rollback` is any
other way out. `Reject`, `Edit`, `Submit` and `Validate` lock one row, test it
and write it, so each is one step gated on that row's lock. A category stands
for a (project, category) pair; budgets are constant since no operation changes
one (routes/projects.py:79-103 does not touch them). A category need not have a
budget row. A draft that is deleted can be neither submitted nor approved and is
in no sum (both ask for `deleted_at`), whatever a late worker writes into its
status, so deletion adds nothing here. With `LateWorkers` the worker's `Validate`
and `Revalidate` (the start of a pipeline, pipeline.py:51-52) overwrite any status,
the behaviour described under *Disagreements*: the budget has to hold even then,
and does. `reviews` does not count one that `Revalidate` took back undecided.

`ApprovedSum` counts won by won (the cardinality of a set) instead of summing
recursively, because the provers can reason about that.

### ReportSettlement

State: `approved`, `spent`, `reportId` are what reports see of an expense;
`report`, `period`, `month`, `cumulative` are columns of a report and the two
sums of its `summary_json`; `task`, `target`, `about`, `read`, `monthRead`,
`cumulativeRead` say what each manager's request has read so far.

| Action | Code |
|---|---|
| `RequestReport`, `InsertReport` | `create_report` before and after `build_summary` |
| `LockReport`, `FinalizeReport` | `finalize`: the `FOR UPDATE` and its test; the `UPDATE`, and the commit |
| `SumMonth`, `SumCumulative` | the two queries of `build_summary` (services/report.py:76, 77), of either request |
| `Rollback` | a request that is cut off |
| `Edit`, `Approve`, `Reopen` | what other requests and late workers do to an expense meanwhile |

A sum is represented by the set of expenses it counts, all of one project and
category: two sums differ by what one counts and the other does not, whatever
the amounts. (The amount of a counted expense changes only after it has left
`APPROVED`.) Months are pairs of year and month, since both ends of a month's
range are firsts of months. Of the statuses only `APPROVED` matters, so `Edit`
is allowed in every other one, more than the code does. `Reopen` is the late
worker of *Disagreements* followed by a rejection, for the expenses in
`LateExpenses`; an expense that a report locks cannot return to `DRAFT`
(`ensure_editable`), hence not be deleted. `ReportsOf` stands for the query of
`create_report` and for the unique constraint. Left out: the narrative, which
shares nothing with the figures and is `ReportNarrative`, and the plain counts of
the summary.

`ImplementsBooks` maps these rows to `MonthlyBooks`: the book of a month is
`NONE`, `OPEN` or `CLOSED` as the month has no report, a draft or a final one;
its figures and total are the two sums of that report; an expense is settled in
the month of the report it is locked by. `InsertReport` is `Open`,
`FinalizeReport` is `Close`, everything else is a stutter. That the books have
no locks, no constraint and no requests is the point: several managers'
interleaved queries amount to two atomic steps per month.

### ReportNarrative

State: `phase`, `narrative` are columns of the report, `run`, `tries` of its one
generation run; `at`, `copy` say where a worker stands and what `narrative_md`
was in the report it loaded; `editing` holds what a manager's request loaded.
`drafted` and `told` record the past for the properties (`told` is the
notifications sent).

| Action | Code |
|---|---|
| `OpenReport`, `Finalize` | `create_report` with `enqueue_report_generation`; `finalize`, of which only the status matters here |
| `BeginWriting`, `Write` | `update_report`: load and test, then write and commit |
| `LoadReport`, `SkipDraft` | services/report.py:228-230 |
| `ReceiveDraft`, `DoWithoutDraft`, `StoreDraft` | 235, 236-244, 247-265 |
| `ClaimRun`, `FinishRun`, `FailRun`, `ReportFailure`, `Reclaim`, `Die` | queue and worker as in `ExpenseWorkflow` |

`LoadReport` and `StoreDraft` bracket the AI call. `StoreDraft` asks `copy`, not
the row, as the code does. No live worker outlasts the stale limit: the AI call is
cut off after two minutes at most (60 seconds and one retry). A text a manager
writes that equals the loaded one is not written (the session's `UPDATE` holds
only what changed).

### RuleCatalog and RuleEvaluation

`RuleCatalog` translates each rule to an operator from a context to a set of at
most one result. `RuleEvaluation` builds that context in the order of
`run_expense_pipeline`: `SkipExtraction`, `FailExtraction`, `Extract`
(pipeline.py:121-167), `Suggest`, `SuggestNothing` (170-211), `AskVendor` (63-65),
`LookAround` (67-78), `RunRules` (80-118), and `Raise` when an attempt is rolled
back (worker.py:46-51). Around it: `Type` and `Omit`, the owner's mistakes in the
business number; `Upload`, possible until the end since `upload_evidence` tests
the status without a lock; `LoseFile`, for a file that is not there when it is
read; `OthersApproved`, approvals of the same budget. Answers of the AI pass
`Extracted`, which drops numbers without ten digits and unreadable dates as
ai/anthropic_client.py:181-196 does.

### DuplicateClaims

What other expenses look like to `_find_duplicates` (pipeline.py:223): their
`status`, the purchase they claim (vendor, amount and date as one value), and,
per evaluation, whether the query has run, what it found, and whether the results
carry a warning. Each expense has one evaluation at a time and is not edited
meanwhile, which is what `ExpenseWorkflow` shows without worker deaths.

### VendorCache

`office`, `heldUntil`, `today` are the world; `row`, `checkedAt` the row of
`vendor_checks`; `step`, `loaded`, `started`, `fetched` a session in the middle
of `check_vendor_status`, cut at the select, the answer and the write. `Written`
keeps the row's status when the session's own did not change, because the
`UPDATE` contains changed columns only. `Collide` is the unique key of an insert.
A transaction takes minutes, so at most one midnight falls into it.

### HolidayCalendar

`listed` is the institute's listing, `holidays` the table. A sync asks month by
month (`FetchMonth`, `MissMonth`) and commits once; a date listed twice is added
twice and fails that commit, as does a row another sync has inserted meanwhile.
A lookup is `FindDate` or `MissDate` and `CountYear`. `assured` records what a
sync that missed nothing has seen to.

### EvidenceUpload

Requests write a file chunk by chunk under a path of their own, then insert the
row; `submitted` records whether the expense was submitted after the request had
tested it. `CutOff` is any end in between and leaves what is on the disk.

### CardReconciliation

The file's rows, the expenses, and the matching of lines as it grows. The code
sorts a tier's pairs by difference of dates and line, and skips the pairs that
have lost a side; `Assign` takes the best pair whose sides are both free, which is
the same, and `NextTier` is enabled when there is none left. Ties among expenses
of one line are broken by the order of the query's rows, which no `ORDER BY`
fixes: free here. `Parse` is what the parser does to rows, not to characters.

### Projects

State: `code`, `period` are columns of a project, `budgetLines` the categories
with a row in `budgets`; `doing`, `body`, `subject`, `changes` say what an
administrator's session is about to write.

| Action | Code |
|---|---|
| `CheckCode`, `InsertProject` | `create_project` up to its check of the code, and its inserts with the commit (api/routes/projects.py:38-67) |
| `LoadProject`, `SaveProject` | `update_project` up to its check of the dates, and the `UPDATE` (79-103) |
| `CutOffAdmin` | a request that is rolled back |

Neither check holds a lock. What keeps them true is the database: the unique
constraint on the code, and the check constraint on the period
(models/project.py:23). The latter matters although each request has tested its
dates: the session writes only the columns that differ from what it loaded, so
two requests that move one end of the period each could together turn it round.
An explicit `null` for a date raises and is left out, as are name, agency and
status, which are written without a test.

### Dashboard

Extends `Projects`, whose steps go on meanwhile. State: `owner`, `filed`,
`dated`, `granted` are the columns of an expense that the figures depend on;
`progress`, `scope`, `linesRead`, `usage`, `inCounts`, `trend` what a viewer's
request has read.

| Action | Code |
|---|---|
| `ReadBudgets`, `ReadUsage` | services/dashboard.py:58-66, 68-86; also the two statements of `budget_summaries` (services/budget.py:47-73) |
| `ReadCounts`, `ReadTrend` | services/dashboard.py:88-99, 149-162 |
| `EndRead` | the response, or a request that is cut off |
| `CreateClaim`, `EditClaim`, `GrantClaim`, `ReopenClaim` | what other requests and late workers do to an expense meanwhile |

Each statement sees what is committed when it starts (`READ COMMITTED`). A sum is
the set of expenses it adds up, as in `ReportSettlement`. `GrantClaim` asks for a
budget line, as `approve` does; what the line allows is `BudgetApproval`'s.
`ReopenClaim` is the late worker of *Disagreements*, for `LateClaims`. Deleted
expenses are in no sum.

## 3. Properties and runs

| Run | Instance | Distinct states | Checks |
|---|---|---|---|
| `workflow_errors` | 2 expenses, 3 runs, 2 workers, 3 attempts; pipeline errors; symmetry | 710,289 | `TypeOK`, `WorkOutstanding`, `ReviewShowsVerdict`, `FailNeedsOverride`, `DeletedStaysDraft`, `DecisionFinal`, `ImplementsLifecycle` |
| `workflow_crashes` | 1 expense, 2 runs, errors, failing commits, 2 crashes, `FairSpec` | 269,088 | `ExclusiveExecution`, `SubmissionReviewed` |
| `workflow_slow` | 1 expense of one content, 2 runs, every fault, 1 crash, `FairSpec` | 476,601 | `AttemptsBounded`, `RunsSettle` |
| `budget_approval` | 2 expenses, 2 managers, budget 2 and one category without budget, 2 reviews each, late workers, `FairSpec` | 27,236 | `TypeOK`, `NeverOverBudget`, `OneDecisionPerReview`, `ApprovalsEnd`, `ImplementsLedger` |
| `report_settlement` | 2 expenses (one late), 2 months, 2 reports, 2 managers; symmetry | 1,720,952 | `TypeOK`, `OneReportPerMonth`, `LockedInMonth`, `CountedAreLocked`, `CumulativeCoversMonth`, `FinalFrozen`, `ImplementsBooks` |
| `validation_inputs` | 2 checks, 2 codes, time to live 2 of 4 days; 3 dates (one on a weekend and listed twice), 2 months, 2 syncs; a valid number with up to two mistakes, 7 replies of the AI, 2 files, 2 budgets; 3 claims of 3 purchases; symmetry | 842,003 | `AnswersRecent`, `CollideOnce`, `VerifiedKept`, `SyncedHolidayFlagged`, `QuietWasRead`, `TypoDetected`, `DoubleClaimNoticed` |
| `settlement_desk` | 2 uploads of up to 3 chunks, limit 2; 3 lines, 2 expenses; 2 workers, 2 managers, 2 texts, 3 attempts, 1 death, fair workers; 2 administrators, 2 codes, 2 days, 2 projects, 2 categories, 2 claims (one late), 1 viewer, 2 months of which 1 is shown | 284,900 | `RowsAndFiles`, `LateEvidenceWasInFlight`, `OneToOne`, `NoBetterPairMissed`, `NarrativeTypeOK`, `ProjectsSound`, `DashboardAddsUp`, `DraftedOnce`, `SomebodyTold`, `FinalTextSettles` |
| `finding_stuck`, `_decision`, `_override`, `_figures`, `_narrative` | the smallest instances that show them | | see *Disagreements* |

The last two passing runs explore several components side by side, one at a time:
a component takes steps only while the others rest in their initial states. They
do not interact in the code except through values that each module leaves free,
so this is the sum of their state spaces and not a composition.

* `WorkOutstanding`: an expense in validation has a run queued or running, or a
  worker about to hand it over.
* `ReviewShowsVerdict`: in review, the results shown are those of the content
  under review, or the notice that validation failed.
* `FailNeedsOverride`: a failing expense is approved only with an override.
* `DecisionFinal`: no step takes a decision back.
* `ImplementsLifecycle`: under the mapping *verdict = results of the newest
  run*, every behaviour of queue and workers is one of `ExpenseLifecycle`.
* `SubmissionReviewed`, `RunsSettle`, `ApprovalsEnd`: submissions get reviewed,
  queued runs settle, approvals get their answer.
* `ExclusiveExecution`: no run is executed by two workers at once.
* `AttemptsBounded`: a run is claimed three times at most, unless live workers
  outlast the stale limit; then a `finish` that read the run before its last claim
  may put it back once more per other worker. The run with two workers reaches the
  fourth claim, so the bound is tight.
* `DeletedStaysDraft`: while exceptions in the pipeline are the only fault, no
  worker moves a deleted expense. (With crashes or failing commits of `finish` two
  workers may execute two runs of one expense, and the late one writes
  `VALIDATING` or `NEEDS_REVIEW` over the deleted row.)
* `NeverOverBudget`, `OneDecisionPerReview`, `ImplementsLedger`: whatever
  managers do at the same time. A review that a late worker takes back to
  validation is not decided; every other one is, exactly once.
* `OneReportPerMonth`: two managers who create at once make one report.
* `FinalFrozen`: figures and locked set of a final report never change.
* `LockedInMonth`: a locked expense stays in the month of its report.
* `CountedAreLocked`: what the figures of a final report count is approved and
  locked by it. The converse fails: see *Disagreements*.
* `ImplementsBooks`: every behaviour of reports is one of `MonthlyBooks`.
* `CumulativeCoversMonth`: the cumulative figure covers the month's, although
  approvals come in between the two sums.
* `AnswersRecent`: unless the tax office was silent, a run is told a status that
  held within the time to live, although checks overlap and days pass.
* `VerifiedKept`: no overlapping check without an answer undoes a verified one.
* `CollideOnce`: losing the race to insert costs one of three attempts.
* `SyncedHolidayFlagged`: once a complete sync is through, its holidays are
  flagged, whatever other syncs miss or fail. Until then a year synced in part
  answers "working day" for the months it missed, and a sync that breaks the
  primary key is lost: the code does so, and no property speaks of it.
* `QuietWasRead`: results without a warning mean that the first evidence was
  there when this attempt looked for it and was read, by an AI that was not unsure;
  that it does not name another vendor; and that the number is valid and its vendor
  active. Evidence attached only after the worker looked for it does not slip
  through, nor a reading that failed or belongs to an attempt that raised. It says
  nothing of what the code lets pass unread: files after the first, fields the AI
  did not return, a suggestion that failed, a day the calendar does not know.
* `TypoDetected`: one wrong or missing digit invalidates a business number.
* `DoubleClaimNoticed`: of two reviewed claims of one purchase, one has a warning.
* `RowsAndFiles`, `LateEvidenceWasInFlight`: what can be on disk and in the table,
  and which request may still add evidence to a submitted expense.
* `OneToOne`, `NoBetterPairMissed`: the matching is one to one and stable (no line
  and expense that fit would both do better with each other), and a status says
  how well a pair fits (`StatusHonest`).
* `DraftedOnce`: no retry stores a draft a second time.
* `SomebodyTold`: every generation ends with a notification, except for a report
  that is final, and for a death on the last attempt, which is silent.
* `FinalTextSettles`: the text of a final report comes to rest.
* `ProjectsSound`: whoever creates and updates at the same time, a code is
  registered once, projects have lines, and their periods are in order.
* `DashboardAddsUp`: what is used and stays approved has its line among those
  read, unless its project is younger than the read (whose sum the code drops until
  the next read); it is counted; and what is counted is in the trend, unless later
  months fill it.

**Bounds.** `MaxRuns` bounds submissions, `MaxCrashes` crashes, `MaxReviews`
the times an expense comes to review, `MaxAmount` an amount. `MaxAttempts` is
the code's own 3. Two runs are what it takes for a requeued run to meet a later
submission of the same expense; the third, in `workflow_errors`, lets two
expenses and a resubmission overlap. Two workers and two managers suffice for
every race of the code, in which two parties meet at one row. A budget of two
won with amounts of one and two lets the budget be met exactly, missed by one,
and exceeded by one or two. The two months of `report_settlement` are December
and the January after it, the only place where the arithmetic of months is not
plain; `MaxReports` gives each its report. In `validation_inputs` a time to live
of two days lets an entry expire while another check is under way; two syncs and
two months let one miss what the other holds; `SentNumbers` keeps the numbers that
are submitted to four (right, wrong, short, none); two files allow one before and
one after the worker has looked; every mistake in up to
two digits is explored for `TypoDetected`; three claims let a chain of edits go
through a third expense. The thresholds of the rules are the code's own: the days
and sums lie on both sides of each. Three lines are what a greedy choice needs to
take the wrong one of two expenses from a third; days 1 to 3 give differences
within and without a tier (`NearDays` is the code's 3 only in name: 2 suffices to
tell the tiers apart). Two administrators with projects of one line each, two
codes, two days and two projects hold every race for a code or a period; for the
dashboard, one of them creates two projects one after the other, the first with
one line or two, while one viewer reads, so that lines, approvals and edits come
in between any two of its statements; two months of which one is shown let a late
approval push a month out of the trend.

**Deadlock** is not checked in these runs: every client may stop sending
requests, and the bounds end every behaviour. That nobody waits for ever is
what the liveness properties say.

**Fairness.** A worker's loop does its next step: weak fairness of claiming and
of the step of a run, whichever outcome that has (every external call has a
timeout). `requeue_stale` runs every fifteenth pass *before* claiming
(worker.py:88), so it is not starved by a full queue: strong fairness, since
between two passes the worker is busy. `NarrativeFairness` is the same for the
one run of a report. In `BudgetApproval` each manager's next
statement is strongly fair: PostgreSQL hands a row lock to its waiters in turn.
No request, fault or rollback is fair.

## 4. Proofs

TLAPS proves, for any sets of expenses, workers and managers and any bounds:

| Theorem | Assumption on faults | Says |
|---|---|---|
| `TypeCorrect`, `AttemptsAlwaysBounded` | none | `[]TypeOK`, `[]AttemptsBounded` (whose bound is the strict one without `"slow"`) |
| `ExecutionExclusive` | no `"slow"` | `[]ExclusiveExecution` |
| `WorkAlwaysOutstanding`, `DeletedAlwaysDraft`, `ReviewAlwaysInformed`, `OverrideAlwaysRecorded`, `DecisionsAreFinal`, `WorkflowImplementsLifecycle` | only `"error"` | the five properties and the refinement of `ExpenseLifecycle` |
| `ClaimsUseAttempts` | none | a run starts from the queue only and its attempt grows by one; no step gives one back |
| `MovesOneByOne` | none | a step moves one expense at most: one that is not deleted along a transition, or any by the late write of a worker, into validation or review |
| `CrashStrandsOne`, `OutstandingUntilCrash` | no `"slow"` | no more expenses are stranded in validation than workers have crashed; before the first crash `WorkOutstanding` |
| `ReportTypeCorrect`, `MonthReportedOnce`, `LockedKeepMonth`, `CountedAlwaysLocked`, `CumulativeAlwaysCovers`, `FinalReportsFrozen` | any `LateExpenses` | the properties of `report_settlement`, for any months |
| `SettlementImplementsBooks` | any `LateExpenses` | the refinement of `MonthlyBooks` |
| `VendorTypeCorrect`, `AnswersRecentAlways`, `CollideOnceAlways`, `VerifiedKeptAlways` | any `Codes`, `CacheTTL` | the properties of the vendor cache |
| `DoubleClaimNoticedAlways`, `SyncedHolidaysFlagged`, `QuietAlwaysRead`, `TypoAlwaysDetected` | | the other safety properties of `validation_inputs` |
| `CardTypeCorrect`, `MatchingOneToOne`, `MatchingStable`, `MatchingHonest` | any statement and expenses | the properties of the matching |
| `RowsHaveFiles`, `LateEvidenceAlwaysInFlight`, `NarrativeTypeCorrect`, `DraftStoredOnce` | | the safety of uploads and of the narrative |
| `BudgetTypeCorrect`, `BudgetNeverExceeded`, `ReviewDecidedOnce`, `ApprovalImplementsLedger` | any `LateWorkers` | the safety of approvals and the refinement of `BudgetLedger` |
| `ApprovalsNeverDeadlock` | any `LateWorkers` | who waits for a row lock waits for one other manager, who can go on or waits for one who can |
| `EndsAlwaysTold` | | a generation that has ended has told somebody, is about to, lost its worker, or its report is final |
| `FinalWritersRunOut` | writers and workers differ | those who may still change the text of a final report only get fewer, by each change |
| `ProjectsAlwaysSound`, `DashboardAlwaysAddsUp` | any `LateClaims` | `[]ProjectsSound`, `[]DashboardAddsUp` |

*Workflow.* None of the properties is inductive. The invariant of
`ExpenseLifecycleProofs` adds what ties the three tables together: a run that
waits or executes belongs to an expense in validation and is its newest run, it
has no results before it completes, a worker in the middle of a run holds a
`RUNNING` run nobody else holds, and the copy of the content it evaluates is
the content in the table, since an expense in validation cannot be edited. The
last part is what crashes destroy: with them a run outlives the submission it
was made for, and its late write may find a decided or deleted row.
`ExecutionExclusive` needs only that a worker's run is `RUNNING` and held once,
which survives crashes.

`AttemptsAlwaysBounded` has two arguments. Without `"slow"` the worker that
finishes a run is the only one that holds it, so what `finish` read is still the
attempt of the row (`AttemptsLeft`: a queued run has an attempt left). With `"slow"`
the invariant counts: a run at its last attempt is put back only by a worker that
read it before, every worker that could do so is busy with that run, and it cannot
be the one that makes the last claim; each such write ends its worker's hold, and
whoever claims the run reads its new attempt. So the attempt of a run beyond the
bound, plus the late writers left, never exceeds the number of other workers
(`ClaimsCounted`).

`CrashStrandsOne` says how much of `WorkOutstanding` crashes destroy. Its
invariant bounds a larger set than the stranded expenses: those in validation
without a run that is queued or in a live worker's hands before its last commit
(`AtRisk`). That set grows only by a crash, by the expense of the one run the
worker held, whatever happens to that run later; every other step that ends a run
leaves its expense out of validation, or the worker about to hand it over. `finding_stuck` shows that one crash
is enough for one. With a slow worker the bound is lost, since a run may then be
given up while its worker lives. `OutstandingUntilCrash` extends
`WorkAlwaysOutstanding` to failing commits of `finish`.

`MovesOneByOne` justifies what the other modules assume of the workflow: the
operations on expenses that `BudgetApproval` (whose late workers are `Validate` and
`Revalidate`), `ReportSettlement` and `Dashboard` (`Reopen`, `ReopenClaim`: out of
`APPROVED`) let happen meanwhile are all there are. That a worker only ever writes
an expense that exists is the invariant `Created`.

*Budget.* `BudgetInv` adds to the two properties that locks exclude each other
and that what a transaction found is still so: its expense is in review, and
the sum it read is the sum now, because a sum grows only by a commit under the
same budget lock. (It may shrink: a late worker takes an expense out of
`APPROVED` without the budget lock; then what was read is an upper bound.)
`ApprovalsNeverDeadlock` follows from the order of the locks, expense before
budget: who holds a budget row waits for nothing any more.

*Reports.* `SettlementInv` adds two parts to the properties. `LocksExclusive`:
one request at a time finalizes a report, which is a draft meanwhile.
`SumsCurrent`: an expense that was in the month when a request summed it is
approved and in the month still, and in the cumulative sum if that has been
read, because an approved expense cannot be edited (late ones excepted).
The `UPDATE` passes over locked expenses, so that `CountedAreLocked` survives it
only because an expense locked already would be locked by another report of the
same month, which `OneReportPerMonth` and the lemmas on months exclude. The
refinement of `MonthlyBooks` rests on the same invariant: with one report per
month the unions in `Figures` and `Total` are those of one row, `LocksExclusive`
makes the `UPDATE` of `FinalizeReport` the only step that closes the month, and
`SumsCurrent` puts what its figures count into the set it settles, which it adds
to nobody else's.

*Vendor cache.* What a session fetched held on the day it started or later, and
the status in the row held until the day before its `checkedAt` at least. The day
is lost when a check whose answer equals what it loaded writes only `checkedAt`
and leaves the status another check has put there; the strict comparison with the
time to live makes up for it. For `VerifiedKept`: a session about to write
`UNVERIFIED` had loaded no verified row, and if one was stored meanwhile its own
`UPDATE` leaves the status out.

*Rules.* `TypoAlwaysDetected` is arithmetic: a digit with weight 1, 3 or 7 changes
the sum modulo ten, the ninth contributes its fivefold and the carry, which no two
digits share modulo ten, and the last is the check digit. `QuietAlwaysRead`
needs that what a stage has put into the context stays until the rules run, and
that the attempt's `ai_runs` say how it came there (`ExtractionLogged`).
`DoubleClaimNoticedAlways` rests on who queries later: it sees the other's expense,
since one in validation or review is neither rejected nor deleted, nor edited.
`SyncedHolidaysFlagged` carries that a sync that missed nothing holds, in the table
or among the rows it will add, every date of the months behind it that was listed
when it began.

*Matching.* The invariant of `MatchingStable`: in every finished tier each fitting
pair is served, and what was assigned keeps being at least as good, because
assignments are never taken back and `Assign` takes the least pair.

*Narrative.* One worker at a time is between claim and finish; while it holds an
empty copy no draft has been stored. That is false once a live worker may be
taken for dead. `EndsAlwaysTold` adds that a worker about to finish has told
somebody or found the report final, and that a running run without a worker means
a death.

*Projects and dashboard.* `ProjectsSound` is inductive: the constraints are
evaluated on the rows as they are, and the types say what a session carries.
`DashboardInv` adds that an approved expense has its line (lines come with their
project and stay, and an approved expense is not edited), that a read has all lines
of a project or none, and that what it has counted is approved still. That what is
counted is in the trend or older than all of it needs the latest of a finite set of
months, which exists because set inclusion is well-founded on finite sets.

Constants are constrained only by the assumptions named at the head of each
module, which TLC evaluates in the runs.

Only model-checked: the liveness properties `SubmissionReviewed`, `RunsSettle`,
`ApprovalsEnd`, `SomebodyTold` and `FinalTextSettles` (fairness and `ENABLED` are
beyond the prover). What each of them rests on besides fairness is proved:
`SubmissionReviewed` on `OutstandingUntilCrash` (somebody is there to move the
expense on), `RunsSettle` on `ClaimsUseAttempts` and `AttemptsAlwaysBounded` (a
requeued run cannot start for ever), `ApprovalsEnd` on `ApprovalsNeverDeadlock`,
`SomebodyTold` on `EndsAlwaysTold`, `FinalTextSettles` on `FinalWritersRunOut`.
The step from there to the liveness property is TLC's. Induction over data and
recursive operators are out of reach as well; these modules have neither.

## 5. Disagreements between code and documentation

The first three statements of the repository are refuted by what the code does
once a worker process dies at an unlucky moment. While exceptions in the pipeline
are the only fault they hold, which is what the theorems above prove. The last two
need no fault.

* `finding_stuck`: worker.py:8-9 and README.md:399-400 promise that a finally
  failed run still hands its expense to a reviewer. `finish(FAILED)` and the
  handover are two transactions, and `requeue_stale` marks a run `FAILED`
  without looking at its expense.
* `finding_decision`: services/expense.py:233 says a status changed by another
  path is silently left alone. The test reads the session's own stale copy.
* `finding_override`: README.md:211 says a FAIL can only be approved by
  override. A run of an earlier submission, requeued after a crash, validates
  the resubmission under its own id, and `approve` looks at the newest run only.
* `finding_figures`: models/report.py:24 says that finalizing locks the
  expenses a report includes. `finalize` sums first and locks with a later
  statement; an expense approved in between is locked by a report whose figures
  do not include it.
* `finding_narrative`: services/report.py:256 says that a text a manager has begun
  is not overwritten by the draft. The test asks the object loaded before the AI
  call; a text written during the call is overwritten.

Met while modelling, but no statement of the repository is refuted by a run:

* rules/catalog.py:35 leaves an amount that could not be extracted to R-AI-001,
  which looks at the confidence of the whole document only: a document read with
  confidence but without its amount passes without a warning. The same holds for
  its date and number, and of several files only the first is read
  (pipeline.py:121-167). `QuietWasRead` therefore promises no more than it does.
* `finish` decides on an attempt it read without a lock (services/queue.py:83): if
  its worker was taken for dead, the run may have been claimed for the last time
  meanwhile, is put back, and is claimed a fourth time. This needs a live worker
  past the stale limit, which the timeouts of its calls are there to prevent.
* pipeline.py:50-52 and worker.py:58-62 test a status without a lock and write it
  later; after a crash or a failed commit of `finish` the write may land on an
  expense that a manager has decided or its author deleted meanwhile.
* a date that the institute lists as two holidays fails the sync of the whole
  year (external/holidays.py:80-83), so no complete sync of such a year ever
  commits unless the date is in the table already.
* a business number typed without any digit is stored as `''`, not `NULL`
  (schemas/expense.py:31); reconciliation offers such an expense as a candidate
  only to lines without a number.
* `requeue_stale` gives up a run in silence: a report whose worker dies on its
  last attempt gets no draft and nobody is told.

## 6. Not modelled, and what is left

Not modelled, since they keep no state the core depends on or are written by a
single transaction nobody races: authentication (stateless tokens; any request
may come), the audit log, the notifications of expenses, the rest of the dashboard
(top rules, lead times, the metrics of AI and automation), the wiring and field
validation of the HTTP application, seeding and demo scripts, the AI prompts, the
database migrations, and the pages of the web client.

What could still be added: a composition of `ExpenseWorkflow` with `ReportSettlement` (a locked expense that a late worker takes
back to review), and the lock modes of foreign keys, by which two runs of one
expense may block each other.
