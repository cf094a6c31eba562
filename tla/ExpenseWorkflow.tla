-------------------------- MODULE ExpenseWorkflow --------------------------
(***************************************************************************)
(* The expense state machine, the job queue in automation_runs and the     *)
(* background workers that connect them: services/expense.py,              *)
(* services/queue.py, worker.py and pipeline.py.                           *)
(*                                                                         *)
(* One action is one database transaction, if the transaction locks the    *)
(* rows it decides on.  A worker's execution of a run is cut where the     *)
(* code commits or leaves the database (the AI and tax office calls        *)
(* between "VALIDATING is committed" and "results are committed"), and,    *)
(* where a transaction reads a row without a lock and writes it later,     *)
(* between the read and the write; an API call, another worker or a crash  *)
(* may come in there.  The session is created with expire_on_commit=False  *)
(* and no query repopulates a loaded object (db.py), so what a worker read *)
(* when it started is what it still believes when it completes, until a    *)
(* rollback expires it.                                                    *)
(***************************************************************************)
EXTENDS Integers, FiniteSets

CONSTANTS
  Expenses,     \* rows of table expenses
  NoExpense,    \* expense_id of a run row not yet inserted
  Contents,     \* the contents an author may write: some of Content
  Workers,      \* worker processes
  MaxAttempts,  \* queue.MAX_ATTEMPTS
  Faults,       \* which of FaultKinds this environment exhibits
  MaxRuns,      \* bound: rows of table automation_runs
  MaxCrashes    \* bound: worker crashes

(* "error": an exception inside the pipeline.  "finish_error": the commit  *)
(* of queue.finish itself fails.  "crash": a worker process dies.  "slow": *)
(* a live worker holds a run for more than STALE_RUNNING_MINUTES.          *)
FaultKinds == {"error", "finish_error", "crash", "slow"}

(* What an expense holds, as far as the rules tell two contents apart:     *)
(* "failing" makes at least one rule return FAIL, "sound" none.            *)
Content == {"sound", "failing"}

ASSUME WorkflowAssumption ==
  /\ Contents \subseteq Content
  /\ IsFiniteSet(Workers)
  /\ MaxAttempts \in Nat \ {0}
  /\ MaxRuns \in Nat
  /\ MaxCrashes \in Nat
  /\ Faults \subseteq FaultKinds
  /\ NoExpense \notin Expenses

Status == {"ABSENT", "DRAFT", "SUBMITTED", "VALIDATING", "NEEDS_REVIEW",
           "APPROVED", "REJECTED"}
InFlight == {"SUBMITTED", "VALIDATING"}
EditableStatuses == {"DRAFT", "REJECTED"}

(* What the result rows of a run say: no FAIL row, a FAIL row, or the      *)
(* R-SYS-001 warning that the pipeline itself failed.                      *)
Verdict == {"PASS", "FAIL", "SYS"}

Decision == {"none", "approve", "override", "reject"}

Runs == 1 .. MaxRuns
RunStatus == {"ABSENT", "QUEUED", "RUNNING", "SUCCEEDED", "FAILED"}

(* Where a worker stands: "idle" in main_loop; "claimed" after claim_next; *)
(* "starting" when it has read SUBMITTED; "evaluating" after the commit of *)
(* VALIDATING; "finishing" when the pipeline has returned; "failing" when  *)
(* an exception was rolled back and finish has read the run; "failed"      *)
(* after finish(FAILED); "handing" when _handle_permanent_failure has read *)
(* an expense in validation.                                               *)
WorkerPc == {"idle", "claimed", "starting", "evaluating", "finishing",
             "failing", "failed", "handing"}

(* What finish reads of a run, and nothing when it has not read one.       *)
RunRow == [status : RunStatus, attempt : Nat]
NoRow == [status |-> "ABSENT", attempt |-> 0]

VARIABLES
  status,      \* expenses.status
  content,     \* the fields the rules read
  deleted,     \* expenses with deleted_at set
  decision,    \* the newest row of approvals
  runStatus,   \* automation_runs.status
  runExpense,  \* automation_runs.expense_id
  attempt,     \* automation_runs.attempt
  results,     \* validation_results of a run
  pc,          \* where each worker stands
  job,         \* the run a worker executes, 0 for none
  seen,        \* the content in the worker's copy of the expense
  found,       \* the run as finish read it after an exception
  crashes      \* worker crashes so far

expenseVars == <<status, content, deleted, decision>>
runVars     == <<runStatus, runExpense, attempt, results>>
workerVars  == <<pc, job, seen, found>>
vars        == <<expenseVars, runVars, workerVars, crashes>>

TypeOK ==
  /\ status \in [Expenses -> Status]
  /\ content \in [Expenses -> Content]
  /\ deleted \in SUBSET Expenses
  /\ decision \in [Expenses -> Decision]
  /\ runStatus \in [Runs -> RunStatus]
  /\ runExpense \in [Runs -> Expenses \union {NoExpense}]
  /\ \A r \in Runs : runStatus[r] # "ABSENT" => runExpense[r] \in Expenses
  /\ attempt \in [Runs -> Nat]
  /\ results \in [Runs -> SUBSET Verdict]
  /\ pc \in [Workers -> WorkerPc]
  /\ job \in [Workers -> 0 .. MaxRuns]
  /\ \A w \in Workers : pc[w] # "idle" =>
       job[w] \in Runs /\ runStatus[job[w]] # "ABSENT"
  /\ seen \in [Workers -> Content]
  /\ found \in [Workers -> RunRow]
  /\ crashes \in 0 .. MaxCrashes

----------------------------------------------------------------------------
(* Helpers                                                                 *)

(* Rows of automation_runs that exist, and those of one expense.           *)
Rows == {r \in Runs : runStatus[r] # "ABSENT"}
RunsOf(e) == {r \in Rows : runExpense[r] = e}

(* Variation: the run query sorts ascending.                               *)
OldestRun(e) == {r \in RunsOf(e) : \A q \in RunsOf(e) : r <= q}

(* latest_run_id: the run with the highest id (a set of at most one).      *)
LatestRun(e) == {r \in RunsOf(e) : \A q \in RunsOf(e) : q <= r}

(* Variation: the results of every run of the expense.                     *)
AllValidations(e) == UNION {results[r] : r \in RunsOf(e)}

(* latest_validations: the results of the latest run and of no other.      *)
LatestValidations(e) == UNION {results[r] : r \in LatestRun(e)}

(* get_expense_or_404: the row exists and is not soft-deleted.             *)
Exists(e) == status[e] # "ABSENT" /\ e \notin deleted

(* A worker is executing run r.                                            *)
Holds(w, r) == pc[w] # "idle" /\ job[w] = r

(* The FAIL rows the rules write for a content (run_all).                  *)
RuleVerdict(c) == IF c = "failing" THEN "FAIL" ELSE "PASS"

(* Variation: the worker forgets its run but not where it stood in it.     *)
ReleaseRunOnly(w) ==
  /\ job' = [job EXCEPT ![w] = 0]
  /\ seen' = [seen EXCEPT ![w] = "sound"]
  /\ found' = [found EXCEPT ![w] = NoRow]
  /\ UNCHANGED pc

(* main_loop closes the session after every run: nothing a worker loaded   *)
(* outlives it.                                                            *)
Release(w) ==
  /\ pc' = [pc EXCEPT ![w] = "idle"]
  /\ job' = [job EXCEPT ![w] = 0]
  /\ seen' = [seen EXCEPT ![w] = "sound"]
  /\ found' = [found EXCEPT ![w] = NoRow]

----------------------------------------------------------------------------
(* API requests.  A request that raises an AppError changes nothing and is *)
(* a stuttering step; authorisation picks who may send one.                *)

Create(e, c) ==
  /\ status[e] = "ABSENT"
  /\ status' = [status EXCEPT ![e] = "DRAFT"]
  /\ content' = [content EXCEPT ![e] = c]
  /\ UNCHANGED <<deleted, decision, runVars, workerVars, crashes>>

(* Variation: update_expense without ensure_editable.                      *)
EditAnytime(e, c) ==
  /\ Exists(e)
  /\ content' = [content EXCEPT ![e] = c]
  /\ status' = [status EXCEPT ![e] = "DRAFT"]
  /\ UNCHANGED <<deleted, decision, runVars, workerVars, crashes>>

(* update_expense: editing a rejected expense brings it back to DRAFT.     *)
Edit(e, c) ==
  /\ Exists(e)
  /\ status[e] \in EditableStatuses
  /\ content' = [content EXCEPT ![e] = c]
  /\ status' = [status EXCEPT ![e] = "DRAFT"]
  /\ UNCHANGED <<deleted, decision, runVars, workerVars, crashes>>

Delete(e) ==
  /\ Exists(e)
  /\ status[e] = "DRAFT"
  /\ deleted' = deleted \union {e}
  /\ UNCHANGED <<status, content, decision, runVars, workerVars, crashes>>

(* submit and enqueue_expense_pipeline commit together.  The run's id is   *)
(* the next one; a second submit while in flight is the idempotent no-op.  *)
Submit(e) ==
  /\ Exists(e)
  /\ status[e] = "DRAFT"
  /\ \E r \in Runs :
       /\ runStatus[r] = "ABSENT"
       /\ \A q \in Runs : q < r => runStatus[q] # "ABSENT"
       /\ runStatus' = [runStatus EXCEPT ![r] = "QUEUED"]
       /\ runExpense' = [runExpense EXCEPT ![r] = e]
  /\ status' = [status EXCEPT ![e] = "SUBMITTED"]
  /\ UNCHANGED <<content, deleted, decision, attempt, results, workerVars,
                 crashes>>

(* Variation: approve does not ask for an override.                        *)
ApproveUnasked(e, override) ==
  /\ Exists(e)
  /\ status[e] = "NEEDS_REVIEW"
  /\ status' = [status EXCEPT ![e] = "APPROVED"]
  /\ decision' = [decision EXCEPT ![e] = IF override THEN "override" ELSE "approve"]
  /\ UNCHANGED <<content, deleted, runVars, workerVars, crashes>>

(* approve, when the budget check (module BudgetApproval) lets it through. *)
(* The override is recorded only if there was a FAIL to override.          *)
Approve(e, override) ==
  LET fails == "FAIL" \in LatestValidations(e)
  IN  /\ Exists(e)
      /\ status[e] = "NEEDS_REVIEW"
      /\ fails => override
      /\ status' = [status EXCEPT ![e] = "APPROVED"]
      /\ decision' = [decision EXCEPT ![e] =
                        IF fails THEN "override" ELSE "approve"]
      /\ UNCHANGED <<content, deleted, runVars, workerVars, crashes>>

Reject(e) ==
  /\ Exists(e)
  /\ status[e] = "NEEDS_REVIEW"
  /\ status' = [status EXCEPT ![e] = "REJECTED"]
  /\ decision' = [decision EXCEPT ![e] = "reject"]
  /\ UNCHANGED <<content, deleted, runVars, workerVars, crashes>>

----------------------------------------------------------------------------
(* Worker steps                                                            *)

(* Variation: claim_next does not commit RUNNING before the run executes.  *)
ClaimUncommitted(w) ==
  /\ pc[w] = "idle"
  /\ \E r \in Runs :
       /\ runStatus[r] = "QUEUED"
       /\ attempt[r] < MaxAttempts
       /\ attempt' = [attempt EXCEPT ![r] = @ + 1]
       /\ job' = [job EXCEPT ![w] = r]
  /\ pc' = [pc EXCEPT ![w] = "claimed"]
  /\ UNCHANGED <<expenseVars, runStatus, runExpense, results, seen, found,
                 crashes>>

(* claim_next: the oldest QUEUED run, committed RUNNING at once.           *)
Claim(w) ==
  /\ pc[w] = "idle"
  /\ \E r \in Runs :
       /\ runStatus[r] = "QUEUED"
       /\ \A q \in Runs : runStatus[q] = "QUEUED" => r <= q
       /\ runStatus' = [runStatus EXCEPT ![r] = "RUNNING"]
       /\ attempt' = [attempt EXCEPT ![r] = @ + 1]
       /\ job' = [job EXCEPT ![w] = r]
  /\ pc' = [pc EXCEPT ![w] = "claimed"]
  /\ UNCHANGED <<expenseVars, runExpense, results, seen, found, crashes>>

(* run_expense_pipeline reads the expense, without a lock, and keeps the   *)
(* object it loaded: SUBMITTED is still to be written VALIDATING, an       *)
(* expense already VALIDATING (a retry) is evaluated as it is.             *)
StartPipeline(w) ==
  LET e == runExpense[job[w]]
  IN  /\ pc[w] = "claimed"
      /\ Exists(e)
      /\ status[e] \in InFlight
      /\ seen' = [seen EXCEPT ![w] = content[e]]
      /\ pc' = [pc EXCEPT ![w] =
                   IF status[e] = "SUBMITTED" THEN "starting" ELSE "evaluating"]
      /\ UNCHANGED <<expenseVars, runVars, job, found, crashes>>

(* The early returns: the expense is gone or in another state.             *)
SkipPipeline(w) ==
  LET e == runExpense[job[w]]
  IN  /\ pc[w] = "claimed"
      /\ ~Exists(e) \/ status[e] \notin InFlight
      /\ pc' = [pc EXCEPT ![w] = "finishing"]
      /\ UNCHANGED <<expenseVars, runVars, job, seen, found, crashes>>

(* The first commit: an UPDATE by primary key of whatever the row says by  *)
(* now.                                                                    *)
BeginValidation(w) ==
  /\ pc[w] = "starting"
  /\ status' = [status EXCEPT ![runExpense[job[w]]] = "VALIDATING"]
  /\ pc' = [pc EXCEPT ![w] = "evaluating"]
  /\ UNCHANGED <<content, deleted, decision, runVars, job, seen, found, crashes>>

(* The end of the pipeline: results, mark_validated and commit.  The test  *)
(* status != VALIDATING in mark_validated reads the worker's own copy, in  *)
(* which the status is VALIDATING, so it never stops the write; only a     *)
(* soft-deleted row does (PipelineError).  The worker's use of its copy    *)
(* ends with the pipeline.                                                 *)
CompleteValidation(w) ==
  LET r == job[w]
      e == runExpense[r]
  IN  /\ pc[w] = "evaluating"
      /\ Exists(e)
      /\ results' = [results EXCEPT ![r] = @ \union {RuleVerdict(seen[w])}]
      /\ status' = [status EXCEPT ![e] = "NEEDS_REVIEW"]
      /\ pc' = [pc EXCEPT ![w] = "finishing"]
      /\ seen' = [seen EXCEPT ![w] = "sound"]
      /\ UNCHANGED <<content, deleted, decision, runStatus, runExpense,
                     attempt, job, found, crashes>>

(* queue.finish without an error writes SUCCEEDED whatever the row says.   *)
FinishSuccess(w) ==
  /\ pc[w] = "finishing"
  /\ runStatus' = [runStatus EXCEPT ![job[w]] = "SUCCEEDED"]
  /\ Release(w)
  /\ UNCHANGED <<expenseVars, runExpense, attempt, results, crashes>>

(* An exception: the rollback expires what the worker had loaded, and      *)
(* finish, called with the error, reads the run afresh, without a lock.    *)
Raise(w) ==
  /\ found' = [found EXCEPT ![w] = [status  |-> runStatus[job[w]],
                                    attempt |-> attempt[job[w]]]]
  /\ pc' = [pc EXCEPT ![w] = "failing"]
  /\ seen' = [seen EXCEPT ![w] = "sound"]
  /\ UNCHANGED <<expenseVars, runVars, job, crashes>>

(* Inside the pipeline, or because mark_validated found the row deleted.   *)
PipelineError(w) ==
  /\ \/ "error" \in Faults /\ pc[w] \in {"claimed", "starting", "evaluating"}
     \/ pc[w] = "evaluating" /\ ~Exists(runExpense[job[w]])
  /\ Raise(w)

(* finish is inside the try block: when its commit fails, the exception    *)
(* handler finishes the run once more, as an error.                        *)
FinishCommitError(w) ==
  /\ "finish_error" \in Faults
  /\ pc[w] = "finishing"
  /\ Raise(w)

(* What finish makes of the run it read: another try while attempts last.  *)
Outcome(row) == IF row.attempt >= MaxAttempts THEN "FAILED" ELSE "QUEUED"

(* The UPDATE at the commit of finish holds the columns that changed with  *)
(* respect to the row as it was read.                                      *)
WriteOutcome(w) ==
  LET outcome == Outcome(found[w])
  IN  runStatus' = IF outcome = found[w].status THEN runStatus
                   ELSE [runStatus EXCEPT ![job[w]] = outcome]

(* Variation: a permanent failure is not handed to a reviewer.             *)
FinishErrorSilently(w) ==
  /\ pc[w] = "failing"
  /\ WriteOutcome(w)
  /\ Release(w)
  /\ UNCHANGED <<expenseVars, runExpense, attempt, results, crashes>>

(* The end of finish with an error.  Whether the failure is permanent is   *)
(* read from the worker's own copy.                                        *)
FinishError(w) ==
  /\ pc[w] = "failing"
  /\ WriteOutcome(w)
  /\ IF Outcome(found[w]) = "FAILED"
     THEN /\ pc' = [pc EXCEPT ![w] = "failed"]
          /\ found' = [found EXCEPT ![w] = NoRow]
          /\ UNCHANGED <<job, seen>>
     ELSE Release(w)
  /\ UNCHANGED <<expenseVars, runExpense, attempt, results, crashes>>

(* Variation: only an expense in VALIDATING is handed to a reviewer.       *)
PermanentFailureLate(w) ==
  /\ pc[w] = "failed"
  /\ IF status[runExpense[job[w]]] = "VALIDATING"
     THEN pc' = [pc EXCEPT ![w] = "handing"] /\ UNCHANGED <<job, seen, found>>
     ELSE Release(w)
  /\ UNCHANGED <<expenseVars, runVars, crashes>>

(* _handle_permanent_failure, a transaction of its own, reads the expense  *)
(* afresh, without a lock, deleted or not.                                 *)
PermanentFailure(w) ==
  /\ pc[w] = "failed"
  /\ IF status[runExpense[job[w]]] \in InFlight
     THEN pc' = [pc EXCEPT ![w] = "handing"] /\ UNCHANGED <<job, seen, found>>
     ELSE Release(w)
  /\ UNCHANGED <<expenseVars, runVars, crashes>>

(* Its commit: review without a verdict, whatever the row says by now.     *)
HandOver(w) ==
  LET r == job[w]
  IN  /\ pc[w] = "handing"
      /\ status' = [status EXCEPT ![runExpense[r]] = "NEEDS_REVIEW"]
      /\ results' = [results EXCEPT ![r] = @ \union {"SYS"}]
      /\ Release(w)
      /\ UNCHANGED <<content, deleted, decision, runStatus, runExpense,
                     attempt, crashes>>

(* requeue_stale, called by an idle worker: every run RUNNING for too long *)
(* in one transaction.  A run whose worker is alive is only stale when     *)
(* workers may be slow.  Runs out of attempts become FAILED here and the   *)
(* expense is left as it is.                                               *)
StaleRuns ==
  {r \in Runs : /\ runStatus[r] = "RUNNING"
                /\ "slow" \in Faults \/ \A w \in Workers : ~Holds(w, r)}

(* Variation: requeue_stale does not look at the attempts.                 *)
RequeueUncounted(w) ==
  /\ pc[w] = "idle"
  /\ \E S \in (SUBSET StaleRuns) \ {{}} :
       runStatus' = [r \in Runs |-> IF r \in S THEN "QUEUED" ELSE runStatus[r]]
  /\ UNCHANGED <<expenseVars, runExpense, attempt, results, workerVars,
                 crashes>>

(* Variation: requeue_stale collects only runs with an attempt left.       *)
RequeueRetriable(w) ==
  /\ pc[w] = "idle"
  /\ \E r \in StaleRuns :
       /\ attempt[r] < MaxAttempts
       /\ runStatus' = [runStatus EXCEPT ![r] = "QUEUED"]
  /\ UNCHANGED <<expenseVars, runExpense, attempt, results, workerVars,
                 crashes>>

RequeueStale(w) ==
  /\ pc[w] = "idle"
  /\ \E S \in (SUBSET StaleRuns) \ {{}} :
       runStatus' = [r \in Runs |->
                       IF r \notin S THEN runStatus[r]
                       ELSE IF attempt[r] >= MaxAttempts THEN "FAILED"
                       ELSE "QUEUED"]
  /\ UNCHANGED <<expenseVars, runExpense, attempt, results, workerVars,
                 crashes>>

(* A worker process dies and another takes its place; its open transaction *)
(* is rolled back, what it committed stays.                                *)
Crash(w) ==
  /\ "crash" \in Faults
  /\ pc[w] # "idle"
  /\ crashes < MaxCrashes
  /\ crashes' = crashes + 1
  /\ Release(w)
  /\ UNCHANGED <<expenseVars, runVars>>

----------------------------------------------------------------------------
Init ==
  /\ status = [e \in Expenses |-> "ABSENT"]
  /\ content = [e \in Expenses |-> "sound"]
  /\ deleted = {}
  /\ decision = [e \in Expenses |-> "none"]
  /\ runStatus = [r \in Runs |-> "ABSENT"]
  /\ runExpense = [r \in Runs |-> NoExpense]
  /\ attempt = [r \in Runs |-> 0]
  /\ results = [r \in Runs |-> {}]
  /\ pc = [w \in Workers |-> "idle"]
  /\ job = [w \in Workers |-> 0]
  /\ seen = [w \in Workers |-> "sound"]
  /\ found = [w \in Workers |-> NoRow]
  /\ crashes = 0

Request ==
  \E e \in Expenses :
    \/ \E c \in Contents : Create(e, c) \/ Edit(e, c)
    \/ Delete(e)
    \/ Submit(e)
    \/ \E override \in BOOLEAN : Approve(e, override)
    \/ Reject(e)

(* One pass of a worker over a run, without the crash.                     *)
Execute(w) ==
  \/ StartPipeline(w)
  \/ SkipPipeline(w)
  \/ BeginValidation(w)
  \/ CompleteValidation(w)
  \/ FinishSuccess(w)
  \/ PipelineError(w)
  \/ FinishCommitError(w)
  \/ FinishError(w)
  \/ PermanentFailure(w)
  \/ HandOver(w)

WorkerStep ==
  \E w \in Workers : Claim(w) \/ Execute(w) \/ RequeueStale(w) \/ Crash(w)

Next == Request \/ WorkerStep

Spec == Init /\ [][Next]_vars

(* A worker process that runs takes its next step: the loop claims when    *)
(* there is work, a started run ends one way or the other (every external  *)
(* call has a timeout), stale runs are collected every 15th loop.  Nobody  *)
(* is obliged to send a request, and no fault is obliged to happen: fair   *)
(* is the step a worker takes next, not which of its outcomes.             *)
Fairness ==
  \A w \in Workers :
    /\ WF_vars(Execute(w))
    /\ WF_vars(Claim(w))
    /\ SF_vars(RequeueStale(w))

FairSpec == Spec /\ Fairness

----------------------------------------------------------------------------
(* Properties that hold under every fault                                  *)

(* MAX_ATTEMPTS: no run is claimed more than MaxAttempts times, whichever  *)
(* of finish and requeue_stale put it back.  The one exception is a live   *)
(* worker whose run was reclaimed: its finish may have read the run before *)
(* the last claim and put it back after it, so each other worker may add   *)
(* one claim, and no more.                                                 *)
LateFinishes == IF "slow" \in Faults THEN Cardinality(Workers) - 1 ELSE 0

AttemptsBounded == \A r \in Runs : attempt[r] <= MaxAttempts + LateFinishes

(* Every queued run is settled in the end, through errors, crashes and     *)
(* reclaims: it does not circulate and is not forgotten in RUNNING.        *)
RunsSettle ==
  \A r \in Runs :
    runStatus[r] = "QUEUED" ~> runStatus[r] \in {"SUCCEEDED", "FAILED"}

----------------------------------------------------------------------------
(* Properties that hold while a worker keeps its run for less than         *)
(* STALE_RUNNING_MINUTES ("slow" not in Faults)                            *)

(* claim_next and requeue_stale: no run is executed by two workers at the  *)
(* same time.                                                              *)
Executing(w) ==
  pc[w] \in {"claimed", "starting", "evaluating", "finishing", "failing"}

ExclusiveExecution ==
  \A v, w \in Workers :
    Executing(v) /\ Executing(w) /\ job[v] = job[w] => v = w

----------------------------------------------------------------------------
(* Properties that hold while no worker dies and finish commits: the only  *)
(* fault is an exception inside the pipeline                               *)

(* The author's deletion is the end: no worker that is still busy with an  *)
(* earlier submission moves a soft-deleted expense.                        *)
DeletedStaysDraft == \A e \in deleted : status[e] = "DRAFT"

(* An expense in validation always has somebody who will move it on: a run *)
(* in the queue, a run in execution or a worker about to hand the expense  *)
(* to a reviewer after the last failed attempt.                            *)
HandsOver(w, r) == pc[w] \in {"failed", "handing"} /\ job[w] = r

WorkOutstanding ==
  \A e \in Expenses : Exists(e) /\ status[e] \in InFlight =>
    \E r \in RunsOf(e) :
      \/ runStatus[r] \in {"QUEUED", "RUNNING"}
      \/ \E w \in Workers : HandsOver(w, r)

(* A reviewer decides on the verdict of the content under review: results  *)
(* of an earlier submission are history, and the newest run has its own.   *)
ReviewShowsVerdict ==
  \A e \in Expenses : status[e] = "NEEDS_REVIEW" =>
    \/ LatestValidations(e) = {RuleVerdict(content[e])}
    \/ LatestValidations(e) = {"SYS"}

(* An expense that breaks a FAIL rule is approved only with a recorded     *)
(* override (or on manual review after the pipeline failed for good).      *)
FailNeedsOverride ==
  \A e \in Expenses :
    status[e] = "APPROVED" /\ content[e] = "failing" =>
      \/ decision[e] = "override"
      \/ "SYS" \in LatestValidations(e)

(* A decision is final: no step takes an approved expense out of APPROVED, *)
(* and a rejected one is moved only by its author's edit.                  *)
DecisionFinal ==
  [][\A e \in Expenses :
       /\ status[e] = "APPROVED" => status'[e] = "APPROVED"
       /\ status[e] = "REJECTED" => status'[e] \in EditableStatuses]_status

(* Every submission reaches a reviewer, if only to say that validation     *)
(* failed, unless a worker dies.                                           *)
SubmissionReviewed ==
  \A e \in Expenses :
    status[e] = "SUBMITTED" ~> status[e] = "NEEDS_REVIEW" \/ crashes > 0

(* The workflow of queue and workers implements the expense life cycle in  *)
(* which validation is a single step that judges the submitted content.    *)
Lifecycle == INSTANCE ExpenseLifecycle WITH
  status  <- [e \in Expenses |-> IF e \in deleted THEN "DELETED" ELSE status[e]],
  verdict <- [e \in Expenses |-> LatestValidations(e)]

ImplementsLifecycle == Lifecycle!Spec
=============================================================================
