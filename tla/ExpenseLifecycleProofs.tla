----------------------- MODULE ExpenseLifecycleProofs -----------------------
(***************************************************************************)
(* While the only fault is an exception inside the pipeline, queue and     *)
(* workers implement ExpenseLifecycle, for every set of expenses and       *)
(* workers and every number of attempts.                                   *)
(***************************************************************************)
EXTENDS ExpenseWorkflowProofs

(* No run is left RUNNING without a worker, so nothing is ever stale.      *)
NoOrphan ==
  \A r \in Runs : runStatus[r] = "RUNNING" =>
    \E w \in Workers : Executing(w) /\ job[w] = r

(* A pending run is the newest of its expense, which waits for it and has  *)
(* no results yet.                                                         *)
PendingIsLatest ==
  \A r \in Runs : Pending(r) =>
    /\ LatestRun(runExpense[r]) = {r}
    /\ status[runExpense[r]] \in InFlight
    /\ results[r] = {}

InFlightIsPending ==
  \A e \in Expenses : status[e] \in InFlight => \E r \in RunsOf(e) : Pending(r)

(* What a worker with a copy of its expense remembers is still so.         *)
Copying == {"starting", "evaluating"}

StatusAt(p) == IF p = "starting" THEN "SUBMITTED" ELSE "VALIDATING"

CopyIsCurrent ==
  \A w \in Workers : pc[w] \in Copying =>
    /\ status[runExpense[job[w]]] = StatusAt(pc[w])
    /\ seen[w] = content[runExpense[job[w]]]

PipelineInv ==
  /\ NoOrphan
  /\ PendingIsLatest
  /\ InFlightIsPending
  /\ CopyIsCurrent
  /\ ReviewShowsVerdict
  /\ FailNeedsOverride

Inv == BaseInv /\ Ownership /\ PipelineInv /\ DeletedStaysDraft

----------------------------------------------------------------------------
(* Which run is the latest                                                 *)

(* A set of numbers has one greatest element at most.                      *)
LEMMA GreatestElement ==
  ASSUME NEW S, NEW r \in S, \A q \in S : q \in Nat /\ q <= r
  PROVE  {p \in S : \A q \in S : q <= p} = {r}
<1>1. \A p \in S : r <= p => p = r
  OBVIOUS
<1> QED BY <1>1

LEMMA LatestIsNewest ==
  ASSUME NEW e, NEW r, LatestRun(e) = {r}
  PROVE  LatestValidations(e) = results[r]
BY DEF LatestValidations

(* Steps that insert no run leave the runs of every expense as they are.   *)
LEMMA SameRuns ==
  ASSUME NEW e, runExpense' = runExpense,
         \A r \in Runs : runStatus'[r] = "ABSENT" <=> runStatus[r] = "ABSENT"
  PROVE  RunsOf(e)' = RunsOf(e) /\ LatestRun(e)' = LatestRun(e)
<1>1. RunsOf(e)' = RunsOf(e)
  BY DEF RunsOf, Rows
<1> QED BY <1>1 DEF LatestRun

LEMMA SameValidations ==
  ASSUME NEW e, RunsOf(e)' = RunsOf(e), LatestRun(e)' = LatestRun(e),
         \A r \in RunsOf(e) : results'[r] = results[r]
  PROVE  LatestValidations(e)' = LatestValidations(e)
<1>1. \A r \in LatestRun(e) : results'[r] = results[r]
  BY DEF LatestRun
<1> QED BY <1>1 DEF LatestValidations

(* Different expenses have different runs.                                 *)
LEMMA OwnRuns ==
  ASSUME NEW e, NEW r \in Runs, runExpense[r] # e
  PROVE  r \notin RunsOf(e)
BY DEF RunsOf

(* A pending run is a row.                                                 *)
LEMMA PendingIsRow ==
  ASSUME BaseInv, NEW r \in Runs, Pending(r)
  PROVE  /\ runStatus[r] # "ABSENT"
         /\ runExpense[r] \in Expenses
         /\ r \in RunsOf(runExpense[r])
BY DEF BaseInv, TypeOK, Pending, Owing, RunsOf, Rows

(* The worker's run while it has not committed an outcome.                 *)
LEMMA PendingJob ==
  ASSUME Inv, NEW w \in Workers, pc[w] \in Owing
  PROVE  /\ job[w] \in Runs
         /\ runStatus[job[w]] # "ABSENT"
         /\ Pending(job[w])
         /\ runExpense[job[w]] \in Expenses
         /\ LatestRun(runExpense[job[w]]) = {job[w]}
         /\ status[runExpense[job[w]]] \in InFlight
         /\ results[job[w]] = {}
<1>1. job[w] \in Runs /\ runStatus[job[w]] # "ABSENT"
  BY DEF Inv, BaseInv, TypeOK, Owing
<1>2. Pending(job[w])
  BY DEF Pending
<1> QED BY <1>1, <1>2 DEF Inv, PipelineInv, PendingIsLatest, BaseInv, TypeOK

(* The one pending run of an expense in flight is the only one.            *)
LEMMA OnePending ==
  ASSUME Inv, NEW q \in Runs, NEW r \in Runs, Pending(q), Pending(r),
         runExpense[q] = runExpense[r]
  PROVE  q = r
BY DEF Inv, PipelineInv, PendingIsLatest

----------------------------------------------------------------------------
(* Requests preserve PipelineInv                                           *)

(* A request on an expense that is not in flight, other than a submission. *)
LEMMA QuietRequest ==
  ASSUME Inv, NEW e \in Expenses, NEW s \in {"DRAFT", "APPROVED", "REJECTED"},
         status[e] \notin InFlight,
         status' = [status EXCEPT ![e] = s],
         \A f \in Expenses : f # e =>
            content'[f] = content[f] /\ decision'[f] = decision[f],
         s = "APPROVED" /\ content'[e] = "failing" =>
            decision'[e] = "override" \/ "SYS" \in LatestValidations(e),
         UNCHANGED <<runVars, workerVars>>
  PROVE  PipelineInv'
<1>1. /\ runStatus' = runStatus /\ runExpense' = runExpense /\ results' = results
      /\ pc' = pc /\ job' = job /\ seen' = seen
  BY DEF runVars, workerVars
<1>2. \A f \in Expenses :
        /\ status'[f] \in InFlight <=> status[f] \in InFlight
        /\ f # e => status'[f] = status[f]
        /\ status'[e] = s
  BY DEF InFlight, Inv, BaseInv, TypeOK
<1>3. \A f : /\ RunsOf(f)' = RunsOf(f) /\ LatestRun(f)' = LatestRun(f)
             /\ LatestValidations(f)' = LatestValidations(f)
  BY <1>1, SameRuns, SameValidations
<1>4. \A r : Pending(r)' <=> Pending(r)
  BY <1>1 DEF Pending
<1>5. NoOrphan'
  BY <1>1 DEF NoOrphan, Inv, PipelineInv, Executing
<1>6. PendingIsLatest' /\ InFlightIsPending'
  BY <1>1, <1>2, <1>3, <1>4, PendingIsRow
  DEF PendingIsLatest, InFlightIsPending, Inv, PipelineInv
<1>7. CopyIsCurrent'
  <2> SUFFICES ASSUME NEW w \in Workers, pc[w] \in Copying
               PROVE  /\ status'[runExpense[job[w]]] = StatusAt(pc[w])
                      /\ seen[w] = content'[runExpense[job[w]]]
    BY <1>1 DEF CopyIsCurrent, StatusAt
  <2>1. runExpense[job[w]] \in Expenses /\ status[runExpense[job[w]]] \in InFlight
    BY PendingJob DEF Copying, Owing
  <2> QED BY <1>2, <2>1 DEF Inv, PipelineInv, CopyIsCurrent
<1>8. ReviewShowsVerdict'
  BY <1>2, <1>3 DEF ReviewShowsVerdict, RuleVerdict, Inv, PipelineInv
<1>9. FailNeedsOverride'
  BY <1>2, <1>3 DEF FailNeedsOverride, Inv, PipelineInv
<1> QED BY <1>5, <1>6, <1>7, <1>8, <1>9 DEF PipelineInv

(* The run a submission inserts is the newest of the expense.              *)
LEMMA SubmittedRun ==
  ASSUME Inv, NEW e \in Expenses, Submit(e)
  PROVE  \E r \in Runs :
           /\ runStatus[r] = "ABSENT"
           /\ runStatus' = [runStatus EXCEPT ![r] = "QUEUED"]
           /\ runExpense' = [runExpense EXCEPT ![r] = e]
           /\ results[r] = {}
           /\ RunsOf(e)' = RunsOf(e) \union {r}
           /\ LatestRun(e)' = {r}
           /\ \A f \in Expenses : f # e =>
                 /\ RunsOf(f)' = RunsOf(f)
                 /\ LatestRun(f)' = LatestRun(f)
<1>1. PICK r \in Runs :
        /\ runStatus[r] = "ABSENT"
        /\ \A q \in Runs : q < r => runStatus[q] # "ABSENT"
        /\ runStatus' = [runStatus EXCEPT ![r] = "QUEUED"]
        /\ runExpense' = [runExpense EXCEPT ![r] = e]
  BY DEF Submit
<1>2. results[r] = {} /\ \A q \in Rows : q < r
  BY <1>1 DEF Inv, BaseInv, FreshRows, Rows, Runs
<1>3. Rows' = Rows \union {r}
  BY <1>1 DEF Rows, Inv, BaseInv, TypeOK
<1>4. RunsOf(e)' = RunsOf(e) \union {r}
  BY <1>1, <1>3 DEF RunsOf, Rows, Inv, BaseInv, TypeOK
<1>5. LatestRun(e)' = {r}
  <2>1. \A q \in RunsOf(e)' : q \in Nat /\ q <= r
    BY <1>2, <1>4 DEF RunsOf, Rows, Runs
  <2>2. LatestRun(e)' = {p \in RunsOf(e)' : \A q \in RunsOf(e)' : q <= p}
    BY DEF LatestRun
  <2>3. r \in Nat /\ r \in RunsOf(e)'
    BY <1>4 DEF Runs
  <2> QED BY <2>1, <2>2, <2>3, GreatestElement
<1>6. \A f \in Expenses : f # e => RunsOf(f)' = RunsOf(f)
  BY <1>1, <1>3 DEF RunsOf, Rows, Inv, BaseInv, TypeOK
<1>7. \A f \in Expenses : f # e => LatestRun(f)' = LatestRun(f)
  BY <1>6 DEF LatestRun
<1> QED BY <1>1, <1>2, <1>4, <1>5, <1>6, <1>7

LEMMA PipelineSubmit ==
  ASSUME Inv, NEW e \in Expenses, Submit(e)
  PROVE  PipelineInv'
<1>1. /\ status[e] = "DRAFT"
      /\ status' = [status EXCEPT ![e] = "SUBMITTED"]
      /\ content' = content /\ decision' = decision /\ results' = results
      /\ pc' = pc /\ job' = job /\ seen' = seen
  BY DEF Submit, workerVars
<1>2. PICK r \in Runs :
        /\ runStatus[r] = "ABSENT"
        /\ runStatus' = [runStatus EXCEPT ![r] = "QUEUED"]
        /\ runExpense' = [runExpense EXCEPT ![r] = e]
        /\ results[r] = {}
        /\ RunsOf(e)' = RunsOf(e) \union {r}
        /\ LatestRun(e)' = {r}
        /\ \A f \in Expenses : f # e =>
              /\ RunsOf(f)' = RunsOf(f)
              /\ LatestRun(f)' = LatestRun(f)
  BY SubmittedRun
<1>3. /\ \A q \in Runs : q # r => runStatus'[q] = runStatus[q] /\ runExpense'[q] = runExpense[q]
      /\ runStatus'[r] = "QUEUED" /\ runExpense'[r] = e
      /\ \A f \in Expenses : f # e => status'[f] = status[f]
      /\ status'[e] = "SUBMITTED"
  BY <1>1, <1>2 DEF Inv, BaseInv, TypeOK
<1>4. \A w \in Workers : pc[w] # "idle" => job[w] \in Runs /\ job[w] # r
  BY <1>2 DEF Inv, BaseInv, TypeOK
<1>5. \A q \in Runs : q # r => (Pending(q)' <=> Pending(q))
  BY <1>1, <1>3 DEF Pending
<1>6. \A q \in Runs : q # r /\ Pending(q) => runExpense[q] \in Expenses /\ runExpense[q] # e
  BY <1>1, PendingIsRow DEF Inv, PipelineInv, PendingIsLatest, InFlight
<1>7. \A f \in Expenses : f # e => LatestValidations(f)' = LatestValidations(f)
  BY <1>1, <1>2, SameValidations
<1>8. NoOrphan'
  BY <1>1, <1>3 DEF NoOrphan, Executing, Inv, PipelineInv
<1>9. PendingIsLatest'
  <2> SUFFICES ASSUME NEW q \in Runs, Pending(q)'
               PROVE  /\ LatestRun(runExpense[q])' = {q}
                      /\ status'[runExpense'[q]] \in InFlight
                      /\ results'[q] = {}
    BY DEF PendingIsLatest, InFlight
  <2>1. CASE q = r
    BY <1>1, <1>2, <1>3, <2>1 DEF InFlight
  <2>2. CASE q # r
    <3>1. Pending(q) /\ runExpense[q] \in Expenses /\ runExpense[q] # e
          /\ runExpense'[q] = runExpense[q]
      BY <1>3, <1>5, <1>6, <2>2
    <3>2. LatestRun(runExpense[q]) = {q} /\ status[runExpense[q]] \in InFlight
          /\ results[q] = {}
      BY <3>1 DEF Inv, PipelineInv, PendingIsLatest
    <3>3. LatestRun(runExpense[q])' = LatestRun(runExpense[q])
      BY <1>2, <3>1
    <3> QED BY <1>1, <1>3, <3>1, <3>2, <3>3
  <2> QED BY <2>1, <2>2
<1>10. InFlightIsPending'
  <2> SUFFICES ASSUME NEW f \in Expenses, status'[f] \in InFlight
               PROVE  \E q \in RunsOf(f)' : Pending(q)'
    BY DEF InFlightIsPending, InFlight
  <2>1. CASE f = e
    BY <1>2, <1>3, <2>1 DEF Pending
  <2>2. CASE f # e
    <3>1. PICK q \in RunsOf(f) : Pending(q)
      BY <1>3, <2>2 DEF Inv, PipelineInv, InFlightIsPending
    <3>2. q \in Runs /\ q # r /\ q \in RunsOf(f)'
      BY <1>2, <2>2, <3>1 DEF RunsOf, Rows
    <3> QED BY <1>5, <3>1, <3>2
  <2> QED BY <2>1, <2>2
<1>11. CopyIsCurrent'
  <2> SUFFICES ASSUME NEW w \in Workers, pc[w] \in Copying
               PROVE  /\ status'[runExpense'[job[w]]] = StatusAt(pc[w])
                      /\ seen[w] = content[runExpense'[job[w]]]
    BY <1>1 DEF CopyIsCurrent, StatusAt
  <2>1. job[w] \in Runs /\ job[w] # r /\ Pending(job[w])
    BY <1>4, PendingJob DEF Copying, Owing
  <2>2. runExpense'[job[w]] = runExpense[job[w]] /\ runExpense[job[w]] # e
        /\ runExpense[job[w]] \in Expenses
    BY <1>3, <1>6, <2>1
  <2> QED BY <1>3, <2>2 DEF Inv, PipelineInv, CopyIsCurrent
<1>12. ReviewShowsVerdict' /\ FailNeedsOverride'
  BY <1>1, <1>3, <1>7
  DEF ReviewShowsVerdict, FailNeedsOverride, RuleVerdict, Inv, PipelineInv
<1> QED BY <1>8, <1>9, <1>10, <1>11, <1>12 DEF PipelineInv

LEMMA PipelineRequest == Inv /\ Request => PipelineInv'
<1> SUFFICES ASSUME Inv, NEW e \in Expenses,
                    \/ \E c \in Contents : Create(e, c) \/ Edit(e, c)
                    \/ Delete(e)
                    \/ Submit(e)
                    \/ \E override \in BOOLEAN : Approve(e, override)
                    \/ Reject(e)
             PROVE  PipelineInv'
  BY DEF Request
<1>1. ASSUME NEW c \in Contents, Create(e, c) \/ Edit(e, c)
      PROVE  PipelineInv'
  <2>1. /\ status[e] \notin InFlight
        /\ status' = [status EXCEPT ![e] = "DRAFT"]
        /\ content' = [content EXCEPT ![e] = c]
        /\ decision' = decision
        /\ UNCHANGED <<runVars, workerVars>>
    BY <1>1 DEF Create, Edit, EditableStatuses, InFlight
  <2>2. \A f \in Expenses : f # e => content'[f] = content[f]
    BY <2>1 DEF Inv, BaseInv, TypeOK
  <2> QED BY <2>1, <2>2, QuietRequest
<1>2. CASE Delete(e)
  <2>1. /\ status[e] = "DRAFT" /\ status' = status
        /\ content' = content /\ decision' = decision
        /\ UNCHANGED <<runVars, workerVars>>
    BY <1>2 DEF Delete
  <2>2. status' = [status EXCEPT ![e] = "DRAFT"]
    BY <2>1 DEF Inv, BaseInv, TypeOK
  <2>3. status[e] \notin InFlight
    BY <2>1 DEF InFlight
  <2> QED BY <2>1, <2>2, <2>3, QuietRequest
<1>3. CASE Submit(e)
  BY <1>3, PipelineSubmit
<1>4. ASSUME NEW override \in BOOLEAN, Approve(e, override)
      PROVE  PipelineInv'
  <2>1. /\ status[e] = "NEEDS_REVIEW"
        /\ status' = [status EXCEPT ![e] = "APPROVED"]
        /\ decision' = [decision EXCEPT ![e] =
                          IF "FAIL" \in LatestValidations(e)
                          THEN "override" ELSE "approve"]
        /\ content' = content
        /\ UNCHANGED <<runVars, workerVars>>
    BY <1>4 DEF Approve
  <2>2. content[e] = "failing" =>
          "FAIL" \in LatestValidations(e) \/ "SYS" \in LatestValidations(e)
    BY <2>1 DEF Inv, PipelineInv, ReviewShowsVerdict, RuleVerdict
  <2>3. /\ \A f \in Expenses : f # e => decision'[f] = decision[f]
        /\ decision'[e] = IF "FAIL" \in LatestValidations(e)
                          THEN "override" ELSE "approve"
    BY <2>1 DEF Inv, BaseInv, TypeOK
  <2>4. status[e] \notin InFlight
    BY <2>1 DEF InFlight
  <2> QED BY <2>1, <2>2, <2>3, <2>4, QuietRequest
<1>5. CASE Reject(e)
  <2>1. /\ status[e] = "NEEDS_REVIEW"
        /\ status' = [status EXCEPT ![e] = "REJECTED"]
        /\ decision' = [decision EXCEPT ![e] = "reject"]
        /\ content' = content
        /\ UNCHANGED <<runVars, workerVars>>
    BY <1>5 DEF Reject
  <2>2. \A f \in Expenses : f # e => decision'[f] = decision[f]
    BY <2>1 DEF Inv, BaseInv, TypeOK
  <2>3. status[e] \notin InFlight
    BY <2>1 DEF InFlight
  <2> QED BY <2>1, <2>2, <2>3, QuietRequest
<1> QED BY <1>1, <1>2, <1>3, <1>4, <1>5

----------------------------------------------------------------------------
(* No step moves a deleted expense                                         *)

(* An expense with a pending run is in flight, hence not deleted.          *)
LEMMA PendingNotDeleted ==
  ASSUME Inv, NEW w \in Workers, pc[w] \in Owing
  PROVE  runExpense[job[w]] \notin deleted
<1>1. status[runExpense[job[w]]] \in InFlight
  BY PendingJob
<1> QED BY <1>1 DEF Inv, DeletedStaysDraft, InFlight

LEMMA DeletedStep ==
  ASSUME Inv, [Next]_vars
  PROVE  DeletedStaysDraft'
<1> USE DEF Inv, BaseInv, TypeOK
<1>1. CASE Request
  BY <1>1
  DEF Request, Create, Edit, Delete, Submit, Approve, Reject, Exists,
      DeletedStaysDraft
<1>2. ASSUME NEW w \in Workers,
             BeginValidation(w) \/ CompleteValidation(w) \/ HandOver(w)
      PROVE  DeletedStaysDraft'
  <2>1. runExpense[job[w]] \notin deleted
    BY <1>2, PendingNotDeleted
    DEF BeginValidation, CompleteValidation, HandOver, Owing
  <2>2. /\ deleted' = deleted
        /\ \A e \in Expenses : e # runExpense[job[w]] => status'[e] = status[e]
    BY <1>2 DEF BeginValidation, CompleteValidation, HandOver
  <2> QED BY <2>1, <2>2 DEF DeletedStaysDraft
<1>3. ASSUME UNCHANGED expenseVars
      PROVE  DeletedStaysDraft'
  BY <1>3 DEF expenseVars, DeletedStaysDraft
<1>4. ASSUME NEW w \in Workers,
             \/ Claim(w) \/ RequeueStale(w) \/ Crash(w)
             \/ StartPipeline(w) \/ SkipPipeline(w) \/ FinishSuccess(w)
             \/ PipelineError(w) \/ FinishCommitError(w) \/ FinishError(w)
             \/ PermanentFailure(w)
      PROVE  UNCHANGED expenseVars
  BY <1>4
  DEF Claim, RequeueStale, Crash, StartPipeline, SkipPipeline, FinishSuccess,
      PipelineError, FinishCommitError, Raise, FinishError, PermanentFailure
<1> QED BY <1>1, <1>2, <1>3, <1>4 DEF Next, WorkerStep, Execute, vars

----------------------------------------------------------------------------
(* Worker steps preserve PipelineInv                                       *)

(* The commit of VALIDATING.                                               *)
LEMMA BeginStep ==
  ASSUME Inv, NEW w \in Workers, BeginValidation(w)
  PROVE  PipelineInv'
<1> DEFINE e == runExpense[job[w]]
<1>1. /\ pc[w] = "starting"
      /\ status' = [status EXCEPT ![e] = "VALIDATING"]
      /\ pc' = [pc EXCEPT ![w] = "evaluating"]
      /\ content' = content /\ decision' = decision /\ job' = job /\ seen' = seen
      /\ runStatus' = runStatus /\ runExpense' = runExpense /\ results' = results
  BY DEF BeginValidation, runVars
<1>2. /\ e \in Expenses /\ Pending(job[w]) /\ job[w] \in Runs
      /\ status[e] \in InFlight
  BY <1>1, PendingJob DEF Owing
<1>3. \A f \in Expenses :
        /\ status'[f] \in InFlight <=> status[f] \in InFlight
        /\ f # e => status'[f] = status[f]
        /\ status'[e] = "VALIDATING"
  BY <1>1, <1>2 DEF InFlight, Inv, BaseInv, TypeOK
<1>4. \A f : /\ RunsOf(f)' = RunsOf(f) /\ LatestRun(f)' = LatestRun(f)
             /\ LatestValidations(f)' = LatestValidations(f)
  BY <1>1, SameRuns, SameValidations
<1>5. pc'[w] = "evaluating" /\ \A v \in Workers : v # w => pc'[v] = pc[v]
  BY <1>1 DEF Inv, BaseInv, TypeOK
<1>6. \A r : Pending(r)' <=> Pending(r)
  BY <1>1, <1>5 DEF Pending, Owing
<1>7. NoOrphan'
  BY <1>1, <1>5 DEF NoOrphan, Inv, PipelineInv, Executing
<1>8. PendingIsLatest' /\ InFlightIsPending'
  BY <1>1, <1>3, <1>4, <1>6, PendingIsRow
  DEF PendingIsLatest, InFlightIsPending, Inv, PipelineInv
<1>9. CopyIsCurrent'
  <2> SUFFICES ASSUME NEW v \in Workers, pc'[v] \in Copying
               PROVE  /\ status'[runExpense[job[v]]] = StatusAt(pc'[v])
                      /\ seen[v] = content[runExpense[job[v]]]
    BY <1>1 DEF CopyIsCurrent, StatusAt
  <2>1. CASE v = w
    <3>1. seen[w] = content[e]
      BY <1>1 DEF Inv, PipelineInv, CopyIsCurrent, Copying
    <3> QED BY <1>2, <1>3, <1>5, <2>1, <3>1 DEF StatusAt
  <2>2. CASE v # w
    <3>1. pc[v] \in Copying /\ pc'[v] = pc[v]
      BY <1>5, <2>2
    <3>2. runExpense[job[v]] \in Expenses /\ Pending(job[v]) /\ job[v] \in Runs
      BY <3>1, PendingJob DEF Copying, Owing
    <3>3. job[v] # job[w]
      BY <1>1, <2>2, <3>1 DEF Inv, Ownership, Copying
    <3>4. runExpense[job[v]] # e
      BY <1>2, <3>2, <3>3, OnePending
    <3> QED BY <1>3, <3>1, <3>2, <3>4 DEF Inv, PipelineInv, CopyIsCurrent
  <2> QED BY <2>1, <2>2
<1>10. ReviewShowsVerdict' /\ FailNeedsOverride'
  BY <1>1, <1>3, <1>4
  DEF ReviewShowsVerdict, FailNeedsOverride, RuleVerdict, Inv, PipelineInv
<1> QED BY <1>7, <1>8, <1>9, <1>10 DEF PipelineInv

(* The two ways in which run r of worker w gets its outcome v: the rules'  *)
(* verdict or R-SYS-001.                                                   *)
LEMMA OutcomeStep ==
  ASSUME Inv, NEW w \in Workers, NEW v \in Verdict,
         \/ /\ pc[w] = "evaluating"
            /\ pc' = [pc EXCEPT ![w] = "finishing"]
            /\ job' = job /\ seen' = [seen EXCEPT ![w] = "sound"]
            /\ v = RuleVerdict(seen[w])
         \/ /\ pc[w] = "handing"
            /\ Release(w)
            /\ v = "SYS",
         results' = [results EXCEPT ![job[w]] = @ \union {v}],
         status' = [status EXCEPT ![runExpense[job[w]]] = "NEEDS_REVIEW"],
         UNCHANGED <<content, decision, runStatus, runExpense>>
  PROVE  PipelineInv'
<1>0. PICK r \in Runs, e \in Expenses : r = job[w] /\ e = runExpense[r]
  BY PendingJob DEF Owing
<1>1. /\ Pending(r) /\ results[r] = {}
      /\ LatestRun(e) = {r} /\ status[e] \in InFlight
  BY <1>0, PendingJob DEF Owing
<1>2. /\ status'[e] = "NEEDS_REVIEW"
      /\ \A f \in Expenses : f # e => status'[f] = status[f]
      /\ results'[r] = {v}
      /\ \A q \in Runs : q # r => results'[q] = results[q]
  BY <1>0, <1>1 DEF Inv, BaseInv, TypeOK
<1>3. /\ \A u \in Workers : u # w =>
           pc'[u] = pc[u] /\ job'[u] = job[u] /\ seen'[u] = seen[u]
      /\ pc'[w] \in {"finishing", "idle"}
      /\ pc[w] = "evaluating" => pc'[w] = "finishing" /\ job'[w] = job[w]
  BY DEF Release, Inv, BaseInv, TypeOK
<1>4. \A u \in Workers : u # w /\ pc[u] # "idle" => job[u] # r
  BY <1>0 DEF Inv, Ownership
<1>5. runStatus[r] # "QUEUED"
  BY <1>0 DEF Inv, Ownership, Executing
<1>6. \A q \in Runs : Pending(q)' <=> Pending(q) /\ q # r
  BY <1>0, <1>3, <1>4, <1>5 DEF Pending, Owing
<1>7. \A f : RunsOf(f)' = RunsOf(f) /\ LatestRun(f)' = LatestRun(f)
  BY SameRuns
<1>8. \A f \in Expenses : f # e => LatestValidations(f)' = LatestValidations(f)
  <2> SUFFICES ASSUME NEW f \in Expenses, f # e
               PROVE  LatestValidations(f)' = LatestValidations(f)
    OBVIOUS
  <2>1. \A q \in RunsOf(f) : results'[q] = results[q]
    BY <1>0, <1>2 DEF RunsOf, Rows
  <2> QED BY <1>7, <2>1, SameValidations
<1>9. LatestValidations(e)' = {v}
  <2>1. LatestRun(e)' = {r}
    BY <1>1, <1>7
  <2>2. LatestValidations(e)' = UNION {results'[q] : q \in LatestRun(e)'}
    BY DEF LatestValidations
  <2> QED BY <1>2, <2>1, <2>2
<1>10. NoOrphan'
  <2> SUFFICES ASSUME NEW q \in Runs, runStatus[q] = "RUNNING"
               PROVE  \E u \in Workers : Executing(u)' /\ job'[u] = q
    BY DEF NoOrphan
  <2>1. PICK u \in Workers : Executing(u) /\ job[u] = q
    BY DEF Inv, PipelineInv, NoOrphan
  <2> QED BY <1>3, <2>1 DEF Executing
<1>11. PendingIsLatest'
  <2> SUFFICES ASSUME NEW q \in Runs, Pending(q), q # r
               PROVE  /\ LatestRun(runExpense[q])' = {q}
                      /\ status'[runExpense[q]] \in InFlight
                      /\ results'[q] = {}
    BY <1>6 DEF PendingIsLatest, InFlight
  <2>1. runExpense[q] \in Expenses /\ runExpense[q] # e
    BY <1>0, <1>1, PendingIsRow, OnePending DEF Inv
  <2> QED BY <1>2, <1>7, <2>1 DEF Inv, PipelineInv, PendingIsLatest
<1>12. InFlightIsPending'
  <2> SUFFICES ASSUME NEW f \in Expenses, status'[f] \in InFlight
               PROVE  \E q \in RunsOf(f) : Pending(q)'
    BY <1>7 DEF InFlightIsPending, InFlight
  <2>1. f # e
    BY <1>2 DEF InFlight
  <2>2. PICK q \in RunsOf(f) : Pending(q)
    BY <1>2, <2>1 DEF Inv, PipelineInv, InFlightIsPending
  <2>3. q \in Runs /\ q # r
    BY <1>0, <2>1, <2>2 DEF RunsOf, Rows
  <2> QED BY <1>6, <2>2, <2>3
<1>13. CopyIsCurrent'
  <2> SUFFICES ASSUME NEW u \in Workers, pc'[u] \in Copying
               PROVE  /\ status'[runExpense[job'[u]]] = StatusAt(pc'[u])
                      /\ seen'[u] = content[runExpense[job'[u]]]
    BY DEF CopyIsCurrent, StatusAt
  <2>1. /\ u # w /\ pc[u] \in Copying /\ pc'[u] = pc[u]
        /\ job'[u] = job[u] /\ seen'[u] = seen[u]
    BY <1>3 DEF Copying
  <2>2. job[u] \in Runs /\ Pending(job[u]) /\ job[u] # r
        /\ runExpense[job[u]] \in Expenses
    BY <1>4, <2>1, PendingJob DEF Copying, Owing
  <2>3. runExpense[job[u]] # e
    BY <1>0, <1>1, <2>2, OnePending
  <2> QED BY <1>2, <2>1, <2>2, <2>3 DEF Inv, PipelineInv, CopyIsCurrent
<1>14. ReviewShowsVerdict'
  <2>1. v = RuleVerdict(content[e]) \/ v = "SYS"
    BY <1>0 DEF Inv, PipelineInv, CopyIsCurrent, Copying
  <2>2. \A f \in Expenses : status'[f] = "NEEDS_REVIEW" =>
          \/ LatestValidations(f)' = {RuleVerdict(content[f])}
          \/ LatestValidations(f)' = {"SYS"}
    BY <1>2, <1>8, <1>9, <2>1 DEF ReviewShowsVerdict, Inv, PipelineInv
  <2> QED BY <2>2 DEF ReviewShowsVerdict, RuleVerdict
<1>15. FailNeedsOverride'
  BY <1>2, <1>8 DEF FailNeedsOverride, Inv, PipelineInv
<1> QED BY <1>10, <1>11, <1>12, <1>13, <1>14, <1>15 DEF PipelineInv

(* Steps that change who holds a run but leave expenses and results alone. *)
LEMMA HandoverStep ==
  ASSUME Inv,
         UNCHANGED <<expenseVars, runExpense, results>>,
         \A r \in Runs : runStatus'[r] = "ABSENT" <=> runStatus[r] = "ABSENT",
         \A r \in Runs : Pending(r)' <=> Pending(r),
         NoOrphan',
         \A w \in Workers : pc'[w] \in Copying =>
            \/ pc'[w] = pc[w] /\ job'[w] = job[w] /\ seen'[w] = seen[w]
            \/ /\ status[runExpense[job'[w]]] = StatusAt(pc'[w])
               /\ seen'[w] = content[runExpense[job'[w]]]
  PROVE  PipelineInv'
<1>1. status' = status /\ content' = content /\ decision' = decision
  BY DEF expenseVars
<1>2. \A f : /\ RunsOf(f)' = RunsOf(f) /\ LatestRun(f)' = LatestRun(f)
             /\ LatestValidations(f)' = LatestValidations(f)
  BY SameRuns, SameValidations
<1>3. PendingIsLatest'
  BY <1>1, <1>2 DEF PendingIsLatest, InFlight, Inv, PipelineInv
<1>4. InFlightIsPending'
  <2> SUFFICES ASSUME NEW f \in Expenses, status[f] \in InFlight
               PROVE  \E q \in RunsOf(f)' : Pending(q)'
    BY <1>1 DEF InFlightIsPending, InFlight
  <2>1. PICK q \in RunsOf(f) : Pending(q)
    BY DEF Inv, PipelineInv, InFlightIsPending
  <2>2. q \in Runs
    BY DEF RunsOf, Rows
  <2> QED BY <1>2, <2>1, <2>2
<1>5. CopyIsCurrent'
  BY <1>1 DEF CopyIsCurrent, StatusAt, Inv, PipelineInv
<1>6. ReviewShowsVerdict' /\ FailNeedsOverride'
  BY <1>1, <1>2
  DEF ReviewShowsVerdict, FailNeedsOverride, RuleVerdict, Inv, PipelineInv
<1> QED BY <1>3, <1>4, <1>5, <1>6 DEF PipelineInv

LEMMA ClaimStep ==
  ASSUME Inv, NEW w \in Workers, Claim(w)
  PROVE  PipelineInv'
<1>1. PICK r \in Runs :
        /\ runStatus[r] = "QUEUED"
        /\ runStatus' = [runStatus EXCEPT ![r] = "RUNNING"]
        /\ job' = [job EXCEPT ![w] = r]
  BY DEF Claim
<1>2. /\ pc[w] = "idle" /\ pc' = [pc EXCEPT ![w] = "claimed"] /\ seen' = seen
      /\ UNCHANGED <<expenseVars, runExpense, results>>
  BY DEF Claim
<1>3. /\ pc'[w] = "claimed" /\ job'[w] = r
      /\ \A v \in Workers : v # w => pc'[v] = pc[v] /\ job'[v] = job[v]
      /\ \A q \in Runs : q # r => runStatus'[q] = runStatus[q]
      /\ runStatus'[r] = "RUNNING"
  BY <1>1, <1>2 DEF Inv, BaseInv, TypeOK
<1>4. \A q \in Runs : Pending(q)' <=> Pending(q)
  BY <1>1, <1>2, <1>3 DEF Pending, Owing
<1>5. NoOrphan'
  BY <1>2, <1>3 DEF NoOrphan, Executing, Inv, PipelineInv
<1> QED BY <1>1, <1>2, <1>3, <1>4, <1>5, HandoverStep DEF Copying

(* The pipeline reads the expense: a copy of what is in the row.           *)
LEMMA StartStep ==
  ASSUME Inv, NEW w \in Workers, StartPipeline(w)
  PROVE  PipelineInv'
<1> DEFINE e == runExpense[job[w]]
<1>1. /\ pc[w] = "claimed" /\ status[e] \in InFlight
      /\ seen' = [seen EXCEPT ![w] = content[e]]
      /\ pc' = [pc EXCEPT ![w] =
                   IF status[e] = "SUBMITTED" THEN "starting" ELSE "evaluating"]
      /\ job' = job /\ runStatus' = runStatus
      /\ UNCHANGED <<expenseVars, runExpense, results>>
  BY DEF StartPipeline, runVars
<1>2. /\ \A v \in Workers : v # w => pc'[v] = pc[v] /\ seen'[v] = seen[v]
      /\ pc'[w] \in Copying /\ status[e] = StatusAt(pc'[w])
      /\ seen'[w] = content[e]
  BY <1>1 DEF Copying, StatusAt, InFlight, Inv, BaseInv, TypeOK
<1>3. \A q \in Runs : Pending(q)' <=> Pending(q)
  BY <1>1, <1>2 DEF Pending, Owing, Copying
<1>4. NoOrphan'
  BY <1>1, <1>2 DEF NoOrphan, Executing, Copying, Inv, PipelineInv
<1>5. \A v \in Workers : pc'[v] \in Copying =>
        \/ pc'[v] = pc[v] /\ job'[v] = job[v] /\ seen'[v] = seen[v]
        \/ /\ status[runExpense[job'[v]]] = StatusAt(pc'[v])
           /\ seen'[v] = content[runExpense[job'[v]]]
  BY <1>1, <1>2
<1> QED BY <1>1, <1>3, <1>4, <1>5, HandoverStep

(* A run that failed in the pipeline stays pending, with the worker that   *)
(* is about to finish it, ...                                              *)
LEMMA ErrorStep ==
  ASSUME Inv, NEW w \in Workers, PipelineError(w)
  PROVE  PipelineInv'
<1>1. /\ pc[w] \in {"claimed", "starting", "evaluating"}
      /\ pc' = [pc EXCEPT ![w] = "failing"]
      /\ seen' = [seen EXCEPT ![w] = "sound"]
      /\ job' = job /\ runStatus' = runStatus
      /\ UNCHANGED <<expenseVars, runExpense, results>>
  BY DEF PipelineError, Raise, runVars
<1>2. /\ \A v \in Workers : v # w => pc'[v] = pc[v] /\ seen'[v] = seen[v]
      /\ pc'[w] = "failing"
  BY <1>1 DEF Inv, BaseInv, TypeOK
<1>3. \A q \in Runs : Pending(q)' <=> Pending(q)
  BY <1>1, <1>2 DEF Pending, Owing
<1>4. NoOrphan'
  BY <1>1, <1>2 DEF NoOrphan, Executing, Inv, PipelineInv
<1> QED BY <1>1, <1>2, <1>3, <1>4, HandoverStep DEF Copying

(* ... and then queued again, or with the worker that will hand its        *)
(* expense over.                                                           *)
LEMMA FinishErrorStep ==
  ASSUME Inv, NEW w \in Workers, FinishError(w)
  PROVE  PipelineInv'
<1>1. pc[w] = "failing" /\ found[w].status = "RUNNING"
  BY DEF FinishError, Inv, Ownership
<1>2. PICK r \in Runs : r = job[w] /\ Pending(r) /\ runStatus[r] # "ABSENT"
  BY <1>1, PendingJob DEF Owing
<1>3. \/ /\ runStatus' = [runStatus EXCEPT ![r] = "FAILED"]
         /\ pc' = [pc EXCEPT ![w] = "failed"] /\ job' = job /\ seen' = seen
      \/ runStatus' = [runStatus EXCEPT ![r] = "QUEUED"] /\ Release(w)
  BY <1>1, <1>2 DEF FinishError, WriteOutcome, Outcome
<1>4. /\ \A v \in Workers : v # w =>
           pc'[v] = pc[v] /\ job'[v] = job[v] /\ seen'[v] = seen[v]
      /\ \A q \in Runs : q # r => runStatus'[q] = runStatus[q]
      /\ \/ runStatus'[r] = "FAILED" /\ pc'[w] = "failed" /\ job'[w] = r
         \/ runStatus'[r] = "QUEUED" /\ pc'[w] = "idle" /\ job'[w] = 0
  BY <1>2, <1>3 DEF Release, Inv, BaseInv, TypeOK
<1>5. \A q \in Runs : Pending(q)' <=> Pending(q)
  BY <1>1, <1>2, <1>4 DEF Pending, Owing, Runs
<1>6. NoOrphan'
  BY <1>2, <1>4 DEF NoOrphan, Executing, Inv, PipelineInv
<1>7. UNCHANGED <<expenseVars, runExpense, results>>
  BY DEF FinishError
<1> QED BY <1>1, <1>2, <1>4, <1>5, <1>6, <1>7, HandoverStep DEF Copying

(* The handler finds the expense in validation.                            *)
LEMMA PermanentFailureStep ==
  ASSUME Inv, NEW w \in Workers, PermanentFailure(w)
  PROVE  PipelineInv'
<1>1. pc[w] = "failed" /\ status[runExpense[job[w]]] \in InFlight
  BY PendingJob DEF PermanentFailure, Owing
<1>2. /\ pc' = [pc EXCEPT ![w] = "handing"]
      /\ job' = job /\ seen' = seen /\ runStatus' = runStatus
      /\ UNCHANGED <<expenseVars, runExpense, results>>
  BY <1>1 DEF PermanentFailure, runVars
<1>3. pc'[w] = "handing" /\ \A v \in Workers : v # w => pc'[v] = pc[v]
  BY <1>2 DEF Inv, BaseInv, TypeOK
<1>4. \A q \in Runs : Pending(q)' <=> Pending(q)
  BY <1>1, <1>2, <1>3 DEF Pending, Owing
<1>5. NoOrphan'
  BY <1>1, <1>2, <1>3 DEF NoOrphan, Executing, Inv, PipelineInv
<1> QED BY <1>2, <1>3, <1>4, <1>5, HandoverStep DEF Copying

LEMMA FinishStep ==
  ASSUME Inv, NEW w \in Workers, FinishSuccess(w)
  PROVE  PipelineInv'
<1>1. /\ pc[w] = "finishing" /\ Release(w)
      /\ runStatus' = [runStatus EXCEPT ![job[w]] = "SUCCEEDED"]
      /\ UNCHANGED <<expenseVars, runExpense, results>>
  BY DEF FinishSuccess
<1>2. PICK r \in Runs : r = job[w] /\ runStatus[r] = "RUNNING"
  BY <1>1 DEF Inv, BaseInv, TypeOK, Ownership, Executing
<1>3. /\ \A v \in Workers : v # w =>
           pc'[v] = pc[v] /\ job'[v] = job[v] /\ seen'[v] = seen[v]
      /\ \A q \in Runs : q # r => runStatus'[q] = runStatus[q]
      /\ runStatus'[r] = "SUCCEEDED" /\ pc'[w] = "idle"
  BY <1>1, <1>2 DEF Release, Inv, BaseInv, TypeOK
<1>4. \A q \in Runs : Pending(q)' <=> Pending(q)
  BY <1>1, <1>2, <1>3 DEF Pending, Owing
<1>5. NoOrphan'
  BY <1>2, <1>3 DEF NoOrphan, Executing, Inv, PipelineInv
<1> QED BY <1>1, <1>2, <1>3, <1>4, <1>5, HandoverStep DEF Copying

(* The expense of a pending run is there and waits, so no run is skipped.  *)
LEMMA NothingSkipped ==
  ASSUME Inv, NEW w \in Workers
  PROVE  ~SkipPipeline(w)
<1> SUFFICES ASSUME SkipPipeline(w)
             PROVE  FALSE
  OBVIOUS
<1>1. PICK e \in Expenses : e = runExpense[job[w]] /\ status[e] \in InFlight
  BY PendingJob DEF SkipPipeline, Owing
<1>2. e \notin deleted
  BY <1>1 DEF Inv, DeletedStaysDraft, InFlight
<1> QED BY <1>1, <1>2 DEF SkipPipeline, Exists, InFlight

LEMMA NothingStale ==
  ASSUME Faults \subseteq {"error"}, Inv
  PROVE  StaleRuns = {}
BY DEF StaleRuns, Holds, Inv, PipelineInv, NoOrphan, Executing

LEMMA PipelineStep ==
  ASSUME Faults \subseteq {"error"}, Inv, [Next]_vars
  PROVE  PipelineInv'
<1>1. CASE Request
  BY <1>1, PipelineRequest
<1>2. ASSUME NEW w \in Workers, Claim(w)
      PROVE  PipelineInv'
  BY <1>2, ClaimStep
<1>3. ASSUME NEW w \in Workers, Execute(w)
      PROVE  PipelineInv'
  <2>1. CASE CompleteValidation(w)
    <3>1. RuleVerdict(seen[w]) \in Verdict
      BY DEF RuleVerdict, Verdict
    <3> QED BY <2>1, <3>1, OutcomeStep DEF CompleteValidation
  <2>2. CASE HandOver(w)
    <3>1. "SYS" \in Verdict
      BY DEF Verdict
    <3> QED BY <2>2, <3>1, OutcomeStep DEF HandOver
  <2>3. ~FinishCommitError(w)
    BY DEF FinishCommitError
  <2> QED BY <1>3, <2>1, <2>2, <2>3, StartStep, BeginStep, NothingSkipped,
             FinishStep, ErrorStep, FinishErrorStep, PermanentFailureStep
          DEF Execute
<1>4. ASSUME NEW w \in Workers
      PROVE  ~RequeueStale(w) /\ ~Crash(w)
  BY NothingStale DEF RequeueStale, Crash
<1>5. CASE UNCHANGED vars
  <2>1. \A r : Pending(r)' <=> Pending(r)
    BY <1>5 DEF Pending, vars, runVars, workerVars
  <2>2. NoOrphan'
    BY <1>5 DEF NoOrphan, Executing, vars, runVars, workerVars, Inv, PipelineInv
  <2> QED BY <1>5, <2>1, <2>2, HandoverStep
          DEF vars, expenseVars, runVars, workerVars
<1> QED BY <1>1, <1>2, <1>3, <1>4, <1>5 DEF Next, WorkerStep

LEMMA PipelineInit == Init => PipelineInv
<1> SUFFICES ASSUME Init
             PROVE  PipelineInv
  OBVIOUS
<1>1. \A r \in Runs : ~Pending(r)
  BY DEF Init, Pending, Owing
<1> QED BY <1>1
        DEF Init, PipelineInv, NoOrphan, PendingIsLatest, InFlightIsPending,
            CopyIsCurrent, Copying, ReviewShowsVerdict, FailNeedsOverride,
            InFlight

LEMMA InvAlways ==
  ASSUME Faults \subseteq {"error"}
  PROVE  Spec => []Inv
<1>1. "slow" \notin Faults
  OBVIOUS
<1>2. Spec => []Ownership
  BY <1>1, OwnershipAlways
<1>3. Inv /\ [Next]_vars => PipelineInv' /\ DeletedStaysDraft'
  BY PipelineStep, DeletedStep
<1>4. BaseInv /\ Ownership /\ PipelineInv /\ DeletedStaysDraft <=> Inv
  BY DEF Inv
<1>5. Init => DeletedStaysDraft
  BY DEF Init, DeletedStaysDraft
<1> QED BY <1>2, <1>3, <1>4, <1>5, PipelineInit, BaseAlways, PTL DEF Spec

----------------------------------------------------------------------------
(* The refinement                                                          *)

(* The life cycle as the refinement mapping shows it.                      *)
ShownStatus == [e \in Expenses |-> IF e \in deleted THEN "DELETED" ELSE status[e]]
ShownVerdict == [e \in Expenses |-> LatestValidations(e)]

LEMMA ShownInit == Init => Lifecycle!Init
<1> SUFFICES ASSUME Init
             PROVE  Lifecycle!Init
  OBVIOUS
<1>1. \A e : LatestValidations(e) = {}
  BY DEF Init, LatestValidations, LatestRun, RunsOf, Rows
<1> QED BY <1>1 DEF Init, Lifecycle!Init

(* Requests other than a submission leave every verdict as it was.         *)
LEMMA SameVerdicts ==
  ASSUME UNCHANGED <<runStatus, runExpense, results>>
  PROVE  ShownVerdict' = ShownVerdict
<1>1. \A e : LatestValidations(e)' = LatestValidations(e)
  BY SameRuns, SameValidations
<1> QED BY <1>1 DEF ShownVerdict

(* Moving an expense that is not deleted is moving it in the life cycle.   *)
LEMMA ShownMove ==
  ASSUME NEW e \in Expenses, e \notin deleted, deleted' = deleted,
         status \in [Expenses -> Status],
         NEW From, NEW To, status[e] \in From,
         status' = [status EXCEPT ![e] = To]
  PROVE  Lifecycle!Move(e, From, To)
<1>1. \A f \in Expenses : status'[f] = IF f = e THEN To ELSE status[f]
  OBVIOUS
<1>2. ShownStatus[e] \in From
  BY DEF ShownStatus
<1>3. ShownStatus' = [ShownStatus EXCEPT ![e] = To]
  BY <1>1 DEF ShownStatus
<1> QED BY <1>2, <1>3 DEF ShownStatus, Lifecycle!Move

LEMMA ShownRequest ==
  ASSUME Inv, Request
  PROVE  Lifecycle!Next
<1>1. PICK e \in Expenses :
        \/ \E c \in Contents : Create(e, c) \/ Edit(e, c)
        \/ Delete(e)
        \/ Submit(e)
        \/ \E override \in BOOLEAN : Approve(e, override)
        \/ Reject(e)
  BY DEF Request
<1>2. /\ status \in [Expenses -> Status] /\ deleted \subseteq Expenses
      /\ e \in deleted => status[e] = "DRAFT"
  BY DEF Inv, BaseInv, TypeOK, DeletedStaysDraft
<1>8. Contents \subseteq Content
  BY WorkflowAssumption
<1>3. ASSUME NEW c \in Contents, Create(e, c) \/ Edit(e, c)
      PROVE  Lifecycle!Write(e, c)
  <2>1. ShownVerdict' = ShownVerdict
    BY <1>3, SameVerdicts DEF Create, Edit, runVars
  <2>2. e \notin deleted
    BY <1>2, <1>3 DEF Create, Edit, Exists
  <2>3. Lifecycle!Move(e, {"ABSENT", "DRAFT", "REJECTED"}, "DRAFT")
    BY <1>2, <1>3, <2>2, ShownMove DEF Create, Edit, EditableStatuses
  <2> QED BY <1>3, <2>1, <2>3
          DEF Create, Edit, Lifecycle!Write, ShownVerdict
<1>4. CASE Delete(e)
  <2>1. ShownVerdict' = ShownVerdict
    BY <1>4, SameVerdicts DEF Delete, runVars
  <2>2. Lifecycle!Delete(e)
    BY <1>2, <1>4, <2>1
    DEF Delete, Exists, Lifecycle!Delete, Lifecycle!Move, ShownVerdict
  <2> QED BY <2>2 DEF Lifecycle!Next
<1>5. CASE Submit(e)
  <2>1. PICK r \in Runs :
          /\ results[r] = {}
          /\ LatestRun(e)' = {r}
          /\ \A f \in Expenses : f # e =>
                RunsOf(f)' = RunsOf(f) /\ LatestRun(f)' = LatestRun(f)
    BY <1>5, SubmittedRun
  <2>2. results' = results
    BY <1>5 DEF Submit
  <2>3. \A f \in Expenses : f # e => LatestValidations(f)' = LatestValidations(f)
    BY <2>1, <2>2, SameValidations
  <2>4. LatestValidations(e)' = {}
    BY <2>1, <2>2 DEF LatestValidations
  <2>5. ShownVerdict' = [ShownVerdict EXCEPT ![e] = {}]
    BY <2>3, <2>4 DEF ShownVerdict
  <2>6. Lifecycle!Move(e, {"DRAFT"}, "SUBMITTED")
    <3> DEFINE From == {"DRAFT"}
    <3>1. /\ e \notin deleted /\ deleted' = deleted
          /\ status[e] \in From
          /\ status' = [status EXCEPT ![e] = "SUBMITTED"]
      BY <1>5 DEF Submit, Exists
    <3> HIDE DEF From
    <3>2. Lifecycle!Move(e, From, "SUBMITTED")
      BY <1>2, <3>1, ShownMove
    <3> QED BY <3>2 DEF From
  <2>7. Lifecycle!Submit(e)
    BY <1>5, <2>5, <2>6 DEF Submit, Lifecycle!Submit, ShownVerdict
  <2> QED BY <2>7 DEF Lifecycle!Next
<1>6. ASSUME NEW override \in BOOLEAN, Approve(e, override)
      PROVE  Lifecycle!Approve(e)
  <2>1. ShownVerdict' = ShownVerdict
    BY <1>6, SameVerdicts DEF Approve, runVars
  <2>2. Lifecycle!Move(e, {"NEEDS_REVIEW"}, "APPROVED")
    <3> DEFINE From == {"NEEDS_REVIEW"}
    <3>1. /\ e \notin deleted /\ deleted' = deleted
          /\ status[e] \in From
          /\ status' = [status EXCEPT ![e] = "APPROVED"]
      BY <1>6 DEF Approve, Exists
    <3> HIDE DEF From
    <3>2. Lifecycle!Move(e, From, "APPROVED")
      BY <1>2, <3>1, ShownMove
    <3> QED BY <3>2 DEF From
  <2> QED BY <1>6, <2>1, <2>2 DEF Approve, Lifecycle!Approve, ShownVerdict
<1>7. CASE Reject(e)
  <2>1. ShownVerdict' = ShownVerdict
    BY <1>7, SameVerdicts DEF Reject, runVars
  <2>2. Lifecycle!Move(e, {"NEEDS_REVIEW"}, "REJECTED")
    <3> DEFINE From == {"NEEDS_REVIEW"}
    <3>1. /\ e \notin deleted /\ deleted' = deleted
          /\ status[e] \in From
          /\ status' = [status EXCEPT ![e] = "REJECTED"]
      BY <1>7 DEF Reject, Exists
    <3> HIDE DEF From
    <3>2. Lifecycle!Move(e, From, "REJECTED")
      BY <1>2, <3>1, ShownMove
    <3> QED BY <3>2 DEF From
  <2>3. Lifecycle!Reject(e)
    BY <1>7, <2>1, <2>2 DEF Reject, Lifecycle!Reject, ShownVerdict
  <2> QED BY <2>3 DEF Lifecycle!Next
<1> QED BY <1>1, <1>8, <1>3, <1>4, <1>5, <1>6, <1>7 DEF Lifecycle!Next, Content

(* Taking a run, failing an attempt and finishing change nothing that the  *)
(* life cycle shows.                                                       *)
LEMMA ShownStutter ==
  ASSUME UNCHANGED <<expenseVars, runExpense, results>>,
         \A r \in Runs : runStatus'[r] = "ABSENT" <=> runStatus[r] = "ABSENT"
  PROVE  UNCHANGED Lifecycle!vars
<1>1. \A e : LatestValidations(e)' = LatestValidations(e)
  BY SameRuns, SameValidations
<1> QED BY <1>1 DEF Lifecycle!vars, expenseVars

(* The worker's commit of an outcome v is one step of the life cycle.      *)
LEMMA ShownOutcome ==
  ASSUME Inv, NEW w \in Workers, NEW v \in Verdict,
         pc[w] \in Owing,
         results' = [results EXCEPT ![job[w]] = @ \union {v}],
         status' = [status EXCEPT ![runExpense[job[w]]] = "NEEDS_REVIEW"],
         UNCHANGED <<content, deleted, decision, runStatus, runExpense>>
  PROVE  \E e \in Expenses :
           /\ e = runExpense[job[w]]
           /\ e \notin deleted /\ status[e] \in InFlight
           /\ ShownStatus' = [ShownStatus EXCEPT ![e] = "NEEDS_REVIEW"]
           /\ ShownVerdict' = [ShownVerdict EXCEPT ![e] = {v}]
<1>1. PICK r \in Runs, e \in Expenses :
        /\ r = job[w] /\ e = runExpense[r] /\ results[r] = {}
        /\ LatestRun(e) = {r} /\ status[e] \in InFlight
  BY PendingJob
<1>2. e \notin deleted
  BY <1>1 DEF Inv, DeletedStaysDraft, InFlight
<1>3. /\ status'[e] = "NEEDS_REVIEW"
      /\ \A f \in Expenses : f # e => status'[f] = status[f]
      /\ results'[r] = {v}
      /\ \A q \in Runs : q # r => results'[q] = results[q]
  BY <1>1 DEF Inv, BaseInv, TypeOK
<1>4. \A f : RunsOf(f)' = RunsOf(f) /\ LatestRun(f)' = LatestRun(f)
  BY SameRuns
<1>5. \A f \in Expenses : f # e => LatestValidations(f)' = LatestValidations(f)
  <2> SUFFICES ASSUME NEW f \in Expenses, f # e
               PROVE  LatestValidations(f)' = LatestValidations(f)
    OBVIOUS
  <2>1. \A q \in RunsOf(f) : results'[q] = results[q]
    BY <1>1, <1>3 DEF RunsOf, Rows
  <2> QED BY <1>4, <2>1, SameValidations
<1>6. LatestValidations(e)' = {v}
  BY <1>1, <1>3, <1>4 DEF LatestValidations
<1>7. ShownVerdict' = [ShownVerdict EXCEPT ![e] = {v}]
  BY <1>5, <1>6 DEF ShownVerdict
<1>8. ShownStatus' = [ShownStatus EXCEPT ![e] = "NEEDS_REVIEW"]
  BY <1>2, <1>3 DEF ShownStatus
<1> QED BY <1>1, <1>2, <1>7, <1>8

LEMMA ShownExecute ==
  ASSUME Faults \subseteq {"error"}, Inv, NEW w \in Workers, Execute(w)
  PROVE  [Lifecycle!Next]_(Lifecycle!vars)
<1>1. CASE BeginValidation(w)
  <2>1. PICK e \in Expenses :
          e = runExpense[job[w]] /\ e \notin deleted /\ status[e] = "SUBMITTED"
    <3>1. pc[w] \in Owing /\ pc[w] \in Copying /\ StatusAt(pc[w]) = "SUBMITTED"
      BY <1>1 DEF BeginValidation, Owing, Copying, StatusAt
    <3> QED BY <3>1, PendingJob, PendingNotDeleted DEF Inv, PipelineInv, CopyIsCurrent
  <2>2. ShownVerdict' = ShownVerdict
    BY <1>1, SameVerdicts DEF BeginValidation, runVars
  <2>3. status \in [Expenses -> Status]
    BY DEF Inv, BaseInv, TypeOK
  <2>4. Lifecycle!BeginValidation(e)
    BY <1>1, <2>1, <2>2, <2>3
    DEF BeginValidation, Lifecycle!BeginValidation, Lifecycle!Move, ShownVerdict
  <2> QED BY <2>4 DEF Lifecycle!Next
<1>2. CASE CompleteValidation(w)
  <2>1. RuleVerdict(seen[w]) \in Verdict
    BY DEF RuleVerdict, Verdict
  <2>2. PICK e \in Expenses :
          /\ e = runExpense[job[w]]
          /\ e \notin deleted /\ status[e] \in InFlight
          /\ ShownStatus' = [ShownStatus EXCEPT ![e] = "NEEDS_REVIEW"]
          /\ ShownVerdict' = [ShownVerdict EXCEPT ![e] = {RuleVerdict(seen[w])}]
    BY <1>2, <2>1, ShownOutcome DEF CompleteValidation, Owing
  <2>3. status[e] = "VALIDATING" /\ seen[w] = content[e]
    BY <1>2, <2>2
    DEF CompleteValidation, Inv, PipelineInv, CopyIsCurrent, Copying, StatusAt
  <2>4. Lifecycle!Validate(e)
    BY <1>2, <2>2, <2>3
    DEF CompleteValidation, RuleVerdict, ShownStatus, ShownVerdict,
        Lifecycle!Validate, Lifecycle!Move
  <2> QED BY <2>4 DEF Lifecycle!Next
<1>3. CASE HandOver(w)
  <2>1. "SYS" \in Verdict
    BY DEF Verdict
  <2>2. PICK e \in Expenses :
          /\ e = runExpense[job[w]]
          /\ e \notin deleted /\ status[e] \in InFlight
          /\ ShownStatus' = [ShownStatus EXCEPT ![e] = "NEEDS_REVIEW"]
          /\ ShownVerdict' = [ShownVerdict EXCEPT ![e] = {"SYS"}]
    BY <1>3, <2>1, ShownOutcome DEF HandOver, Owing
  <2>3. Lifecycle!HandOver(e)
    BY <1>3, <2>2
    DEF HandOver, InFlight, ShownStatus, ShownVerdict, Lifecycle!HandOver,
        Lifecycle!Move
  <2> QED BY <2>3 DEF Lifecycle!Next
<1>4. CASE \/ StartPipeline(w) \/ FinishSuccess(w) \/ PipelineError(w)
           \/ FinishError(w) \/ PermanentFailure(w)
  <2>1. job[w] \in Runs /\ runStatus[job[w]] # "ABSENT"
    BY Busy DEF Inv, BaseInv
  <2>2. UNCHANGED <<expenseVars, runExpense, results>>
    BY <1>4 DEF StartPipeline, FinishSuccess, PipelineError, Raise, FinishError,
                PermanentFailure, runVars
  <2>3. \A r \in Runs : runStatus'[r] = "ABSENT" <=> runStatus[r] = "ABSENT"
    BY <1>4, <2>1
    DEF StartPipeline, FinishSuccess, PipelineError, Raise, FinishError,
        WriteOutcome, Outcome, PermanentFailure, runVars, Inv, BaseInv, TypeOK
  <2> QED BY <2>2, <2>3, ShownStutter
<1>5. ~FinishCommitError(w)
  BY DEF FinishCommitError
<1> QED BY <1>1, <1>2, <1>3, <1>4, <1>5, NothingSkipped DEF Execute

LEMMA ShownStep ==
  ASSUME Faults \subseteq {"error"}, Inv, [Next]_vars
  PROVE  [Lifecycle!Next]_(Lifecycle!vars)
<1>1. CASE Request
  BY <1>1, ShownRequest
<1>2. ASSUME NEW w \in Workers, Claim(w)
      PROVE  UNCHANGED Lifecycle!vars
  <2>1. \A r \in Runs : runStatus'[r] = "ABSENT" <=> runStatus[r] = "ABSENT"
    BY <1>2 DEF Claim, Inv, BaseInv, TypeOK
  <2> QED BY <1>2, <2>1, ShownStutter DEF Claim
<1>3. ASSUME NEW w \in Workers, Execute(w)
      PROVE  [Lifecycle!Next]_(Lifecycle!vars)
  BY <1>3, ShownExecute
<1>4. ASSUME NEW w \in Workers
      PROVE  ~RequeueStale(w) /\ ~Crash(w)
  BY NothingStale DEF RequeueStale, Crash
<1>5. CASE UNCHANGED vars
  BY <1>5, ShownStutter DEF vars, runVars
<1> QED BY <1>1, <1>2, <1>3, <1>4, <1>5 DEF Next, WorkerStep

----------------------------------------------------------------------------
(* The theorems: as long as exceptions inside the pipeline are the only    *)
(* fault, ...                                                              *)

(* ... an expense in validation is never left without a run or worker that *)
(* will move it on;                                                        *)
THEOREM WorkAlwaysOutstanding ==
  ASSUME Faults \subseteq {"error"}
  PROVE  Spec => []WorkOutstanding
<1>1. Inv => WorkOutstanding
  <2> SUFFICES ASSUME Inv, NEW e \in Expenses, status[e] \in InFlight
               PROVE  \E r \in RunsOf(e) :
                        \/ runStatus[r] \in {"QUEUED", "RUNNING"}
                        \/ \E w \in Workers : HandsOver(w, r)
    BY DEF WorkOutstanding
  <2>1. PICK r \in RunsOf(e) : Pending(r)
    BY DEF Inv, PipelineInv, InFlightIsPending
  <2> QED BY <2>1 DEF Pending, Owing, HandsOver, Inv, Ownership, Executing
<1> QED BY <1>1, InvAlways, PTL

(* ... no worker moves an expense its author has deleted;                  *)
THEOREM DeletedAlwaysDraft ==
  ASSUME Faults \subseteq {"error"}
  PROVE  Spec => []DeletedStaysDraft
<1>1. Inv => DeletedStaysDraft
  BY DEF Inv
<1> QED BY <1>1, InvAlways, PTL

(* ... a reviewer always has the verdict of the content under review;      *)
THEOREM ReviewAlwaysInformed ==
  ASSUME Faults \subseteq {"error"}
  PROVE  Spec => []ReviewShowsVerdict
<1>1. Inv => ReviewShowsVerdict
  BY DEF Inv, PipelineInv
<1> QED BY <1>1, InvAlways, PTL

(* ... no expense that breaks a FAIL rule is approved without an override; *)
THEOREM OverrideAlwaysRecorded ==
  ASSUME Faults \subseteq {"error"}
  PROVE  Spec => []FailNeedsOverride
<1>1. Inv => FailNeedsOverride
  BY DEF Inv, PipelineInv
<1> QED BY <1>1, InvAlways, PTL

(* ... nothing but the author's edit of a rejected expense undoes a        *)
(* decision;                                                               *)
THEOREM DecisionsAreFinal ==
  ASSUME Faults \subseteq {"error"}
  PROVE  Spec => DecisionFinal
<1> DEFINE Final(e) == /\ status[e] = "APPROVED" => status'[e] = "APPROVED"
                       /\ status[e] = "REJECTED" => status'[e] \in EditableStatuses
<1>1. ASSUME Inv, [Next]_vars, NEW e \in Expenses
      PROVE  Final(e)
  <2>1. status \in [Expenses -> Status]
    BY <1>1 DEF Inv, BaseInv, TypeOK
  <2>2. CASE Request
    BY <2>1, <2>2
    DEF Request, Create, Edit, Delete, Submit, Approve, Reject, EditableStatuses
  <2>3. ASSUME NEW w \in Workers,
               BeginValidation(w) \/ CompleteValidation(w) \/ HandOver(w)
        PROVE  Final(e)
    <3>1. status[runExpense[job[w]]] \in InFlight
      BY <1>1, <2>3, PendingJob
      DEF BeginValidation, CompleteValidation, HandOver, Owing
    <3> QED BY <2>1, <2>3, <3>1
            DEF BeginValidation, CompleteValidation, HandOver, InFlight,
                EditableStatuses
  <2>4. ASSUME UNCHANGED status
        PROVE  Final(e)
    BY <2>4 DEF EditableStatuses
  <2>5. ASSUME NEW w \in Workers,
               \/ StartPipeline(w) \/ SkipPipeline(w) \/ FinishSuccess(w)
               \/ PipelineError(w) \/ FinishCommitError(w) \/ FinishError(w)
               \/ PermanentFailure(w) \/ Claim(w) \/ RequeueStale(w) \/ Crash(w)
        PROVE  UNCHANGED status
    BY <2>5
    DEF StartPipeline, SkipPipeline, FinishSuccess, PipelineError,
        FinishCommitError, Raise, FinishError, PermanentFailure, Claim,
        RequeueStale, Crash, expenseVars
  <2> QED BY <1>1, <2>2, <2>3, <2>4, <2>5
          DEF Next, WorkerStep, Execute, vars, expenseVars
<1>2. Inv /\ [Next]_vars => [\A e \in Expenses : Final(e)]_status
  BY <1>1
<1> QED BY <1>2, InvAlways, PTL DEF Spec, DecisionFinal

(* ... and every behaviour of queue and workers is one of the life cycle   *)
(* drawn at the head of services/expense.py.                               *)
THEOREM WorkflowImplementsLifecycle ==
  ASSUME Faults \subseteq {"error"}
  PROVE  Spec => ImplementsLifecycle
<1>1. Inv /\ [Next]_vars => [Lifecycle!Next]_(Lifecycle!vars)
  BY ShownStep
<1> QED BY <1>1, ShownInit, InvAlways, PTL
        DEF Spec, ImplementsLifecycle, Lifecycle!Spec
=============================================================================
