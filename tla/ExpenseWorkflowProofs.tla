----------------------- MODULE ExpenseWorkflowProofs -----------------------
(***************************************************************************)
(* Theorems about ExpenseWorkflow for every set of expenses and workers    *)
(* and every value of the bounds.                                          *)
(***************************************************************************)
EXTENDS ExpenseWorkflow, FiniteSetTheorems, TLAPS

----------------------------------------------------------------------------
(* What holds under every fault                                            *)

(* A row that has not been inserted was never claimed and has no results,  *)
(* and ids are given out in order.                                         *)
FreshRows ==
  /\ \A r \in Runs : runStatus[r] = "ABSENT" => attempt[r] = 0 /\ results[r] = {}
  /\ \A q, r \in Runs : q < r /\ runStatus[r] # "ABSENT" => runStatus[q] # "ABSENT"

(* Workers whose finish has yet to put run r back, on the strength of an   *)
(* attempt they read.                                                      *)
LateWriters(r) ==
  {w \in Workers : /\ pc[w] = "failing"
                   /\ job[w] = r
                   /\ found[w].attempt < MaxAttempts}

(* How often run r may still be claimed when its attempts are used up.     *)
ClaimsToCome(r) ==
  (IF runStatus[r] = "QUEUED" THEN 1 ELSE 0) + Cardinality(LateWriters(r))

Counted(r) ==
  attempt[r] >= MaxAttempts =>
    attempt[r] + ClaimsToCome(r) <= MaxAttempts + Cardinality(Workers) - 1

ClaimsCounted == \A r \in Runs : Counted(r)

BaseInv ==
  /\ TypeOK
  /\ FreshRows
  /\ ClaimsCounted

LEMMA BaseInit == Init => BaseInv
<1> SUFFICES ASSUME Init
             PROVE  BaseInv
  OBVIOUS
<1>1. TypeOK
  BY WorkflowAssumption
  DEF Init, TypeOK, Status, Content, Verdict, Decision, Runs, RunStatus,
      WorkerPc, RunRow, NoRow
<1>2. FreshRows /\ ClaimsCounted
  BY WorkflowAssumption DEF Init, FreshRows, ClaimsCounted, Counted, Runs
<1> QED BY <1>1, <1>2 DEF BaseInv

(* A request changes an expense and, when it is a submission, inserts a    *)
(* run.                                                                    *)
LEMMA TypeRequest ==
  ASSUME TypeOK, FreshRows, Request
  PROVE  TypeOK' /\ FreshRows'
<1>1. PICK e \in Expenses :
        \/ \E c \in Contents : Create(e, c) \/ Edit(e, c)
        \/ Delete(e)
        \/ Submit(e)
        \/ \E override \in BOOLEAN : Approve(e, override)
        \/ Reject(e)
  BY DEF Request
<1>2. ASSUME NEW c \in Contents, Create(e, c) \/ Edit(e, c)
      PROVE  TypeOK' /\ FreshRows'
  <2>1. c \in Content
    BY WorkflowAssumption
  <2> QED BY <1>2, <2>1 DEF Create, Edit, TypeOK, FreshRows, Status, runVars, workerVars
<1>3. CASE Delete(e)
  BY <1>3 DEF Delete, TypeOK, FreshRows, runVars, workerVars
<1>4. CASE Submit(e)
  <2>1. PICK r \in Runs :
          /\ runStatus[r] = "ABSENT"
          /\ \A q \in Runs : q < r => runStatus[q] # "ABSENT"
          /\ runStatus' = [runStatus EXCEPT ![r] = "QUEUED"]
          /\ runExpense' = [runExpense EXCEPT ![r] = e]
    BY <1>4 DEF Submit
  <2>2. TypeOK'
    BY <1>4, <2>1 DEF Submit, TypeOK, Status, RunStatus, workerVars
  <2>3. FreshRows'
    BY <1>4, <2>1 DEF Submit, TypeOK, FreshRows, Runs
  <2> QED BY <2>2, <2>3
<1>5. ASSUME NEW override \in BOOLEAN, Approve(e, override)
      PROVE  TypeOK' /\ FreshRows'
  BY <1>5 DEF Approve, TypeOK, FreshRows, Status, Decision, runVars, workerVars
<1>6. CASE Reject(e)
  BY <1>6 DEF Reject, TypeOK, FreshRows, Status, Decision, runVars, workerVars
<1> QED BY <1>1, <1>2, <1>3, <1>4, <1>5, <1>6

(* The steps of a worker that has a run.                                   *)
LEMMA Busy ==
  ASSUME TypeOK, NEW w \in Workers, Execute(w) \/ Crash(w)
  PROVE  /\ pc[w] # "idle"
         /\ job[w] \in Runs
         /\ runStatus[job[w]] # "ABSENT"
         /\ runExpense[job[w]] \in Expenses
<1>1. pc[w] # "idle"
  BY DEF Execute, StartPipeline, SkipPipeline, BeginValidation,
         CompleteValidation, FinishSuccess, PipelineError, FinishCommitError,
         FinishError, PermanentFailure, HandOver, Crash
<1> QED BY <1>1 DEF TypeOK

LEMMA TypeExecute ==
  ASSUME TypeOK, FreshRows, NEW w \in Workers, Execute(w)
  PROVE  TypeOK' /\ FreshRows'
<1>1. /\ pc[w] # "idle" /\ job[w] \in Runs
      /\ runStatus[job[w]] # "ABSENT" /\ runExpense[job[w]] \in Expenses
  BY Busy
<1>2. NoRow \in RunRow
  BY DEF NoRow, RunRow, RunStatus
<1>3. CASE StartPipeline(w) \/ SkipPipeline(w)
  BY <1>1, <1>3
  DEF StartPipeline, SkipPipeline, TypeOK, FreshRows, WorkerPc, expenseVars, runVars
<1>4. CASE BeginValidation(w)
  BY <1>1, <1>4
  DEF BeginValidation, TypeOK, FreshRows, Status, WorkerPc, runVars
<1>5. CASE CompleteValidation(w)
  BY <1>1, <1>5
  DEF CompleteValidation, RuleVerdict, TypeOK, FreshRows, Status, WorkerPc,
      Verdict, Content
<1>6. CASE FinishSuccess(w)
  BY <1>1, <1>2, <1>6, WorkflowAssumption
  DEF FinishSuccess, Release, TypeOK, FreshRows, RunStatus, WorkerPc, Content,
      expenseVars
<1>7. CASE PipelineError(w) \/ FinishCommitError(w)
  <2>1. [status |-> runStatus[job[w]], attempt |-> attempt[job[w]]] \in RunRow
    BY <1>1 DEF TypeOK, RunRow
  <2>2. Raise(w)
    BY <1>7 DEF PipelineError, FinishCommitError
  <2> QED BY <1>1, <2>1, <2>2
          DEF Raise, TypeOK, FreshRows, WorkerPc, Content, expenseVars, runVars
<1>8. CASE FinishError(w)
  <2>1. /\ runStatus' \in [Runs -> RunStatus]
        /\ \A r \in Runs : runStatus'[r] # "ABSENT" <=> runStatus[r] # "ABSENT"
    BY <1>1, <1>8 DEF FinishError, WriteOutcome, Outcome, TypeOK, RunStatus
  <2>2. /\ pc' \in [Workers -> WorkerPc]
        /\ seen' \in [Workers -> Content]
        /\ found' \in [Workers -> RunRow]
    BY <1>2, <1>8 DEF FinishError, Release, TypeOK, WorkerPc, Content
  <2>3. /\ job' \in [Workers -> 0 .. MaxRuns]
        /\ \A v \in Workers : pc'[v] # "idle" => pc[v] # "idle" /\ job'[v] = job[v]
    BY <1>1, <1>8, WorkflowAssumption DEF FinishError, Release, TypeOK
  <2> QED BY <1>8, <2>1, <2>2, <2>3 DEF FinishError, TypeOK, FreshRows, expenseVars
<1>9. CASE PermanentFailure(w)
  BY <1>1, <1>2, <1>9, WorkflowAssumption
  DEF PermanentFailure, Release, TypeOK, FreshRows, WorkerPc, Content,
      expenseVars, runVars
<1>10. CASE HandOver(w)
  BY <1>1, <1>2, <1>10, WorkflowAssumption
  DEF HandOver, Release, TypeOK, FreshRows, Status, WorkerPc, Verdict, Content
<1> QED BY <1>3, <1>4, <1>5, <1>6, <1>7, <1>8, <1>9, <1>10 DEF Execute

LEMMA TypeStep ==
  ASSUME TypeOK, FreshRows, [Next]_vars
  PROVE  TypeOK' /\ FreshRows'
<1>1. CASE Request
  BY <1>1, TypeRequest
<1>2. ASSUME NEW w \in Workers, Claim(w)
      PROVE  TypeOK' /\ FreshRows'
  <2>1. PICK r \in Runs :
          /\ runStatus[r] = "QUEUED"
          /\ runStatus' = [runStatus EXCEPT ![r] = "RUNNING"]
          /\ attempt' = [attempt EXCEPT ![r] = @ + 1]
          /\ job' = [job EXCEPT ![w] = r]
    BY <1>2 DEF Claim
  <2>2. TypeOK'
    BY <1>2, <2>1, WorkflowAssumption
    DEF Claim, TypeOK, Runs, RunStatus, WorkerPc, expenseVars
  <2>3. FreshRows'
    BY <1>2, <2>1 DEF Claim, TypeOK, FreshRows
  <2> QED BY <2>2, <2>3
<1>3. ASSUME NEW w \in Workers, Execute(w)
      PROVE  TypeOK' /\ FreshRows'
  BY <1>3, TypeExecute
<1>4. ASSUME NEW w \in Workers, RequeueStale(w)
      PROVE  TypeOK' /\ FreshRows'
  <2>1. PICK S \in (SUBSET StaleRuns) \ {{}} :
          runStatus' = [r \in Runs |->
                          IF r \notin S THEN runStatus[r]
                          ELSE IF attempt[r] >= MaxAttempts THEN "FAILED"
                          ELSE "QUEUED"]
    BY <1>4 DEF RequeueStale
  <2>2. \A r \in S : r \in Runs /\ runStatus[r] = "RUNNING"
    BY DEF StaleRuns
  <2>3. \A r \in Runs : runStatus'[r] # "ABSENT" <=> runStatus[r] # "ABSENT"
    BY <2>1, <2>2
  <2>4. runStatus' \in [Runs -> RunStatus]
    BY <2>1 DEF TypeOK, RunStatus
  <2> QED BY <1>4, <2>3, <2>4
          DEF RequeueStale, TypeOK, FreshRows, expenseVars, workerVars
<1>5. ASSUME NEW w \in Workers, Crash(w)
      PROVE  TypeOK' /\ FreshRows'
  <2>1. NoRow \in RunRow
    BY DEF NoRow, RunRow, RunStatus
  <2> QED BY <1>5, <2>1, WorkflowAssumption
          DEF Crash, Release, TypeOK, FreshRows, WorkerPc, Content, expenseVars,
              runVars
<1>6. CASE UNCHANGED vars
  BY <1>6 DEF vars, expenseVars, runVars, workerVars, TypeOK, FreshRows
<1> QED BY <1>1, <1>2, <1>3, <1>4, <1>5, <1>6 DEF Next, WorkerStep

----------------------------------------------------------------------------
(* How often a run is claimed                                              *)

LEMMA LateWritersFinite ==
  ASSUME NEW r
  PROVE  /\ IsFiniteSet(LateWriters(r))
         /\ Cardinality(LateWriters(r)) \in Nat
         /\ Cardinality(Workers) \in Nat
<1>1. LateWriters(r) \subseteq Workers
  BY DEF LateWriters
<1> QED BY <1>1, FS_Subset, FS_CardinalityType, WorkflowAssumption

(* A set without one element of another is smaller by one.                 *)
LEMMA SmallerByOne ==
  ASSUME NEW S, NEW T, IsFiniteSet(T), S \subseteq T, NEW x \in T, x \notin S
  PROVE  Cardinality(S) + 1 <= Cardinality(T)
<1>1. /\ IsFiniteSet(T \ {x})
      /\ Cardinality(T \ {x}) = Cardinality(T) - 1
  BY FS_RemoveElement
<1>2. S \subseteq T \ {x}
  OBVIOUS
<1>3. Cardinality(S) <= Cardinality(T \ {x}) /\ IsFiniteSet(S)
  BY <1>1, <1>2, FS_Subset
<1> QED BY <1>1, <1>3, FS_CardinalityType

(* A run that nobody puts back and nobody begins to put back.              *)
LEMMA CountedKept ==
  ASSUME TypeOK, NEW r \in Runs, Counted(r),
         attempt'[r] = attempt[r],
         runStatus'[r] = "QUEUED" => runStatus[r] = "QUEUED",
         attempt[r] >= MaxAttempts => LateWriters(r)' \subseteq LateWriters(r)
  PROVE  Counted(r)'
<1> SUFFICES ASSUME attempt[r] >= MaxAttempts
             PROVE  attempt[r] + ClaimsToCome(r)' <= MaxAttempts + Cardinality(Workers) - 1
  BY DEF Counted
<1> DEFINE Late == LateWriters(r)
<1>1. /\ IsFiniteSet(Late)
      /\ Cardinality(Late) \in Nat
      /\ Cardinality(Workers) \in Nat
  BY LateWritersFinite
<1>2. /\ Cardinality(Late') <= Cardinality(Late)
      /\ Cardinality(Late') \in Nat
  BY <1>1, FS_Subset, FS_CardinalityType
<1>3. attempt[r] \in Nat /\ MaxAttempts \in Nat
  BY WorkflowAssumption DEF TypeOK
<1>4. attempt[r] + ClaimsToCome(r) <= MaxAttempts + Cardinality(Workers) - 1
  BY DEF Counted
<1> HIDE DEF Late
<1> QED BY <1>1, <1>2, <1>3, <1>4 DEF ClaimsToCome, Late

(* claim_next: the last regular attempt leaves room for one late finish of *)
(* every other worker; a further claim uses up a run that was put back.    *)
LEMMA CountedClaim ==
  ASSUME TypeOK, NEW w \in Workers, Claim(w), NEW r \in Runs, Counted(r)
  PROVE  Counted(r)'
<1>1. PICK q \in Runs :
        /\ runStatus[q] = "QUEUED"
        /\ runStatus' = [runStatus EXCEPT ![q] = "RUNNING"]
        /\ attempt' = [attempt EXCEPT ![q] = @ + 1]
        /\ job' = [job EXCEPT ![w] = q]
  BY DEF Claim
<1>2. /\ pc[w] = "idle" /\ pc'[w] = "claimed" /\ found' = found
      /\ \A v \in Workers : v # w => pc'[v] = pc[v] /\ job'[v] = job[v]
  BY <1>1 DEF Claim, TypeOK
<1>3. LateWriters(r)' \subseteq LateWriters(r) /\ w \notin LateWriters(r)'
  BY <1>2 DEF LateWriters
<1>4. CASE r # q
  BY <1>1, <1>3, <1>4, CountedKept DEF TypeOK
<1>5. CASE r = q
  <2> DEFINE Late == LateWriters(r)
  <2>1. /\ IsFiniteSet(Late)
        /\ Cardinality(Late) \in Nat
        /\ Cardinality(Workers) \in Nat
    BY LateWritersFinite
  <2>2. /\ Cardinality(Late') <= Cardinality(Late)
        /\ Cardinality(Late') \in Nat
    BY <1>3, <2>1, FS_Subset, FS_CardinalityType
  <2>3. Cardinality(Late') + 1 <= Cardinality(Workers)
    <3>1. Late' \subseteq Workers
      BY DEF LateWriters
    <3> QED BY <1>3, <3>1, SmallerByOne, WorkflowAssumption
  <2>4. attempt[r] \in Nat /\ attempt'[r] = attempt[r] + 1 /\ MaxAttempts \in Nat
    BY <1>1, <1>5, WorkflowAssumption DEF TypeOK
  <2>5. runStatus[r] = "QUEUED" /\ runStatus'[r] = "RUNNING"
    BY <1>1, <1>5 DEF TypeOK
  <2>6. ClaimsToCome(r) = 1 + Cardinality(Late) /\ ClaimsToCome(r)' = Cardinality(Late')
    BY <2>1, <2>2, <2>5 DEF ClaimsToCome
  <2> HIDE DEF Late
  <2> QED BY <2>1, <2>2, <2>3, <2>4, <2>6 DEF Counted
<1> QED BY <1>4, <1>5

(* finish: a worker that puts the run back is a late writer no longer.     *)
LEMMA CountedFinishError ==
  ASSUME TypeOK, NEW w \in Workers, FinishError(w), NEW r \in Runs, Counted(r)
  PROVE  Counted(r)'
<1>1. /\ pc[w] = "failing" /\ pc'[w] # "failing" /\ attempt' = attempt
      /\ job[w] \in Runs
      /\ \A v \in Workers : v # w =>
           pc'[v] = pc[v] /\ job'[v] = job[v] /\ found'[v] = found[v]
  BY DEF FinishError, Release, TypeOK
<1>2. LateWriters(r)' \subseteq LateWriters(r) /\ w \notin LateWriters(r)'
  BY <1>1 DEF LateWriters
<1>3. CASE runStatus'[r] = "QUEUED" => runStatus[r] = "QUEUED"
  BY <1>1, <1>2, <1>3, CountedKept
<1>4. CASE runStatus'[r] = "QUEUED" /\ runStatus[r] # "QUEUED"
  <2>1. r = job[w] /\ Outcome(found[w]) = "QUEUED"
    BY <1>1, <1>4 DEF FinishError, WriteOutcome, TypeOK
  <2>2. found[w].attempt \in Nat /\ MaxAttempts \in Nat
    BY WorkflowAssumption DEF TypeOK, RunRow
  <2>3. w \in LateWriters(r)
    BY <1>1, <2>1, <2>2 DEF LateWriters, Outcome
  <2> DEFINE Late == LateWriters(r)
  <2>4. /\ IsFiniteSet(Late)
        /\ Cardinality(Late) \in Nat
        /\ Cardinality(Workers) \in Nat
    BY LateWritersFinite
  <2>5. Cardinality(Late') + 1 <= Cardinality(Late)
    BY <1>2, <2>3, <2>4, SmallerByOne
  <2>6. Cardinality(Late') \in Nat
    BY <1>2, <2>4, FS_Subset, FS_CardinalityType
  <2>7. ClaimsToCome(r) = Cardinality(Late) /\ ClaimsToCome(r)' = 1 + Cardinality(Late')
    BY <1>4, <2>4, <2>6 DEF ClaimsToCome
  <2>8. attempt[r] \in Nat
    BY DEF TypeOK
  <2> HIDE DEF Late
  <2> QED BY <1>1, <2>2, <2>4, <2>5, <2>6, <2>7, <2>8 DEF Counted
<1> QED BY <1>3, <1>4

LEMMA CountedStep ==
  ASSUME TypeOK, FreshRows, [Next]_vars, NEW r \in Runs, Counted(r)
  PROVE  Counted(r)'
<1>1. CASE Request
  <2>1. UNCHANGED <<workerVars, attempt>>
    BY <1>1 DEF Request, Create, Edit, Delete, Submit, Approve, Reject, runVars
  <2>2. LateWriters(r)' = LateWriters(r)
    BY <2>1 DEF LateWriters, workerVars
  <2>3. CASE runStatus[r] = "ABSENT"
    BY <2>1, <2>3, WorkflowAssumption DEF FreshRows, Counted
  <2>4. CASE runStatus[r] # "ABSENT"
    <3>1. runStatus'[r] = runStatus[r]
      BY <1>1, <2>4 DEF Request, Create, Edit, Delete, Submit, Approve, Reject,
                        runVars, TypeOK
    <3> QED BY <2>1, <2>2, <3>1, CountedKept
  <2> QED BY <2>3, <2>4
<1>2. ASSUME NEW w \in Workers, Claim(w)
      PROVE  Counted(r)'
  BY <1>2, CountedClaim
<1>3. ASSUME NEW w \in Workers, FinishError(w)
      PROVE  Counted(r)'
  BY <1>3, CountedFinishError
<1>4. ASSUME NEW w \in Workers, PipelineError(w) \/ FinishCommitError(w)
      PROVE  Counted(r)'
  <2>1. Raise(w)
    BY <1>4 DEF PipelineError, FinishCommitError
  <2>2. /\ job' = job /\ found'[w].attempt = attempt[job[w]]
        /\ \A v \in Workers : v # w => pc'[v] = pc[v] /\ found'[v] = found[v]
    BY <2>1 DEF Raise, TypeOK
  <2>3. attempt[r] \in Nat /\ MaxAttempts \in Nat
    BY WorkflowAssumption DEF TypeOK
  <2>4. attempt[r] >= MaxAttempts => LateWriters(r)' \subseteq LateWriters(r)
    BY <2>2, <2>3 DEF LateWriters
  <2> QED BY <2>1, <2>4, CountedKept DEF Raise, runVars
<1>5. ASSUME NEW w \in Workers,
             \/ Crash(w)
             \/ StartPipeline(w) \/ SkipPipeline(w) \/ BeginValidation(w)
             \/ CompleteValidation(w) \/ FinishSuccess(w)
             \/ PermanentFailure(w) \/ HandOver(w)
      PROVE  Counted(r)'
  <2>1. /\ attempt' = attempt
        /\ runStatus'[r] \in {runStatus[r], "SUCCEEDED"}
    BY <1>5 DEF Crash, StartPipeline, SkipPipeline, BeginValidation,
                CompleteValidation, FinishSuccess, PermanentFailure, HandOver,
                runVars, TypeOK
  <2>2. /\ pc'[w] # "failing"
        /\ \A v \in Workers : v # w =>
             pc'[v] = pc[v] /\ job'[v] = job[v] /\ found'[v] = found[v]
    BY <1>5 DEF Crash, Release, StartPipeline, SkipPipeline, BeginValidation,
                CompleteValidation, FinishSuccess, PermanentFailure, HandOver,
                TypeOK
  <2>3. LateWriters(r)' \subseteq LateWriters(r)
    BY <2>2 DEF LateWriters
  <2> QED BY <2>1, <2>3, CountedKept
<1>6. ASSUME NEW w \in Workers, RequeueStale(w)
      PROVE  Counted(r)'
  <2>1. /\ UNCHANGED <<attempt, workerVars>>
        /\ runStatus'[r] \in {runStatus[r], "FAILED"} \/ ~(attempt[r] >= MaxAttempts)
    BY <1>6 DEF RequeueStale
  <2>2. LateWriters(r)' = LateWriters(r)
    BY <2>1 DEF LateWriters, workerVars
  <2>3. CASE ~(attempt[r] >= MaxAttempts)
    BY <2>1, <2>3 DEF Counted
  <2>4. CASE attempt[r] >= MaxAttempts
    BY <2>1, <2>2, <2>4, CountedKept
  <2> QED BY <2>3, <2>4
<1>7. CASE UNCHANGED vars
  <2>1. UNCHANGED <<runStatus, attempt, LateWriters(r)>>
    BY <1>7 DEF vars, runVars, workerVars, LateWriters
  <2> QED BY <2>1, CountedKept
<1> QED BY <1>1, <1>2, <1>3, <1>4, <1>5, <1>6, <1>7 DEF Next, WorkerStep, Execute

LEMMA BaseStep == BaseInv /\ [Next]_vars => BaseInv'
BY TypeStep, CountedStep DEF BaseInv, ClaimsCounted, Runs

LEMMA BaseAlways == Spec => []BaseInv
<1> QED BY BaseInit, BaseStep, PTL DEF Spec

(* Type correctness of the workflow, queue and worker state, whatever goes *)
(* wrong in the environment.                                               *)
THEOREM TypeCorrect == Spec => []TypeOK
<1>1. BaseInv => TypeOK
  BY DEF BaseInv
<1> QED BY <1>1, BaseAlways, PTL

(* Nothing but claim_next counts attempts, and nothing gives one back: each*)
(* start of a run uses up one, whoever put the run back into the queue.    *)
(* With AttemptsBounded and fairness, this is why RunsSettle.              *)
THEOREM ClaimsUseAttempts ==
  Spec => [][\A r \in Runs :
               IF runStatus[r] = "QUEUED" /\ runStatus'[r] = "RUNNING"
               THEN attempt'[r] = attempt[r] + 1
               ELSE attempt'[r] = attempt[r]]_vars
<1> DEFINE Uses(r) ==
             IF runStatus[r] = "QUEUED" /\ runStatus'[r] = "RUNNING"
             THEN attempt'[r] = attempt[r] + 1
             ELSE attempt'[r] = attempt[r]
<1>1. ASSUME BaseInv, Next, NEW r \in Runs
      PROVE  Uses(r)
  <2> USE <1>1 DEF BaseInv, TypeOK
  <2>1. CASE Request
    BY <2>1 DEF Request, Create, Edit, Delete, Submit, Approve, Reject, runVars
  <2>2. ASSUME NEW w \in Workers, Claim(w)
        PROVE  Uses(r)
    BY <2>2 DEF Claim
  <2>3. ASSUME NEW w \in Workers, Execute(w)
        PROVE  Uses(r)
    <3>1. /\ attempt' = attempt
          /\ runStatus'[r] \in {runStatus[r], "SUCCEEDED", "FAILED", "QUEUED"}
      BY <2>3 DEF Execute, StartPipeline, SkipPipeline, BeginValidation,
                  CompleteValidation, FinishSuccess, PipelineError,
                  FinishCommitError, Raise, FinishError, WriteOutcome, Outcome,
                  PermanentFailure, HandOver, runVars
    <3> QED BY <3>1
  <2>4. ASSUME NEW w \in Workers, RequeueStale(w) \/ Crash(w)
        PROVE  Uses(r)
    <3>1. /\ attempt' = attempt
          /\ runStatus'[r] \in {runStatus[r], "FAILED", "QUEUED"}
      BY <2>4 DEF RequeueStale, Crash, runVars
    <3> QED BY <3>1
  <2> QED BY <1>1, <2>1, <2>2, <2>3, <2>4 DEF Next, WorkerStep
<1>2. BaseInv /\ [Next]_vars => [\A r \in Runs : Uses(r)]_vars
  BY <1>1
<1> QED BY <1>2, BaseAlways, PTL DEF Spec

----------------------------------------------------------------------------
(* How an expense moves                                                    *)

(* Only an expense that was created is deleted or has runs.                *)
Created ==
  /\ \A e \in deleted : status[e] # "ABSENT"
  /\ \A r \in Runs : runStatus[r] # "ABSENT" => status[runExpense[r]] # "ABSENT"

LEMMA CreatedStep ==
  ASSUME BaseInv, Created, [Next]_vars
  PROVE  Created'
<1> USE DEF BaseInv
<1>1. CASE Request
  <2>1. PICK e \in Expenses :
          \/ \E c \in Contents : Create(e, c) \/ Edit(e, c)
          \/ Delete(e)
          \/ Submit(e)
          \/ \E override \in BOOLEAN : Approve(e, override)
          \/ Reject(e)
    BY <1>1 DEF Request
  <2>2. CASE Submit(e)
    BY <2>2 DEF Submit, Exists, Created, TypeOK
  <2>3. CASE ~Submit(e)
    BY <2>1, <2>3
    DEF Create, Edit, Delete, Approve, Reject, Exists, Created, TypeOK, runVars
  <2> QED BY <2>2, <2>3
<1>2. ASSUME NEW w \in Workers, Execute(w)
      PROVE  Created'
  <2>1. /\ UNCHANGED <<deleted, runExpense>>
        /\ \A r \in Runs : runStatus'[r] # "ABSENT" => runStatus[r] # "ABSENT"
    BY <1>2, Busy
    DEF Execute, StartPipeline, SkipPipeline, BeginValidation,
        CompleteValidation, FinishSuccess, PipelineError, FinishCommitError,
        Raise, FinishError, WriteOutcome, PermanentFailure, HandOver,
        expenseVars, runVars, TypeOK
  <2>2. \A e \in Expenses : status[e] # "ABSENT" => status'[e] # "ABSENT"
    BY <1>2
    DEF Execute, StartPipeline, SkipPipeline, BeginValidation,
        CompleteValidation, FinishSuccess, PipelineError, FinishCommitError,
        Raise, FinishError, PermanentFailure, HandOver, expenseVars, TypeOK
  <2> QED BY <2>1, <2>2 DEF Created, TypeOK
<1>3. ASSUME NEW w \in Workers, Claim(w) \/ RequeueStale(w) \/ Crash(w)
      PROVE  Created'
  <2>1. /\ UNCHANGED <<expenseVars, runExpense>>
        /\ \A r \in Runs : runStatus'[r] # "ABSENT" => runStatus[r] # "ABSENT"
    BY <1>3 DEF Claim, RequeueStale, StaleRuns, Crash, runVars, TypeOK
  <2> QED BY <2>1 DEF Created, expenseVars
<1>4. CASE UNCHANGED vars
  BY <1>4 DEF vars, expenseVars, runVars, Created
<1> QED BY <1>1, <1>2, <1>3, <1>4 DEF Next, WorkerStep

LEMMA CreatedAlways == Spec => []Created
<1>1. Init => Created
  BY DEF Init, Created
<1>2. BaseInv /\ Created /\ [Next]_vars => Created'
  BY CreatedStep
<1> QED BY <1>1, <1>2, BaseAlways, PTL DEF Spec

(* The transitions of the state machine.  The first row is the author's,   *)
(* the second the reviewer's, the others are the worker's.                 *)
Transitions ==
  {<<"ABSENT", "DRAFT">>, <<"REJECTED", "DRAFT">>, <<"DRAFT", "SUBMITTED">>,
   <<"NEEDS_REVIEW", "APPROVED">>, <<"NEEDS_REVIEW", "REJECTED">>,
   <<"SUBMITTED", "VALIDATING">>,
   <<"SUBMITTED", "NEEDS_REVIEW">>, <<"VALIDATING", "NEEDS_REVIEW">>}

(* What a worker may do to an expense that moved on since it was read: the *)
(* first commit of the pipeline, its end, or the hand-over to a reviewer.  *)
LateTransitions ==
  {<<s, t>> : s \in Status \ {"ABSENT"}, t \in {"VALIDATING", "NEEDS_REVIEW"}}

(* A step moves e at most, along a transition of an expense that is not    *)
(* deleted, or by a late write of a worker.                                *)
Moves(e) ==
  /\ \A f \in Expenses : f # e => status'[f] = status[f]
  /\ \/ status'[e] = status[e]
     \/ e \notin deleted /\ <<status[e], status'[e]>> \in Transitions
     \/ <<status[e], status'[e]>> \in LateTransitions

LEMMA WorkerMoves ==
  ASSUME BaseInv, Created, NEW w \in Workers, Execute(w)
  PROVE  \E e \in Expenses : Moves(e)
<1> DEFINE e == runExpense[job[w]]
<1>1. e \in Expenses /\ status[e] \in Status \ {"ABSENT"}
  BY Busy DEF BaseInv, TypeOK, Created
<1>2. ASSUME NEW t \in {"VALIDATING", "NEEDS_REVIEW"},
             status' = [status EXCEPT ![e] = t]
      PROVE  Moves(e)
  <2>1. status'[e] = t /\ \A f \in Expenses : f # e => status'[f] = status[f]
    BY <1>1, <1>2 DEF BaseInv, TypeOK
  <2>2. <<status[e], t>> \in LateTransitions
    BY <1>1 DEF LateTransitions
  <2> QED BY <2>1, <2>2 DEF Moves
<1>3. CASE BeginValidation(w) \/ CompleteValidation(w) \/ HandOver(w)
  BY <1>1, <1>2, <1>3 DEF BeginValidation, CompleteValidation, HandOver
<1>4. CASE status' = status
  BY <1>1, <1>4 DEF Moves
<1>5. Execute(w) => \/ BeginValidation(w) \/ CompleteValidation(w) \/ HandOver(w)
                    \/ status' = status
  BY DEF Execute, StartPipeline, SkipPipeline, FinishSuccess, PipelineError,
         FinishCommitError, Raise, FinishError, PermanentFailure, expenseVars
<1> QED BY <1>3, <1>4, <1>5

LEMMA RequestMoves ==
  ASSUME BaseInv, Created, NEW e \in Expenses,
         \/ \E c \in Contents : Create(e, c) \/ Edit(e, c)
         \/ Delete(e)
         \/ Submit(e)
         \/ \E override \in BOOLEAN : Approve(e, override)
         \/ Reject(e)
  PROVE  Moves(e)
<1>1. status[e] = "ABSENT" => e \notin deleted
  BY DEF Created
<1>2. CASE \E c \in Contents : Create(e, c) \/ Edit(e, c)
  BY <1>1, <1>2
  DEF Create, Edit, Exists, EditableStatuses, Moves, Transitions, BaseInv, TypeOK
<1>3. CASE Delete(e)
  BY <1>3 DEF Delete, Moves
<1>4. CASE Submit(e)
  BY <1>4 DEF Submit, Exists, Moves, Transitions, BaseInv, TypeOK
<1>5. CASE (\E override \in BOOLEAN : Approve(e, override)) \/ Reject(e)
  BY <1>5 DEF Approve, Reject, Exists, Moves, Transitions, BaseInv, TypeOK
<1> QED BY <1>2, <1>3, <1>4, <1>5

(* Whatever fails, however late a worker is: a step moves one expense at   *)
(* most; it decides, submits or edits one only along a transition of the   *)
(* state machine and never a deleted one; and what a late worker writes    *)
(* over a status it no longer knows is VALIDATING or NEEDS_REVIEW.  These  *)
(* are the moves that BudgetApproval, ReportSettlement and Dashboard leave *)
(* to the workflow around them.                                            *)
THEOREM MovesOneByOne ==
  Spec => [][\E e \in Expenses : Moves(e)]_status
<1>1. BaseInv /\ Created /\ [Next]_vars =>
        [\E e \in Expenses : Moves(e)]_status
  <2> SUFFICES ASSUME BaseInv, Created, Next, status' # status
               PROVE  \E e \in Expenses : Moves(e)
    BY DEF vars, expenseVars
  <2>1. CASE Request
    BY <2>1, RequestMoves DEF Request
  <2>2. ASSUME NEW w \in Workers, Execute(w)
        PROVE  \E e \in Expenses : Moves(e)
    BY <2>2, WorkerMoves
  <2>3. ASSUME NEW w \in Workers, Claim(w) \/ RequeueStale(w) \/ Crash(w)
        PROVE  FALSE
    BY <2>3 DEF Claim, RequeueStale, Crash, expenseVars
  <2> QED BY <2>1, <2>2, <2>3 DEF Next, WorkerStep
<1> QED BY <1>1, BaseAlways, CreatedAlways, PTL DEF Spec

----------------------------------------------------------------------------
(* What holds while no live worker is taken for dead                       *)

(* A worker that executes a run finds it RUNNING and unchanged since it    *)
(* read it, one that reports a permanent failure finds it FAILED, and      *)
(* nobody else holds it.                                                   *)
Ownership ==
  /\ \A w \in Workers : Executing(w) => runStatus[job[w]] = "RUNNING"
  /\ \A w \in Workers : pc[w] = "failing" =>
       found[w].status = "RUNNING" /\ found[w].attempt = attempt[job[w]]
  /\ \A w \in Workers :
       pc[w] \in {"failed", "handing"} => runStatus[job[w]] = "FAILED"
  /\ \A v, w \in Workers :
       pc[v] # "idle" /\ pc[w] # "idle" /\ job[v] = job[w] => v = w

LEMMA BusyWorkers ==
  ASSUME TypeOK, NEW w \in Workers
  PROVE  pc[w] # "idle" <=> Executing(w) \/ pc[w] \in {"failed", "handing"}
BY DEF TypeOK, Executing, WorkerPc

(* Only the owner ends a run.                                              *)
LEMMA OwnershipFinishError ==
  ASSUME BaseInv, Ownership, NEW w \in Workers, FinishError(w)
  PROVE  Ownership'
<1>1. pc[w] = "failing" /\ job[w] \in Runs /\ attempt' = attempt
  BY DEF FinishError, BaseInv, TypeOK
<1>2. \A r \in Runs : r # job[w] => runStatus'[r] = runStatus[r]
  BY <1>1 DEF FinishError, WriteOutcome, BaseInv, TypeOK
<1>3. \A v \in Workers : v # w =>
        pc'[v] = pc[v] /\ job'[v] = job[v] /\ found'[v] = found[v]
  BY DEF FinishError, Release, BaseInv, TypeOK
<1>4. \A v \in Workers : v # w /\ pc[v] # "idle" => job[v] # job[w] /\ job[v] \in Runs
  BY <1>1 DEF Ownership, BaseInv, TypeOK
<1>5. /\ ~Executing(w)' /\ pc'[w] # "handing"
      /\ pc'[w] = "failed" => runStatus'[job[w]] = "FAILED" /\ job'[w] = job[w]
      /\ pc'[w] # "idle" => job'[w] = job[w]
  BY <1>1 DEF FinishError, WriteOutcome, Release, Executing, Ownership, BaseInv, TypeOK
<1>6. \A v \in Workers : Executing(v)' => runStatus'[job'[v]] = "RUNNING"
  BY <1>2, <1>3, <1>4, <1>5 DEF Ownership, Executing
<1>7. \A v \in Workers : pc'[v] = "failing" =>
        found'[v].status = "RUNNING" /\ found'[v].attempt = attempt'[job'[v]]
  BY <1>1, <1>3, <1>5 DEF Ownership, Executing
<1>8. \A v \in Workers :
        pc'[v] \in {"failed", "handing"} => runStatus'[job'[v]] = "FAILED"
  BY <1>2, <1>3, <1>4, <1>5 DEF Ownership
<1>9. \A u, v \in Workers :
        pc'[u] # "idle" /\ pc'[v] # "idle" /\ job'[u] = job'[v] => u = v
  BY <1>3, <1>4, <1>5 DEF Ownership
<1> QED BY <1>6, <1>7, <1>8, <1>9 DEF Ownership

LEMMA OwnershipExecute ==
  ASSUME BaseInv, Ownership, NEW w \in Workers, Execute(w)
  PROVE  Ownership'
<1> USE DEF BaseInv, TypeOK
<1>0. pc[w] # "idle" /\ job[w] \in Runs
  BY Busy
<1>1. CASE StartPipeline(w) \/ SkipPipeline(w) \/ BeginValidation(w)
           \/ CompleteValidation(w)
  <2>1. /\ UNCHANGED <<runStatus, attempt, job, found>>
        /\ pc[w] \in {"claimed", "starting", "evaluating"}
        /\ \/ pc' = [pc EXCEPT ![w] = "starting"]
           \/ pc' = [pc EXCEPT ![w] = "evaluating"]
           \/ pc' = [pc EXCEPT ![w] = "finishing"]
    BY <1>1 DEF StartPipeline, SkipPipeline, BeginValidation,
                CompleteValidation, runVars
  <2> QED BY <2>1 DEF Ownership, Executing
<1>2. CASE FinishSuccess(w)
  BY <1>0, <1>2 DEF FinishSuccess, Release, Ownership, Executing
<1>3. CASE PipelineError(w) \/ FinishCommitError(w)
  <2>1. Raise(w) /\ Executing(w)
    BY <1>3 DEF PipelineError, FinishCommitError, Executing
  <2>2. runStatus[job[w]] = "RUNNING"
    BY <2>1 DEF Ownership
  <2> QED BY <1>0, <2>1, <2>2 DEF Raise, Ownership, Executing, runVars
<1>4. CASE FinishError(w)
  BY <1>4, OwnershipFinishError
<1>5. CASE PermanentFailure(w)
  BY <1>0, <1>5 DEF PermanentFailure, Release, Ownership, Executing, runVars
<1>6. CASE HandOver(w)
  BY <1>0, <1>6 DEF HandOver, Release, Ownership, Executing
<1> QED BY <1>1, <1>2, <1>3, <1>4, <1>5, <1>6 DEF Execute

LEMMA OwnershipStep ==
  ASSUME "slow" \notin Faults, BaseInv, Ownership, [Next]_vars
  PROVE  Ownership'
<1>1. CASE Request
  <2>1. UNCHANGED <<workerVars, attempt>>
    BY <1>1 DEF Request, Create, Edit, Delete, Submit, Approve, Reject, runVars
  <2>2. \A r \in Runs : runStatus[r] # "ABSENT" => runStatus'[r] = runStatus[r]
    BY <1>1 DEF Request, Create, Edit, Delete, Submit, Approve, Reject, runVars,
                BaseInv, TypeOK
  <2> QED BY <2>1, <2>2
          DEF Ownership, Executing, workerVars, BaseInv, TypeOK
<1>2. ASSUME NEW w \in Workers, Claim(w)
      PROVE  Ownership'
  <2>1. PICK r \in Runs :
          /\ runStatus[r] = "QUEUED"
          /\ runStatus' = [runStatus EXCEPT ![r] = "RUNNING"]
          /\ attempt' = [attempt EXCEPT ![r] = @ + 1]
          /\ job' = [job EXCEPT ![w] = r]
    BY <1>2 DEF Claim
  <2>2. \A v \in Workers : pc[v] # "idle" => job[v] # r
    BY <2>1, BusyWorkers DEF Ownership, BaseInv
  <2> QED BY <1>2, <2>1, <2>2 DEF Claim, Ownership, Executing, BaseInv, TypeOK
<1>3. ASSUME NEW w \in Workers, Execute(w)
      PROVE  Ownership'
  BY <1>3, OwnershipExecute
<1>4. ASSUME NEW w \in Workers, RequeueStale(w)
      PROVE  Ownership'
  <2>1. \A v \in Workers : pc[v] # "idle" => job[v] \notin StaleRuns
    BY DEF StaleRuns, Holds
  <2>2. \A r \in Runs : r \notin StaleRuns => runStatus'[r] = runStatus[r]
    BY <1>4 DEF RequeueStale
  <2>3. \A v \in Workers : pc[v] # "idle" => runStatus'[job[v]] = runStatus[job[v]]
    BY <2>1, <2>2 DEF BaseInv, TypeOK
  <2> QED BY <1>4, <2>3 DEF RequeueStale, workerVars, Ownership, Executing
<1>5. ASSUME NEW w \in Workers, Crash(w)
      PROVE  Ownership'
  BY <1>5 DEF Crash, Release, Ownership, Executing, BaseInv, TypeOK, runVars
<1>6. CASE UNCHANGED vars
  BY <1>6 DEF vars, runVars, workerVars, Ownership, Executing
<1> QED BY <1>1, <1>2, <1>3, <1>4, <1>5, <1>6 DEF Next, WorkerStep

LEMMA OwnershipAlways ==
  ASSUME "slow" \notin Faults
  PROVE  Spec => []Ownership
<1>1. Init => Ownership
  BY DEF Init, Ownership, Executing
<1>2. BaseInv /\ Ownership /\ [Next]_vars => Ownership'
  BY OwnershipStep
<1> QED BY <1>1, <1>2, BaseAlways, PTL DEF Spec

(* Through errors, failing commits and crashes, no run is executed by two  *)
(* workers at once, provided a run is reclaimed only from a dead worker.   *)
THEOREM ExecutionExclusive ==
  ASSUME "slow" \notin Faults
  PROVE  Spec => []ExclusiveExecution
<1>1. Ownership => ExclusiveExecution
  BY DEF Ownership, ExclusiveExecution, Executing
<1> QED BY <1>1, OwnershipAlways, PTL

(* Every run in the queue has an attempt left.                             *)
AttemptsLeft ==
  \A r \in Runs : /\ attempt[r] <= MaxAttempts
                  /\ runStatus[r] = "QUEUED" => attempt[r] < MaxAttempts

LEMMA AttemptsLeftStep ==
  ASSUME BaseInv, Ownership, AttemptsLeft, [Next]_vars
  PROVE  AttemptsLeft'
<1> SUFFICES ASSUME NEW r \in Runs
             PROVE  /\ attempt'[r] <= MaxAttempts
                    /\ runStatus'[r] = "QUEUED" => attempt'[r] < MaxAttempts
  BY DEF AttemptsLeft, Runs
<1>1. attempt[r] \in Nat /\ MaxAttempts \in Nat \ {0}
  BY WorkflowAssumption DEF BaseInv, TypeOK
<1>2. ASSUME attempt' = attempt, runStatus'[r] # "QUEUED" \/ runStatus'[r] = runStatus[r]
      PROVE  /\ attempt'[r] <= MaxAttempts
             /\ runStatus'[r] = "QUEUED" => attempt'[r] < MaxAttempts
  BY <1>2 DEF AttemptsLeft
<1>3. CASE Request
  <2>1. /\ attempt' = attempt
        /\ runStatus'[r] = runStatus[r] \/ runStatus[r] = "ABSENT"
    BY <1>3 DEF Request, Create, Edit, Delete, Submit, Approve, Reject, runVars,
                BaseInv, TypeOK
  <2> QED BY <1>1, <1>2, <2>1 DEF BaseInv, FreshRows
<1>4. ASSUME NEW w \in Workers, Claim(w)
      PROVE  /\ attempt'[r] <= MaxAttempts
             /\ runStatus'[r] = "QUEUED" => attempt'[r] < MaxAttempts
  BY <1>1, <1>4 DEF Claim, AttemptsLeft, BaseInv, TypeOK
<1>5. ASSUME NEW w \in Workers, FinishError(w)
      PROVE  /\ attempt'[r] <= MaxAttempts
             /\ runStatus'[r] = "QUEUED" => attempt'[r] < MaxAttempts
  <2>1. pc[w] = "failing" /\ attempt' = attempt /\ found[w].attempt = attempt[job[w]]
    BY <1>5 DEF FinishError, Ownership
  <2>2. \/ runStatus'[r] = runStatus[r]
        \/ r = job[w] /\ runStatus'[r] = Outcome(found[w])
    BY <1>5 DEF FinishError, WriteOutcome, BaseInv, TypeOK
  <2>3. CASE runStatus'[r] = runStatus[r]
    BY <1>2, <2>1, <2>3
  <2>4. CASE r = job[w] /\ runStatus'[r] = Outcome(found[w])
    BY <1>1, <2>1, <2>4 DEF Outcome, AttemptsLeft
  <2> QED BY <2>2, <2>3, <2>4
<1>6. ASSUME NEW w \in Workers, Execute(w), ~FinishError(w)
      PROVE  /\ attempt'[r] <= MaxAttempts
             /\ runStatus'[r] = "QUEUED" => attempt'[r] < MaxAttempts
  <2>1. attempt' = attempt /\ runStatus'[r] \in {runStatus[r], "SUCCEEDED"}
    BY <1>6 DEF Execute, StartPipeline, SkipPipeline, BeginValidation,
                CompleteValidation, FinishSuccess, PipelineError,
                FinishCommitError, Raise, PermanentFailure, HandOver, runVars,
                BaseInv, TypeOK
  <2> QED BY <1>2, <2>1
<1>7. ASSUME NEW w \in Workers, RequeueStale(w)
      PROVE  /\ attempt'[r] <= MaxAttempts
             /\ runStatus'[r] = "QUEUED" => attempt'[r] < MaxAttempts
  <2>1. /\ attempt' = attempt
        /\ \/ runStatus'[r] \in {runStatus[r], "FAILED"}
           \/ ~(attempt[r] >= MaxAttempts)
    BY <1>7 DEF RequeueStale
  <2> QED BY <1>1, <1>2, <2>1
<1>8. CASE (\E w \in Workers : Crash(w)) \/ UNCHANGED vars
  BY <1>2, <1>8 DEF Crash, vars, runVars
<1> QED BY <1>3, <1>4, <1>5, <1>6, <1>7, <1>8 DEF Next, WorkerStep

LEMMA AttemptsLeftAlways ==
  ASSUME "slow" \notin Faults
  PROVE  Spec => []AttemptsLeft
<1>1. Init => AttemptsLeft
  BY WorkflowAssumption DEF Init, AttemptsLeft
<1>2. BaseInv /\ Ownership /\ AttemptsLeft /\ [Next]_vars => AttemptsLeft'
  BY AttemptsLeftStep
<1> QED BY <1>1, <1>2, BaseAlways, OwnershipAlways, PTL DEF Spec

(* No run is claimed more than MaxAttempts times while live workers end    *)
(* their runs in time, through crashes, reclaims and failing commits; and  *)
(* when they do not, each worker but one can add one claim at most, by a   *)
(* finish that read the run before the last attempt began.                 *)
THEOREM AttemptsAlwaysBounded == Spec => []AttemptsBounded
<1>1. CASE "slow" \notin Faults
  <2>1. AttemptsLeft => AttemptsBounded
    <3> SUFFICES ASSUME AttemptsLeft, NEW r \in Runs
                 PROVE  attempt[r] <= MaxAttempts + 0
      BY <1>1 DEF AttemptsBounded, LateFinishes
    <3>1. attempt[r] <= MaxAttempts /\ MaxAttempts \in Nat
      BY WorkflowAssumption DEF AttemptsLeft
    <3> QED BY <3>1
  <2>2. Spec => []AttemptsLeft
    BY <1>1, AttemptsLeftAlways
  <2> QED BY <2>1, <2>2, PTL
<1>2. CASE "slow" \in Faults
  <2>1. BaseInv => AttemptsBounded
    <3> SUFFICES ASSUME BaseInv, NEW r \in Runs
                 PROVE  attempt[r] <= MaxAttempts + (Cardinality(Workers) - 1)
      BY <1>2 DEF AttemptsBounded, LateFinishes
    <3>1. /\ attempt[r] \in Nat /\ MaxAttempts \in Nat
          /\ Cardinality(Workers) \in Nat
          /\ Cardinality(LateWriters(r)) \in Nat
      BY LateWritersFinite, WorkflowAssumption DEF BaseInv, TypeOK
    <3>2. CASE attempt[r] >= MaxAttempts
      BY <3>1, <3>2 DEF BaseInv, ClaimsCounted, Counted, ClaimsToCome
    <3>3. CASE ~(attempt[r] >= MaxAttempts)
      BY <3>1, <3>3
    <3> QED BY <3>2, <3>3
  <2> QED BY <2>1, BaseAlways, PTL
<1> QED BY <1>1, <1>2

----------------------------------------------------------------------------
(* What a crash can strand                                                 *)

(* Run r still owes its expense a verdict: it waits, or a worker has it    *)
(* and has not committed an outcome.                                       *)
Owing == {"claimed", "starting", "evaluating", "failing", "failed", "handing"}

Pending(r) ==
  \/ runStatus[r] = "QUEUED"
  \/ \E w \in Workers : job[w] = r /\ pc[w] \in Owing

Waiting(e) == \E r \in RunsOf(e) : Pending(r)

(* In validation without a run that still owes it a verdict: after a crash *)
(* it depends on requeue_stale and on the attempts that are left.          *)
AtRisk == {e \in Expenses : Exists(e) /\ status[e] \in InFlight /\ ~Waiting(e)}

(* In validation, and nothing will move it on (not WorkOutstanding).       *)
Stranded ==
  {e \in Expenses :
     /\ Exists(e) /\ status[e] \in InFlight
     /\ \A r \in RunsOf(e) :
          /\ runStatus[r] \notin {"QUEUED", "RUNNING"}
          /\ \A w \in Workers : ~HandsOver(w, r)}

RiskIsPaid == IsFiniteSet(AtRisk) /\ Cardinality(AtRisk) <= crashes

LEMMA PendingKept ==
  ASSUME NEW r \in Runs, Pending(r),
         runStatus'[r] = runStatus[r],
         \A v \in Workers :
           job[v] = r /\ pc[v] \in Owing => job'[v] = r /\ pc'[v] \in Owing
  PROVE  Pending(r)'
BY DEF Pending

(* A worker's step settles the run it holds and leaves the others.         *)
LEMMA OthersPending ==
  ASSUME BaseInv, NEW w \in Workers, NEW r \in Runs, Pending(r), r # job[w],
         \A q \in Runs : q # job[w] => runStatus'[q] = runStatus[q],
         \A v \in Workers : v # w => job'[v] = job[v] /\ pc'[v] = pc[v]
  PROVE  Pending(r)'
BY PendingKept

(* As long as a worker lives, the run it holds is settled only when its    *)
(* expense has left validation or is deleted.                              *)
LEMMA ExecuteKeepsPending ==
  ASSUME BaseInv, Ownership, NEW w \in Workers, Execute(w),
         NEW r \in Runs, Pending(r),
         runExpense[r] \notin deleted, status'[runExpense[r]] \in InFlight
  PROVE  Pending(r)'
<1> USE DEF BaseInv, TypeOK
<1>1. pc[w] # "idle" /\ job[w] \in Runs /\ runExpense[job[w]] \in Expenses
  BY Busy
<1>2. CASE StartPipeline(w) \/ BeginValidation(w)
  BY <1>2, PendingKept DEF StartPipeline, BeginValidation, runVars, Owing
<1>3. CASE SkipPipeline(w)
  <2>1. r # job[w]
    BY <1>3 DEF SkipPipeline, expenseVars, Exists, InFlight
  <2> QED BY <1>3, <2>1, OthersPending DEF SkipPipeline, runVars
<1>4. CASE CompleteValidation(w) \/ HandOver(w)
  <2>1. status'[runExpense[job[w]]] = "NEEDS_REVIEW"
    BY <1>1, <1>4 DEF CompleteValidation, HandOver
  <2>2. r # job[w]
    BY <2>1 DEF InFlight
  <2>3. \A v \in Workers : v # w => job'[v] = job[v] /\ pc'[v] = pc[v]
    BY <1>4 DEF CompleteValidation, HandOver, Release
  <2> QED BY <1>4, <2>2, <2>3, OthersPending DEF CompleteValidation, HandOver
<1>5. CASE FinishSuccess(w)
  <2>1. r # job[w]
    BY <1>1, <1>5 DEF FinishSuccess, Ownership, Executing, Pending, Owing
  <2>2. /\ \A q \in Runs : q # job[w] => runStatus'[q] = runStatus[q]
        /\ \A v \in Workers : v # w => job'[v] = job[v] /\ pc'[v] = pc[v]
    BY <1>1, <1>5 DEF FinishSuccess, Release
  <2> QED BY <2>1, <2>2, OthersPending
<1>6. CASE PipelineError(w) \/ FinishCommitError(w)
  BY <1>6, PendingKept DEF PipelineError, FinishCommitError, Raise, runVars, Owing
<1>7. CASE FinishError(w)
  <2>1. CASE r # job[w]
    <3>1. /\ \A q \in Runs : q # job[w] => runStatus'[q] = runStatus[q]
          /\ \A v \in Workers : v # w => job'[v] = job[v] /\ pc'[v] = pc[v]
      BY <1>1, <1>7 DEF FinishError, WriteOutcome, Release
    <3> QED BY <2>1, <3>1, OthersPending
  <2>2. CASE r = job[w]
    <3>1. found[w].status = "RUNNING"
      BY <1>7 DEF FinishError, Ownership
    <3>2. \/ runStatus'[r] = "QUEUED"
          \/ pc'[w] = "failed" /\ job'[w] = r
      BY <1>1, <1>7, <2>2, <3>1 DEF FinishError, WriteOutcome, Outcome
    <3> QED BY <3>2 DEF Pending, Owing
  <2> QED BY <2>1, <2>2
<1>8. CASE PermanentFailure(w)
  <2>1. status' = status /\ \A v \in Workers : v # w => job'[v] = job[v] /\ pc'[v] = pc[v]
    BY <1>8 DEF PermanentFailure, Release, expenseVars
  <2>2. CASE r # job[w]
    BY <1>8, <2>1, <2>2, OthersPending DEF PermanentFailure, runVars
  <2>3. CASE r = job[w]
    <3>1. pc'[w] = "handing" /\ job' = job
      BY <1>8, <2>1, <2>3 DEF PermanentFailure
    <3> QED BY <2>3, <3>1 DEF Pending, Owing
  <2> QED BY <2>2, <2>3
<1> QED BY <1>2, <1>3, <1>4, <1>5, <1>6, <1>7, <1>8 DEF Execute

LEMMA RequestKeepsPending ==
  ASSUME BaseInv, Request, NEW r \in Runs, Pending(r)
  PROVE  Pending(r)' /\ runExpense'[r] = runExpense[r]
<1>1. UNCHANGED workerVars
  BY DEF Request, Create, Edit, Delete, Submit, Approve, Reject
<1>2. runStatus[r] # "ABSENT"
  BY DEF Pending, Owing, BaseInv, TypeOK
<1>3. runStatus'[r] = runStatus[r] /\ runExpense'[r] = runExpense[r]
  BY <1>2 DEF Request, Create, Edit, Delete, Submit, Approve, Reject, runVars,
              BaseInv, TypeOK
<1> QED BY <1>1, <1>3, PendingKept DEF workerVars

(* An expense that comes into validation brings a run with it.             *)
LEMMA SubmittedIsWaiting ==
  ASSUME BaseInv, Request, NEW e \in Expenses,
         status[e] \notin InFlight, status'[e] \in InFlight
  PROVE  Waiting(e)'
<1>1. Submit(e)
  BY DEF Request, Create, Edit, Delete, Submit, Approve, Reject, InFlight,
         BaseInv, TypeOK
<1>2. PICK r \in Runs :
        /\ runStatus' = [runStatus EXCEPT ![r] = "QUEUED"]
        /\ runExpense' = [runExpense EXCEPT ![r] = e]
  BY <1>1 DEF Submit
<1>3. runStatus'[r] = "QUEUED" /\ runExpense'[r] = e
  BY <1>2 DEF BaseInv, TypeOK
<1> QED BY <1>3 DEF Waiting, RunsOf, Rows, Pending

(* Only a crash adds to the expenses at risk.                              *)
LEMMA RiskStep ==
  ASSUME "slow" \notin Faults, BaseInv, Ownership, [Next]_vars,
         \A w \in Workers : ~Crash(w)
  PROVE  AtRisk' \subseteq AtRisk
<1> SUFFICES ASSUME NEW e \in Expenses,
                    Exists(e)', status'[e] \in InFlight, ~Waiting(e)'
             PROVE  Exists(e) /\ status[e] \in InFlight /\ ~Waiting(e)
  BY DEF AtRisk
<1>0. e \notin deleted /\ (status[e] \in InFlight => Exists(e))
  <2>1. deleted \subseteq deleted'
    BY DEF Next, Request, Create, Edit, Delete, Submit, Approve, Reject,
           WorkerStep, Claim, Execute, StartPipeline, SkipPipeline,
           BeginValidation, CompleteValidation, FinishSuccess, PipelineError,
           FinishCommitError, Raise, FinishError, PermanentFailure, HandOver,
           RequeueStale, Crash, vars, expenseVars
  <2> QED BY <2>1 DEF Exists, InFlight
<1>1. ASSUME NEW r \in RunsOf(e), Pending(r)', runExpense'[r] = runExpense[r]
      PROVE  FALSE
  <2>1. BaseInv'
    BY BaseStep
  <2>2. runStatus'[r] # "ABSENT"
    BY <1>1, <2>1 DEF RunsOf, Rows, Pending, Owing, BaseInv, TypeOK
  <2> QED BY <1>1, <2>2 DEF Waiting, RunsOf, Rows
<1>2. CASE Request
  BY <1>0, <1>1, <1>2, RequestKeepsPending, SubmittedIsWaiting
  DEF Waiting, RunsOf, Rows
<1>3. ASSUME NEW w \in Workers, Claim(w)
      PROVE  Exists(e) /\ status[e] \in InFlight /\ ~Waiting(e)
  <2>1. ASSUME NEW r \in Runs, Pending(r)
        PROVE  Pending(r)'
    BY <1>3, <2>1 DEF Claim, Pending, Owing, BaseInv, TypeOK
  <2> QED BY <1>0, <1>1, <1>3, <2>1 DEF Claim, expenseVars, Waiting, RunsOf, Rows
<1>4. ASSUME NEW w \in Workers, Execute(w)
      PROVE  Exists(e) /\ status[e] \in InFlight /\ ~Waiting(e)
  <2>1. UNCHANGED runExpense
    BY <1>4 DEF Execute, StartPipeline, SkipPipeline, BeginValidation,
                CompleteValidation, FinishSuccess, PipelineError,
                FinishCommitError, Raise, FinishError, PermanentFailure,
                HandOver, runVars
  <2>2. ASSUME NEW r \in RunsOf(e), Pending(r)
        PROVE  Pending(r)'
    BY <1>0, <1>4, <2>2, ExecuteKeepsPending DEF RunsOf, Rows
  <2>3. ~Waiting(e)
    BY <1>1, <2>1, <2>2 DEF Waiting
  <2>4. status[e] \in InFlight
    <3>1. CASE BeginValidation(w) /\ e = runExpense[job[w]]
      <4>1. job[w] \in RunsOf(e) /\ Pending(job[w])
        BY <1>4, <3>1, Busy
        DEF BeginValidation, RunsOf, Rows, Pending, Owing, BaseInv
      <4> QED BY <2>3, <4>1 DEF Waiting
    <3>2. CASE ~(BeginValidation(w) /\ e = runExpense[job[w]])
      BY <1>4, <3>2
      DEF Execute, StartPipeline, SkipPipeline, BeginValidation,
          CompleteValidation, FinishSuccess, PipelineError, FinishCommitError,
          Raise, FinishError, PermanentFailure, HandOver, expenseVars, InFlight,
          BaseInv, TypeOK
    <3> QED BY <3>1, <3>2
  <2> QED BY <1>0, <2>3, <2>4
<1>5. ASSUME NEW w \in Workers, RequeueStale(w)
      PROVE  Exists(e) /\ status[e] \in InFlight /\ ~Waiting(e)
  <2>1. ASSUME NEW r \in Runs, Pending(r)
        PROVE  Pending(r)'
    <3>1. r \notin StaleRuns
      BY <2>1 DEF Pending, Owing, StaleRuns, Holds
    <3>2. runStatus'[r] = runStatus[r]
      BY <1>5, <3>1 DEF RequeueStale
    <3> QED BY <1>5, <2>1, <3>2, PendingKept DEF RequeueStale, workerVars
  <2> QED BY <1>0, <1>1, <1>5, <2>1 DEF RequeueStale, expenseVars, Waiting, RunsOf, Rows
<1>6. CASE UNCHANGED vars
  BY <1>0, <1>6 DEF vars, expenseVars, runVars, workerVars, Waiting, RunsOf, Rows,
                    Pending
<1> QED BY <1>2, <1>3, <1>4, <1>5, <1>6 DEF Next, WorkerStep

(* A crash takes one run from its worker, and adds its expense at most.    *)
LEMMA CrashRisk ==
  ASSUME BaseInv, NEW w \in Workers, Crash(w)
  PROVE  AtRisk' \subseteq AtRisk \union {runExpense[job[w]]}
<1> SUFFICES ASSUME NEW e \in Expenses, e # runExpense[job[w]],
                    Exists(e)', status'[e] \in InFlight, ~Waiting(e)'
             PROVE  Exists(e) /\ status[e] \in InFlight /\ ~Waiting(e)
  BY DEF AtRisk
<1>1. UNCHANGED <<status, deleted, runStatus, runExpense>>
  BY DEF Crash, expenseVars, runVars
<1>2. ASSUME NEW r \in RunsOf(e), Pending(r)
      PROVE  Pending(r)'
  <2>1. r \in Runs /\ r # job[w]
    BY DEF RunsOf, Rows
  <2>2. \A v \in Workers : v # w => job'[v] = job[v] /\ pc'[v] = pc[v]
    BY DEF Crash, Release, BaseInv, TypeOK
  <2> QED BY <1>1, <1>2, <2>1, <2>2, OthersPending
<1> QED BY <1>1, <1>2 DEF Exists, Waiting, RunsOf, Rows

LEMMA RiskAlwaysPaid ==
  ASSUME "slow" \notin Faults
  PROVE  Spec => []RiskIsPaid
<1>1. Init => RiskIsPaid
  <2>1. Init => AtRisk = {}
    BY DEF Init, AtRisk, InFlight
  <2>2. Init => crashes = 0
    BY DEF Init
  <2> QED BY <2>1, <2>2, FS_EmptySet DEF RiskIsPaid
<1>2. BaseInv /\ Ownership /\ RiskIsPaid /\ [Next]_vars => RiskIsPaid'
  <2> SUFFICES ASSUME BaseInv, Ownership, RiskIsPaid, [Next]_vars
               PROVE  RiskIsPaid'
    OBVIOUS
  <2>1. Cardinality(AtRisk) \in Nat /\ crashes \in Nat
    BY FS_CardinalityType, WorkflowAssumption DEF RiskIsPaid, BaseInv, TypeOK
  <2>2. CASE \E w \in Workers : Crash(w)
    <3>1. PICK w \in Workers : Crash(w)
      BY <2>2
    <3> DEFINE More == AtRisk \union {runExpense[job[w]]}
    <3>2. AtRisk' \subseteq More /\ crashes' = crashes + 1
      BY <3>1, CrashRisk DEF Crash
    <3>3. /\ IsFiniteSet(More)
          /\ \/ Cardinality(More) = Cardinality(AtRisk)
             \/ Cardinality(More) = Cardinality(AtRisk) + 1
      BY FS_AddElement DEF RiskIsPaid
    <3> HIDE DEF More
    <3>4. /\ IsFiniteSet(AtRisk')
          /\ Cardinality(AtRisk') <= Cardinality(More)
          /\ Cardinality(AtRisk') \in Nat
      BY <3>2, <3>3, FS_Subset, FS_CardinalityType
    <3> QED BY <2>1, <3>2, <3>3, <3>4 DEF RiskIsPaid
  <2>3. CASE \A w \in Workers : ~Crash(w)
    <3>1. AtRisk' \subseteq AtRisk
      BY <2>3, RiskStep
    <3>2. /\ IsFiniteSet(AtRisk')
          /\ Cardinality(AtRisk') <= Cardinality(AtRisk)
          /\ Cardinality(AtRisk') \in Nat
      BY <3>1, FS_Subset, FS_CardinalityType DEF RiskIsPaid
    <3>3. crashes' = crashes
      BY <2>3 DEF Next, Request, Create, Edit, Delete, Submit, Approve, Reject,
                  WorkerStep, Claim, Execute, StartPipeline, SkipPipeline,
                  BeginValidation, CompleteValidation, FinishSuccess,
                  PipelineError, FinishCommitError, Raise, FinishError,
                  PermanentFailure, HandOver, RequeueStale, vars
    <3> QED BY <2>1, <3>2, <3>3 DEF RiskIsPaid
  <2> QED BY <2>2, <2>3
<1> QED BY <1>1, <1>2, BaseAlways, OwnershipAlways, PTL DEF Spec

(* If workers end their runs before they count as stale, no more expenses  *)
(* are left in validation with nobody to move them on than workers have    *)
(* crashed, through failing pipelines and failing commits of finish.  (One *)
(* crash is enough for one: the run finding_stuck.)                        *)
THEOREM CrashStrandsOne ==
  ASSUME "slow" \notin Faults
  PROVE  Spec => [](IsFiniteSet(Stranded) /\ Cardinality(Stranded) <= crashes)
<1>1. BaseInv /\ Ownership /\ RiskIsPaid =>
        IsFiniteSet(Stranded) /\ Cardinality(Stranded) <= crashes
  <2> SUFFICES ASSUME BaseInv, Ownership, RiskIsPaid
               PROVE  IsFiniteSet(Stranded) /\ Cardinality(Stranded) <= crashes
    OBVIOUS
  <2>1. Stranded \subseteq AtRisk
    <3> SUFFICES ASSUME NEW e \in Stranded, NEW r \in RunsOf(e), Pending(r)
                 PROVE  FALSE
      BY DEF Stranded, AtRisk, Waiting
    <3>1. /\ runStatus[r] \notin {"QUEUED", "RUNNING"}
          /\ \A w \in Workers : ~HandsOver(w, r)
      BY DEF Stranded
    <3>2. PICK w \in Workers :
            job[w] = r /\ pc[w] \in {"claimed", "starting", "evaluating", "failing"}
      BY <3>1 DEF Pending, Owing, HandsOver
    <3>3. runStatus[r] = "RUNNING"
      BY <3>2 DEF Ownership, Executing
    <3> QED BY <3>1, <3>3
  <2>2. /\ IsFiniteSet(Stranded)
        /\ Cardinality(Stranded) <= Cardinality(AtRisk)
        /\ Cardinality(Stranded) \in Nat
    BY <2>1, FS_Subset, FS_CardinalityType DEF RiskIsPaid
  <2>3. Cardinality(AtRisk) \in Nat /\ crashes \in Nat
    BY FS_CardinalityType, WorkflowAssumption DEF RiskIsPaid, BaseInv, TypeOK
  <2> QED BY <2>2, <2>3 DEF RiskIsPaid
<1> QED BY <1>1, BaseAlways, OwnershipAlways, RiskAlwaysPaid, PTL

(* Until a worker dies, failing commits of finish included, an expense in  *)
(* validation has somebody to move it on: what SubmissionReviewed needs    *)
(* besides fairness.                                                       *)
THEOREM OutstandingUntilCrash ==
  ASSUME "slow" \notin Faults
  PROVE  Spec => [](crashes = 0 => WorkOutstanding)
<1>1. IsFiniteSet(Stranded) /\ Cardinality(Stranded) <= crashes
        => (crashes = 0 => WorkOutstanding)
  <2> SUFFICES ASSUME IsFiniteSet(Stranded), Cardinality(Stranded) <= 0
               PROVE  WorkOutstanding
    OBVIOUS
  <2>1. Stranded = {}
    BY FS_EmptySet, FS_CardinalityType
  <2> QED BY <2>1 DEF Stranded, WorkOutstanding
<1> QED BY <1>1, CrashStrandsOne, PTL

=============================================================================
