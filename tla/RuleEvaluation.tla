-------------------------- MODULE RuleEvaluation --------------------------
(***************************************************************************)
(* One expense on its way through run_expense_pipeline (pipeline.py): its  *)
(* owner types the vendor's business number and submits, the worker        *)
(* gathers the context of the rules step by step, and the rules decide     *)
(* (module RuleCatalog).  Meanwhile the owner may attach evidence late     *)
(* (upload_evidence tests the status without a lock), and other expenses   *)
(* of the budget get approved.                                             *)
(*                                                                         *)
(* What external systems answer is chosen from small sets: the vendor's    *)
(* status and the calendar are modules of their own.  An attempt that      *)
(* raises leaves nothing behind and the next one begins anew.              *)
(***************************************************************************)
EXTENDS RuleCatalog

CONSTANTS
  FirstNumbers,  \* business numbers the owner begins with
  SentNumbers,   \* bound: the numbers submissions are explored with
  MaxTypos,      \* bound: digits typed wrongly
  MaxEvidences,  \* bound: files attached
  SpentDays,     \* dates of the expense
  ProjectStart, ProjectEnd,
  Amount,        \* of the expense
  Budgets,       \* of its category, each a set of at most one amount
  ApprovedSums,  \* sums of the approved expenses of the category
  Replies        \* what the AI may say of a document

ASSUME EvaluationAssumption ==
  /\ FirstNumbers \subseteq Seq(0 .. 9)
  /\ \A n \in FirstNumbers : Len(n) <= 10
  /\ SentNumbers \subseteq Seq(0 .. 9)
  /\ MaxTypos \in Nat /\ MaxEvidences \in Nat
  /\ SpentDays \subseteq Int /\ ProjectStart \in Int /\ ProjectEnd \in Int
  /\ Amount \in Nat \ {0}
  /\ \A b \in Budgets : b \subseteq Nat
  /\ ApprovedSums \subseteq Nat /\ 0 \in ApprovedSums

VARIABLES
  number,     \* expenses.vendor_biz_no
  typos,      \* digits typed wrongly so far
  stage,      \* where the expense or its evaluation stands
  evidences,  \* rows of evidences
  withoutFile,\* the first of them has lost its file
  approved,   \* what is approved in the category now
  context,    \* the context gathered so far
  results,    \* validation_results
  aiRuns      \* ai_runs of this attempt

evaluationVars ==
  <<number, typos, stage, evidences, withoutFile, approved, context, results, aiRuns>>

Stages == {"draft", "extract", "suggest", "vendor", "surroundings", "rules", "done"}

(* AnthropicAIClient.extract_document: a number that has not ten digits    *)
(* and a date that is none (below zero here) are dropped.                  *)
Extracted(reply) ==
  [amount |-> reply.amount,
   issuedAt |-> {d \in reply.issuedAt : d >= 0},
   bizNo |-> {n \in reply.bizNo : Len(n) = 10},
   confidence |-> reply.confidence]

(* The part of the context that is known when the evaluation begins.       *)
Blank(spentAt, budget, ai) ==
  [amount |-> Amount, spentAt |-> spentAt, bizNo |-> number, category |-> "own",
   start |-> ProjectStart, end |-> ProjectEnd, budget |-> budget, ai |-> ai,
   extraction |-> {}, extractionFailed |-> FALSE, suggestion |-> {},
   vendor |-> {}, duplicates |-> FALSE, nonworking |-> "unknown",
   approved |-> 0, evidences |-> 0]

EvaluationTypeOK ==
  /\ number \in Seq(0 .. 9) /\ Len(number) <= 10
  /\ typos \in 0 .. MaxTypos
  /\ stage \in Stages
  /\ evidences \in 0 .. MaxEvidences
  /\ withoutFile \in BOOLEAN
  /\ approved \in ApprovedSums
  /\ stage \in {"extract", "draft"} => aiRuns = {}
  /\ stage = "done" => context.evidences <= evidences
  /\ context.vendor # {} => context.bizNo # <<>>
  /\ context.extraction # {} => context.ai /\ evidences > 0 /\ ~context.extractionFailed

----------------------------------------------------------------------------
(* Owner and other sessions                                                *)

(* A digit is typed wrongly, or one is left out.                           *)
Type(i, d) ==
  /\ stage = "draft"
  /\ typos < MaxTypos
  /\ i \in 1 .. Len(number)
  /\ d # number[i]
  /\ number' = [number EXCEPT ![i] = d]
  /\ typos' = typos + 1
  /\ UNCHANGED <<stage, evidences, withoutFile, approved, context, results, aiRuns>>

Omit(i) ==
  /\ stage = "draft"
  /\ typos < MaxTypos
  /\ i \in 1 .. Len(number)
  /\ number' = SubSeq(number, 1, i - 1) \o SubSeq(number, i + 1, Len(number))
  /\ typos' = typos + 1
  /\ UNCHANGED <<stage, evidences, withoutFile, approved, context, results, aiRuns>>

(* Also after submission: the status was tested before the file was saved. *)
Upload ==
  /\ stage # "done"
  /\ evidences < MaxEvidences
  /\ evidences' = evidences + 1
  /\ UNCHANGED <<number, typos, stage, withoutFile, approved, context, results, aiRuns>>

LoseFile ==
  /\ stage = "draft"
  /\ evidences > 0
  /\ withoutFile' = TRUE
  /\ UNCHANGED <<number, typos, stage, evidences, approved, context, results, aiRuns>>

(* Matters between the worker's other calls and its reading of the sum.    *)
OthersApproved(sum) ==
  /\ stage = "surroundings"
  /\ approved' = sum
  /\ UNCHANGED <<number, typos, stage, evidences, withoutFile, context, results, aiRuns>>

Submit(spentAt, budget, ai) ==
  /\ stage = "draft"
  /\ number \in SentNumbers
  /\ context' = Blank(spentAt, budget, ai)
  /\ stage' = "extract"
  /\ UNCHANGED <<number, typos, evidences, withoutFile, approved, results, aiRuns>>

----------------------------------------------------------------------------
(* The worker                                                              *)

Log(kind, status) == aiRuns' = aiRuns \union {<<kind, status>>}

(* _extract_first_evidence without evidence, or without an AI.             *)
SkipExtraction ==
  /\ stage = "extract"
  /\ evidences = 0 \/ (~context.ai /\ ~withoutFile)
  /\ stage' = "suggest"
  /\ UNCHANGED <<number, typos, evidences, withoutFile, approved, context, results, aiRuns>>

(* The file cannot be read, or the AI raises.                              *)
FailExtraction ==
  /\ stage = "extract"
  /\ evidences > 0
  /\ withoutFile \/ context.ai
  /\ context' = [context EXCEPT !.extractionFailed = TRUE]
  /\ Log("DOC_EXTRACTION", "FAILED")
  /\ stage' = "suggest"
  /\ UNCHANGED <<number, typos, evidences, withoutFile, approved, results>>

Extract(reply) ==
  /\ stage = "extract"
  /\ evidences > 0
  /\ ~withoutFile /\ context.ai
  /\ context' = [context EXCEPT !.extraction = {Extracted(reply)}]
  /\ Log("DOC_EXTRACTION", "SUCCESS")
  /\ stage' = "suggest"
  /\ UNCHANGED <<number, typos, evidences, withoutFile, approved, results>>

(* _suggest_category: a failure is logged and counts as no suggestion.     *)
Suggest(category) ==
  /\ stage = "suggest"
  /\ context.ai
  /\ context' = [context EXCEPT !.suggestion = {category}]
  /\ Log("CATEGORY_SUGGESTION", "SUCCESS")
  /\ stage' = "vendor"
  /\ UNCHANGED <<number, typos, evidences, withoutFile, approved, results>>

SuggestNothing ==
  /\ stage = "suggest"
  /\ IF context.ai THEN Log("CATEGORY_SUGGESTION", "FAILED") ELSE UNCHANGED aiRuns
  /\ stage' = "vendor"
  /\ UNCHANGED <<number, typos, evidences, withoutFile, approved, context, results>>

(* check_vendor_status is asked only about a number.                       *)
AskVendor(status) ==
  /\ stage = "vendor"
  /\ context' = [context EXCEPT !.vendor = IF number = <<>> THEN {} ELSE {status}]
  /\ stage' = "surroundings"
  /\ UNCHANGED <<number, typos, evidences, withoutFile, approved, results, aiRuns>>

(* Duplicates, calendar and budget.                                        *)
LookAround(duplicates, nonworking) ==
  /\ stage = "surroundings"
  /\ context' = [context EXCEPT !.duplicates = duplicates,
                                !.nonworking = nonworking,
                                !.approved = approved]
  /\ stage' = "rules"
  /\ UNCHANGED <<number, typos, evidences, withoutFile, approved, results, aiRuns>>

(* The evidences are counted last, when the context is built.              *)
RunRules ==
  /\ stage = "rules"
  /\ context' = [context EXCEPT !.evidences = evidences]
  /\ results' = RunAll(context')
  /\ stage' = "done"
  /\ UNCHANGED <<number, typos, evidences, withoutFile, approved, aiRuns>>

(* The attempt raises: everything is rolled back.                          *)
Raise ==
  /\ stage \notin {"draft", "extract", "done"}
  /\ stage' = "extract"
  /\ context' = Blank(context.spentAt, context.budget, context.ai)
  /\ aiRuns' = {}
  /\ UNCHANGED <<number, typos, evidences, withoutFile, approved, results>>

----------------------------------------------------------------------------
VendorAnswers == {"ACTIVE", "SUSPENDED", "CLOSED", "UNREGISTERED", "UNVERIFIED"}

EvaluationInit ==
  /\ number \in FirstNumbers
  /\ typos = 0
  /\ stage = "draft"
  /\ evidences = 0
  /\ withoutFile = FALSE
  /\ approved = 0
  /\ context = Blank(ProjectStart, {}, FALSE)
  /\ results = {}
  /\ aiRuns = {}

EvaluationNext ==
  \/ \E i \in 1 .. 10, d \in 0 .. 9 : Type(i, d)
  \/ \E i \in 1 .. 10 : Omit(i)
  \/ Upload
  \/ LoseFile
  \/ \E sum \in ApprovedSums : OthersApproved(sum)
  \/ \E day \in SpentDays, b \in Budgets, ai \in BOOLEAN : Submit(day, b, ai)
  \/ SkipExtraction
  \/ FailExtraction
  \/ \E reply \in Replies : Extract(reply)
  \/ \E category \in {"own", "other"} : Suggest(category)
  \/ SuggestNothing
  \/ \E status \in VendorAnswers : AskVendor(status)
  \/ \E dup \in BOOLEAN, day \in {"yes", "no", "unknown"} : LookAround(dup, day)
  \/ RunRules
  \/ Raise

EvaluationSpec == EvaluationInit /\ [][EvaluationNext]_evaluationVars

----------------------------------------------------------------------------
(* What a validation without a warning rests on: the first evidence was    *)
(* there when this attempt looked for it and was read, the AI was not      *)
(* unsure, what it read does not name another vendor, and the vendor's     *)
(* number is valid and the tax office calls the vendor active.             *)
ReadAndAsked ==
  /\ <<"DOC_EXTRACTION", "SUCCESS">> \in aiRuns
  /\ <<"DOC_EXTRACTION", "FAILED">> \notin aiRuns
  /\ \E doc \in context.extraction :
       /\ \A k \in doc.confidence : k >= LowConfidence
       /\ doc.bizNo \subseteq {number}
  /\ ValidBizNo(number) /\ context.vendor = {"ACTIVE"}

(* Evidence attached only after the worker looked for it never passes in   *)
(* silence, nor does a failed reading, one of an attempt that raised, or a *)
(* vendor nobody could ask about: the rules see but a context and R-EVD-001*)
(* is content with any evidence, so R-AI-001 has to warn.  Not claimed,    *)
(* because the code lets it pass: files after the first are counted, never *)
(* read; a field the AI did not return, a suggestion that failed and a day *)
(* the calendar does not know are compared with nothing.                   *)
QuietWasRead ==
  /\ EvaluationTypeOK
  /\ stage = "done" /\ Quiet(results) => ReadAndAsked

(* One wrong or missing digit makes a valid business number invalid, so    *)
(* that R-VND-001 catches it (catalog.py:158).                             *)
TypoDetected ==
  [][(ValidBizNo(number) /\ number' # number) => ~ValidBizNo(number')]_evaluationVars
=============================================================================
