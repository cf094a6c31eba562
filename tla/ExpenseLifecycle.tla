-------------------------- MODULE ExpenseLifecycle --------------------------
(***************************************************************************)
(* What the expense workflow promises: the state machine drawn at the head *)
(* of services/expense.py, with no queue and no workers.  A submission is  *)
(* judged once, as it was submitted, and a reviewer decides on that        *)
(* verdict; an approved expense stays approved.                            *)
(***************************************************************************)
CONSTANTS Expenses

VARIABLES
  status,    \* where each expense stands, "DELETED" when soft-deleted
  content,   \* "sound", or "failing" when it breaks a FAIL rule
  verdict,   \* the results of the current submission, {} while it has none
  decision   \* the newest decision

vars == <<status, content, verdict, decision>>

Init ==
  /\ status = [e \in Expenses |-> "ABSENT"]
  /\ content = [e \in Expenses |-> "sound"]
  /\ verdict = [e \in Expenses |-> {}]
  /\ decision = [e \in Expenses |-> "none"]

(* Expense e goes from a status in From to a status To.                    *)
Move(e, From, To) ==
  /\ status[e] \in From
  /\ status' = [status EXCEPT ![e] = To]

(* A new expense, an edited draft, or a rejected expense taken up again.   *)
Write(e, c) ==
  /\ Move(e, {"ABSENT", "DRAFT", "REJECTED"}, "DRAFT")
  /\ content' = [content EXCEPT ![e] = c]
  /\ UNCHANGED <<verdict, decision>>

Delete(e) ==
  /\ Move(e, {"DRAFT"}, "DELETED")
  /\ UNCHANGED <<content, verdict, decision>>

Submit(e) ==
  /\ Move(e, {"DRAFT"}, "SUBMITTED")
  /\ verdict' = [verdict EXCEPT ![e] = {}]
  /\ UNCHANGED <<content, decision>>

BeginValidation(e) ==
  /\ Move(e, {"SUBMITTED"}, "VALIDATING")
  /\ UNCHANGED <<content, verdict, decision>>

(* The rules' verdict on the content.                                      *)
Validate(e) ==
  /\ Move(e, {"VALIDATING"}, "NEEDS_REVIEW")
  /\ verdict' = [verdict EXCEPT ![e] =
                    {IF content[e] = "failing" THEN "FAIL" ELSE "PASS"}]
  /\ UNCHANGED <<content, decision>>

(* Validation failed for good: a person reviews without a verdict.         *)
HandOver(e) ==
  /\ Move(e, {"SUBMITTED", "VALIDATING"}, "NEEDS_REVIEW")
  /\ verdict' = [verdict EXCEPT ![e] = {"SYS"}]
  /\ UNCHANGED <<content, decision>>

Approve(e) ==
  /\ Move(e, {"NEEDS_REVIEW"}, "APPROVED")
  /\ decision' = [decision EXCEPT ![e] =
                     IF "FAIL" \in verdict[e] THEN "override" ELSE "approve"]
  /\ UNCHANGED <<content, verdict>>

Reject(e) ==
  /\ Move(e, {"NEEDS_REVIEW"}, "REJECTED")
  /\ decision' = [decision EXCEPT ![e] = "reject"]
  /\ UNCHANGED <<content, verdict>>

Next ==
  \E e \in Expenses :
    \/ \E c \in {"sound", "failing"} : Write(e, c)
    \/ Delete(e)
    \/ Submit(e)
    \/ BeginValidation(e)
    \/ Validate(e)
    \/ HandOver(e)
    \/ Approve(e)
    \/ Reject(e)

Spec == Init /\ [][Next]_vars
=============================================================================
