---------------------------- MODULE RuleCatalog ----------------------------
(***************************************************************************)
(* The fifteen validation rules (rules/catalog.py): each maps the context  *)
(* of an expense to the set of its results, of which there is one or, when *)
(* the rule does not apply, none.                                          *)
(*                                                                         *)
(* A value that may be missing is a set of at most one element.  A date is *)
(* the number of a day, a confidence a number of thousandths, a business   *)
(* number the sequence of its digits, empty when there is none.            *)
(***************************************************************************)
EXTENDS Integers, Sequences

LowConfidence    == 700  \* LOW_CONFIDENCE_THRESHOLD
EndingSoon       == 30   \* PERIOD_ENDING_SOON_DAYS
BudgetWarnTenths == 8    \* BUDGET_WARN_RATIO

Verdict(rule, holds, otherwise) ==
  [rule |-> rule, severity |-> IF holds THEN "PASS" ELSE otherwise]

Finding(rule, severity, applies) ==
  IF applies THEN {[rule |-> rule, severity |-> severity]} ELSE {}

(* What the AI read of the evidence in one field.                          *)
Read(c, field) == UNION {doc[field] : doc \in c.extraction}

----------------------------------------------------------------------------
(* Evidence                                                                *)

R_EVD_001(c) == {Verdict("R-EVD-001", c.evidences > 0, "FAIL")}

R_EVD_002(c) ==
  {Verdict("R-EVD-002", amount = c.amount, "FAIL") : amount \in Read(c, "amount")}

R_EVD_003(c) ==
  {Verdict("R-EVD-003", day = c.spentAt, "WARN") : day \in Read(c, "issuedAt")}

R_EVD_004(c) ==
  {Verdict("R-EVD-004", number = c.bizNo, "FAIL") :
     number \in {n \in Read(c, "bizNo") : c.bizNo # <<>>}}

----------------------------------------------------------------------------
(* Period and budget                                                       *)

R_PRD_001(c) ==
  {Verdict("R-PRD-001", c.start <= c.spentAt /\ c.spentAt <= c.end, "FAIL")}

R_PRD_002(c) ==
  Finding("R-PRD-002", "INFO",
          c.end - EndingSoon <= c.spentAt /\ c.spentAt <= c.end)

AfterApproval(c) == c.approved + c.amount

R_BGT_001(c) ==
  {Verdict("R-BGT-001", \E b \in c.budget : AfterApproval(c) <= b, "FAIL")}

R_BGT_002(c) ==
  Finding("R-BGT-002", "WARN",
          \E b \in c.budget \ {0} : /\ AfterApproval(c) <= b
                                    /\ 10 * AfterApproval(c) > BudgetWarnTenths * b)

----------------------------------------------------------------------------
(* Vendor                                                                  *)

(* The digits by their weights: 1, 3 and 7 in turn, then 5.                *)
Ones(n)   == n[1] + n[4] + n[7]
Threes(n) == n[2] + n[5] + n[8]
Sevens(n) == n[3] + n[6]

(* Variation: the carry of the ninth digit is left out.                    *)
DigitSumWithoutCarry(n) == Ones(n) + 3 * Threes(n) + 7 * Sevens(n) + 5 * n[9]

DigitSum(n) ==
  Ones(n) + 3 * Threes(n) + 7 * Sevens(n) + 5 * n[9] + (5 * n[9]) \div 10

ValidBizNo(n) == Len(n) = 10 /\ (10 - (DigitSum(n) % 10)) % 10 = n[10]

R_VND_001(c) ==
  IF c.bizNo = <<>> THEN {[rule |-> "R-VND-001", severity |-> "WARN"]}
                    ELSE {Verdict("R-VND-001", ValidBizNo(c.bizNo), "FAIL")}

R_VND_002(c) ==
  {Verdict("R-VND-002", s = "ACTIVE", IF s = "SUSPENDED" THEN "WARN" ELSE "FAIL") :
     s \in c.vendor \ {"UNVERIFIED"}}

R_VND_003(c) == Finding("R-VND-003", "WARN", "UNVERIFIED" \in c.vendor)

----------------------------------------------------------------------------
(* Duplicates, calendar, and what the AI supplied                          *)

R_DUP_001(c) == {Verdict("R-DUP-001", ~c.duplicates, "WARN")}

R_DAY_001(c) == Finding("R-DAY-001", "WARN", c.nonworking = "yes")

(* Variation: only a failed extraction is reported, not a missing one.     *)
R_AI_001_Failed(c) ==
  IF ~c.ai \/ c.extractionFailed
    THEN {[rule |-> "R-AI-001", severity |-> "WARN"]}
    ELSE {Verdict("R-AI-001", \A k \in doc.confidence : k >= LowConfidence, "WARN") :
            doc \in c.extraction}

R_AI_001(c) ==
  IF ~c.ai \/ c.extractionFailed \/ (c.evidences > 0 /\ c.extraction = {})
    THEN {[rule |-> "R-AI-001", severity |-> "WARN"]}
    ELSE {Verdict("R-AI-001", \A k \in doc.confidence : k >= LowConfidence, "WARN") :
            doc \in c.extraction}

R_CAT_001(c) ==
  {Verdict("R-CAT-001", s = c.category, "WARN") : s \in c.suggestion}

(* run_all over ALL_RULES.                                                 *)
RunAll(c) ==
  R_EVD_001(c) \union R_EVD_002(c) \union R_EVD_003(c) \union R_EVD_004(c)
  \union R_PRD_001(c) \union R_PRD_002(c)
  \union R_BGT_001(c) \union R_BGT_002(c)
  \union R_VND_001(c) \union R_VND_002(c) \union R_VND_003(c)
  \union R_DUP_001(c) \union R_DAY_001(c) \union R_AI_001(c) \union R_CAT_001(c)

(* Nothing that a reviewer is warned of.                                   *)
Quiet(results) == \A r \in results : r.severity \in {"PASS", "INFO"}
=============================================================================
