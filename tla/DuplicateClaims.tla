-------------------------- MODULE DuplicateClaims --------------------------
(***************************************************************************)
(* Expenses of one project that may claim the same purchase: same vendor,  *)
(* amount and date (_find_duplicates, pipeline.py; R-DUP-001).             *)
(*                                                                         *)
(* The query sees what is committed when it runs; between it and the       *)
(* commit of the results other expenses move on.  An expense has one       *)
(* evaluation at a time and its purchase cannot be edited meanwhile, which *)
(* is what module ExpenseWorkflow shows as long as no worker dies.         *)
(***************************************************************************)
CONSTANTS
  Claims,     \* expenses of a project
  Purchases,  \* vendor number, amount and date
  Unnamed     \* purchases without a vendor number, never compared

ASSUME ClaimsAssumption == Unnamed \subseteq Purchases

VARIABLES
  claimed,  \* the purchase of each expense
  status,   \* its status, DELETED when deleted_at is set
  queried,  \* the evaluation has looked for duplicates
  found,    \* what it found
  warning   \* the results shown to the reviewer carry a warning

claimVars == <<claimed, status, queried, found, warning>>

Statuses == {"DRAFT", "SUBMITTED", "VALIDATING", "NEEDS_REVIEW", "APPROVED",
             "REJECTED", "DELETED"}
Editable == {"DRAFT", "REJECTED"}
Reviewed == {"NEEDS_REVIEW", "APPROVED"}

ClaimsTypeOK ==
  /\ claimed \in [Claims -> Purchases]
  /\ status \in [Claims -> Statuses]
  /\ queried \in [Claims -> BOOLEAN]
  /\ found \in [Claims -> SUBSET Claims]
  /\ warning \in [Claims -> BOOLEAN]
  /\ \A e \in Claims : e \notin found[e]
  /\ \A e \in Claims : status[e] = "SUBMITTED" => found[e] = {}

SamePurchase(e, f) == claimed[e] = claimed[f] /\ claimed[e] \notin Unnamed

----------------------------------------------------------------------------
(* The owner of an expense                                                 *)

Move(e, from, to) ==
  /\ status[e] \in from
  /\ status' = [status EXCEPT ![e] = to]

(* Editing a rejected expense brings it back to DRAFT.                     *)
EditPurchase(e, p) ==
  /\ Move(e, Editable, "DRAFT")
  /\ claimed' = [claimed EXCEPT ![e] = p]
  /\ UNCHANGED <<queried, found, warning>>

DeleteClaim(e) ==
  /\ Move(e, {"DRAFT"}, "DELETED")
  /\ UNCHANGED <<claimed, queried, found, warning>>

(* A new run, whose results are those shown from now on.                   *)
SubmitClaim(e) ==
  /\ Move(e, {"DRAFT"}, "SUBMITTED")
  /\ queried' = [queried EXCEPT ![e] = FALSE]
  /\ found' = [found EXCEPT ![e] = {}]
  /\ warning' = [warning EXCEPT ![e] = FALSE]
  /\ UNCHANGED claimed

----------------------------------------------------------------------------
(* Workers                                                                 *)

BeginClaim(e) ==
  /\ Move(e, {"SUBMITTED"}, "VALIDATING")
  /\ UNCHANGED <<claimed, queried, found, warning>>

(* Variation: only expenses that reached a reviewer are looked at.         *)
ReviewedDuplicates(e) ==
  {f \in Claims \ {e} : SamePurchase(e, f) /\ status[f] \in Reviewed}

(* Rejected and deleted expenses are no duplicates, drafts are.            *)
Duplicates(e) ==
  {f \in Claims \ {e} : SamePurchase(e, f) /\ status[f] \notin {"REJECTED", "DELETED"}}

FindDuplicates(e) ==
  /\ status[e] = "VALIDATING"
  /\ ~queried[e]
  /\ queried' = [queried EXCEPT ![e] = TRUE]
  /\ found' = [found EXCEPT ![e] = Duplicates(e)]
  /\ UNCHANGED <<claimed, status, warning>>

(* The results and NEEDS_REVIEW in one commit; other rules may warn too.   *)
CompleteClaim(e) ==
  /\ queried[e]
  /\ Move(e, {"VALIDATING"}, "NEEDS_REVIEW")
  /\ \/ warning' = [warning EXCEPT ![e] = TRUE]
     \/ found[e] = {} /\ UNCHANGED warning
  /\ UNCHANGED <<claimed, queried, found>>

(* The attempt raises and the run is tried again.                          *)
RaiseClaim(e) ==
  /\ status[e] = "VALIDATING"
  /\ queried[e]
  /\ queried' = [queried EXCEPT ![e] = FALSE]
  /\ found' = [found EXCEPT ![e] = {}]
  /\ UNCHANGED <<claimed, status, warning>>

(* It raised for the last time: R-SYS-001 is a warning.                    *)
GiveUpClaim(e) ==
  /\ Move(e, {"SUBMITTED", "VALIDATING"}, "NEEDS_REVIEW")
  /\ queried' = [queried EXCEPT ![e] = FALSE]
  /\ found' = [found EXCEPT ![e] = {}]
  /\ warning' = [warning EXCEPT ![e] = TRUE]
  /\ UNCHANGED claimed

----------------------------------------------------------------------------
(* Reviewers                                                               *)

ApproveClaim(e) ==
  /\ Move(e, {"NEEDS_REVIEW"}, "APPROVED")
  /\ UNCHANGED <<claimed, queried, found, warning>>

RejectClaim(e) ==
  /\ Move(e, {"NEEDS_REVIEW"}, "REJECTED")
  /\ UNCHANGED <<claimed, queried, found, warning>>

----------------------------------------------------------------------------
ClaimsInit ==
  /\ claimed \in [Claims -> Purchases]
  /\ status = [e \in Claims |-> "DRAFT"]
  /\ queried = [e \in Claims |-> FALSE]
  /\ found = [e \in Claims |-> {}]
  /\ warning = [e \in Claims |-> FALSE]

Claim(e) ==
  \/ \E p \in Purchases : EditPurchase(e, p)
  \/ DeleteClaim(e)
  \/ SubmitClaim(e)
  \/ BeginClaim(e)
  \/ FindDuplicates(e)
  \/ CompleteClaim(e)
  \/ RaiseClaim(e)
  \/ GiveUpClaim(e)
  \/ ApproveClaim(e)
  \/ RejectClaim(e)

ClaimsNext == \E e \in Claims : Claim(e)

ClaimsSpec == ClaimsInit /\ [][ClaimsNext]_claimVars

----------------------------------------------------------------------------
(* Of two expenses in review or approved that claim the same purchase, at  *)
(* least one was shown with a warning, however their evaluations and edits *)
(* overlapped: a double claim never passes both times unnoticed.           *)
DoubleClaimNoticed ==
  /\ ClaimsTypeOK
  /\ \A e, f \in Claims :
       (e # f /\ SamePurchase(e, f) /\ {status[e], status[f]} \subseteq Reviewed)
         => warning[e] \/ warning[f]
=============================================================================
