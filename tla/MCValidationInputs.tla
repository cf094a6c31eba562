------------------------- MODULE MCValidationInputs -------------------------
(* The rules and what feeds them, each explored for itself: a component    *)
(* takes steps only while the three others rest in their initial states.   *)
EXTENDS VendorCache, HolidayCalendar, RuleEvaluation, DuplicateClaims, TLC

CONSTANTS c1, c2, s1, s2, l1, e1, e2, e3, p, q, r

MCChecks == {c1, c2}
MCCodes == {"ACTIVE", "CLOSED"}

MCSyncs == {s1, s2}
MCLookups == {l1}
MCDates == {<<1, 1>>, <<1, 2>>, <<2, 1>>}
MCWeekend == {<<1, 2>>}

(* A valid number, and what one wrong digit and one missing make of it.    *)
Good == <<1, 2, 0, 8, 1, 4, 7, 5, 2, 1>>
MCFirstNumbers == {Good, <<>>}
MCSentNumbers == {Good, <<>>, [Good EXCEPT ![10] = 2], SubSeq(Good, 1, 9)}
MCSpentDays == {0, 10, 41}
MCBudgets == {{}, {10}}
MCApprovedSums == {0, 7, 9}
Sure == [amount |-> {2}, issuedAt |-> {10}, bizNo |-> {Good}, confidence |-> {900}]
MCReplies ==
  {Sure, [Sure EXCEPT !.amount = {}], [Sure EXCEPT !.amount = {3}],
   [Sure EXCEPT !.issuedAt = {-1}], [Sure EXCEPT !.confidence = {699}],
   [Sure EXCEPT !.bizNo = {<<1, 2>>}], [Sure EXCEPT !.bizNo = {[Good EXCEPT ![10] = 2]}]}

MCClaims == {e1, e2, e3}
MCPurchases == {p, q, r}
MCUnnamed == {r}

MCSymmetry == Permutations(MCChecks) \union Permutations(MCClaims)

RulesRest == EvaluationInit /\ number = Good
ClaimsRest == ClaimsInit /\ claimed = [e \in Claims |-> p]

MCInit ==
  /\ VendorInit /\ CalendarInit /\ EvaluationInit /\ ClaimsInit
  /\ RulesRest \/ ClaimsRest

VendorAlone ==
  /\ CalendarInit /\ RulesRest /\ ClaimsRest
  /\ VendorNext
  /\ UNCHANGED <<calendarVars, evaluationVars, claimVars>>

CalendarAlone ==
  /\ VendorInit /\ RulesRest /\ ClaimsRest
  /\ CalendarNext
  /\ UNCHANGED <<vendorVars, evaluationVars, claimVars>>

EvaluationAlone ==
  /\ VendorInit /\ CalendarInit /\ ClaimsRest
  /\ EvaluationNext
  /\ UNCHANGED <<vendorVars, calendarVars, claimVars>>

ClaimsAlone ==
  /\ VendorInit /\ CalendarInit /\ RulesRest
  /\ ClaimsNext
  /\ UNCHANGED <<vendorVars, calendarVars, evaluationVars>>

MCNext == VendorAlone \/ CalendarAlone \/ EvaluationAlone \/ ClaimsAlone

MCSpec ==
  MCInit /\ [][MCNext]_<<vendorVars, calendarVars, evaluationVars, claimVars>>
=============================================================================
