------------------------ MODULE CardReconciliation ------------------------
(***************************************************************************)
(* A card statement is matched line by line with the expenses of a project *)
(* (services/reconciliation.py).  Three tiers, from certain to doubtful;   *)
(* within a tier the pair with the smallest difference of dates goes       *)
(* first, then the one with the earlier line.                              *)
(*                                                                         *)
(* The loop over the sorted pairs, which skips those that have lost a side *)
(* meanwhile, is a repeated choice of the best pair with both sides free.  *)
(* Among expenses that fit a line equally well the database's order        *)
(* decides, which the query leaves open.                                   *)
(***************************************************************************)
EXTENDS Integers

CONSTANTS
  Rows,      \* how many rows the statement has below its header
  Cells,     \* what a row may hold: day, number and amount, or Unreadable
  Expenses,  \* rows of table expenses
  Records,   \* what an expense may hold: day, number and amount
  NoNumber,  \* NULL, or a number the parser could not read
  Empty,     \* the number of an expense typed without any digit
  Unreadable,\* a row without date, merchant or amount
  NearDays,  \* NEAR_DAYS
  MaxRows    \* MAX_ROWS

ASSUME CardAssumption ==
  /\ Rows \in Nat /\ NearDays \in Nat /\ MaxRows \in Nat
  /\ NoNumber # Empty
  /\ "none" \notin Expenses
  /\ \A r \in Records \union (Cells \ {Unreadable}) : r.day \in Int
  /\ \A r \in Cells \ {Unreadable} : r.number # Empty

Line == 1 .. Rows

VARIABLES
  statement, \* the rows of the file
  wellFormed,\* size, encoding and header are as they have to be
  expense,   \* the fields of each expense
  counted,   \* the expenses neither rejected nor deleted
  lines,     \* the rows that were read
  tier,      \* the tier being matched, 0 before, 4 after the last, 5 when stored
  match,     \* the expense of each line
  matchStatus,
  unmatched  \* unmatched_expense_ids of the stored result

NoExpense == "none"
fileVars == <<statement, wellFormed, expense, counted>>
cardVars == <<fileVars, lines, tier, match, matchStatus, unmatched>>

Tiers == 1 .. 3
StatusOf == <<"MATCHED", "MATCHED_NEAR", "CANDIDATE">>

CardTypeOK ==
  /\ statement \in [Line -> Cells]
  /\ expense \in [Expenses -> Records]
  /\ counted \subseteq Expenses
  /\ lines \subseteq Line
  /\ tier \in 0 .. 5
  /\ match \in [Line -> Expenses \union {NoExpense}]
  /\ matchStatus \in [Line -> {"UNMATCHED"} \union {StatusOf[t] : t \in Tiers}]
  /\ \A l \in Line : match[l] # NoExpense => l \in lines /\ match[l] \in counted
  /\ unmatched \subseteq counted
  /\ \A l \in Line : matchStatus[l] = "UNMATCHED" <=> match[l] = NoExpense

----------------------------------------------------------------------------
(* Pairs                                                                   *)

Gap(l, e) ==
  LET d == statement[l].day - expense[e].day IN IF d < 0 THEN -d ELSE d

SameAmount(l, e) == statement[l].amount = expense[e].amount

(* by_exact and by_biz_amount hold no expense without digits, and a line   *)
(* whose number was not read does not ask them.                            *)
SameNumber(l, e) ==
  /\ statement[l].number = expense[e].number
  /\ statement[l].number # NoNumber

(* An empty number is not NULL: such an expense is candidate only of a     *)
(* line without a number.                                                  *)
NumberMissing(l, e) == statement[l].number = NoNumber \/ expense[e].number = NoNumber

(* What candidates_of yields in each tier.                                 *)
Fits(t, l, e) ==
  /\ SameAmount(l, e)
  /\ \/ t = 1 /\ SameNumber(l, e) /\ Gap(l, e) = 0
     \/ t = 2 /\ SameNumber(l, e) /\ Gap(l, e) <= NearDays
     \/ t = 3 /\ NumberMissing(l, e) /\ Gap(l, e) = 0

Unused(e) == e \in counted /\ \A l \in Line : match[l] # e

(* Variation: expenses already matched are not left out.                   *)
OpenIgnoringUsed(t, l, e) ==
  l \in lines /\ match[l] = NoExpense /\ e \in counted /\ Fits(t, l, e)

Open(t, l, e) == l \in lines /\ match[l] = NoExpense /\ Unused(e) /\ Fits(t, l, e)

(* The sort key: difference of dates, then row number.                     *)
NoWorse(l, e, m, f) == Gap(l, e) < Gap(m, f) \/ (Gap(l, e) = Gap(m, f) /\ l <= m)

----------------------------------------------------------------------------
(* parse_statement_csv: a file with a wrong form, too many rows or none    *)
(* that can be read is refused; otherwise unreadable rows are skipped, and *)
(* the others keep their number.                                           *)
Readable == {l \in Line : statement[l] # Unreadable}

Parse ==
  /\ tier = 0
  /\ wellFormed /\ Rows <= MaxRows /\ Readable # {}
  /\ lines' = Readable
  /\ tier' = 1
  /\ UNCHANGED <<fileVars, match, matchStatus, unmatched>>

(* Variation: the pairs of a tier are not sorted by their distance.        *)
AssignByLine(l, e) ==
  /\ tier \in Tiers
  /\ Open(tier, l, e)
  /\ \A m \in Line, f \in Expenses : Open(tier, m, f) => l <= m
  /\ match' = [match EXCEPT ![l] = e]
  /\ matchStatus' = [matchStatus EXCEPT ![l] = StatusOf[tier]]
  /\ UNCHANGED <<fileVars, lines, tier, unmatched>>

(* One assignment of assign(tier).                                         *)
Assign(l, e) ==
  /\ tier \in Tiers
  /\ Open(tier, l, e)
  /\ \A m \in Line, f \in Expenses : Open(tier, m, f) => NoWorse(l, e, m, f)
  /\ match' = [match EXCEPT ![l] = e]
  /\ matchStatus' = [matchStatus EXCEPT ![l] = StatusOf[tier]]
  /\ UNCHANGED <<fileVars, lines, tier, unmatched>>

NextTier ==
  /\ tier \in Tiers
  /\ \A l \in Line, e \in Expenses : ~Open(tier, l, e)
  /\ tier' = tier + 1
  /\ UNCHANGED <<fileVars, lines, match, matchStatus, unmatched>>

(* run_reconciliation stores the lines with the expenses that are left.    *)
Store ==
  /\ tier = 4
  /\ unmatched' = {e \in Expenses : Unused(e)}
  /\ tier' = 5
  /\ UNCHANGED <<fileVars, lines, match, matchStatus>>

----------------------------------------------------------------------------
CardInit ==
  /\ statement \in [Line -> Cells]
  /\ wellFormed \in BOOLEAN
  /\ expense \in [Expenses -> Records]
  /\ counted \in SUBSET Expenses
  /\ lines = {}
  /\ tier = 0
  /\ match = [l \in Line |-> NoExpense]
  /\ matchStatus = [l \in Line |-> "UNMATCHED"]
  /\ unmatched = {}

CardNext ==
  \/ Parse
  \/ \E l \in Line, e \in Expenses : Assign(l, e)
  \/ NextTier
  \/ Store

CardSpec == CardInit /\ [][CardNext]_cardVars

----------------------------------------------------------------------------
(* No expense is matched with two lines: a purchase charged twice on the   *)
(* card cannot hide behind one expense (reconciliation.py:13-14).  And the *)
(* stored result accounts for every expense, by a line or as left over.    *)
(* Types are kept with it.                                                 *)
OneToOne ==
  /\ CardTypeOK
  /\ \A l, m \in Line : match[l] = match[m] /\ match[l] # NoExpense => l = m
  /\ tier = 5 => counted \subseteq unmatched \union {match[l] : l \in lines}

(* The best tier in which a line and an expense fit, 4 for none.           *)
BestTier(l, e) ==
  IF Fits(1, l, e) THEN 1 ELSE IF Fits(2, l, e) THEN 2 ELSE IF Fits(3, l, e) THEN 3 ELSE 4

(* The pair (l, e) is at least as good as the pair (m, f).                 *)
AtLeastAsGood(l, e, m, f) ==
  \/ BestTier(l, e) < BestTier(m, f)
  \/ BestTier(l, e) = BestTier(m, f) /\ NoWorse(l, e, m, f)

(* Line l and expense e do not lose by the matching: one of them has a     *)
(* partner at least as good.                                               *)
Served(l, e) ==
  \/ match[l] # NoExpense /\ AtLeastAsGood(l, match[l], l, e)
  \/ \E m \in Line : match[m] = e /\ AtLeastAsGood(m, e, l, e)

(* The status a line is given says how well it really fits.                *)
StatusHonest ==
  \A l \in lines : match[l] # NoExpense =>
    matchStatus[l] = StatusOf[BestTier(l, match[l])]

(* At the end no line and expense that fit each other are both unmatched,  *)
(* nor both matched in a worse tier, at a greater distance or with a later *)
(* line: the greedy order overlooks no better pair, and of two equal lines *)
(* it is the second that stays unmatched (reconciliation.py:6-14).  And    *)
(* all the while the status of a line is honest.                           *)
NoBetterPairMissed ==
  /\ StatusHonest
  /\ tier \in {4, 5} =>
       \A l \in lines, e \in counted : BestTier(l, e) \in Tiers => Served(l, e)
=============================================================================
