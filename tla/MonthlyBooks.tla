---------------------------- MODULE MonthlyBooks ----------------------------
(***************************************************************************)
(* What monthly settlement promises: the book of a month is opened once    *)
(* and closed once, by one step each.  Closing settles expenses, each in   *)
(* one month at most and for good, and among them all that the figures     *)
(* count, except those that may be taken back.  The code has no books: it  *)
(* finds out by queries which expenses a month has.                        *)
(***************************************************************************)
CONSTANTS
  Expenses,
  Months,
  LateExpenses  \* expenses that may be taken back after approval

VARIABLES
  book,     \* the state of each month's book
  figures,  \* the expenses its figures count
  total,    \* those its cumulative figure counts
  settled   \* the month each expense is settled in, a set of at most one

vars == <<book, figures, total, settled>>

Init ==
  /\ book = [p \in Months |-> "NONE"]
  /\ figures = [p \in Months |-> {}]
  /\ total = [p \in Months |-> {}]
  /\ settled = [e \in Expenses |-> {}]

(* The figures entered with p: what p counts for good, its total covers.   *)
Entered(p, F) ==
  /\ figures' = [figures EXCEPT ![p] = F]
  /\ \E T \in SUBSET Expenses :
       /\ F \ LateExpenses \subseteq T
       /\ total' = [total EXCEPT ![p] = T]

Open(p) ==
  /\ book[p] = "NONE"
  /\ book' = [book EXCEPT ![p] = "OPEN"]
  /\ \E F \in SUBSET Expenses : Entered(p, F)
  /\ UNCHANGED settled

Close(p) ==
  /\ book[p] = "OPEN"
  /\ book' = [book EXCEPT ![p] = "CLOSED"]
  /\ \E F, S \in SUBSET Expenses :
       /\ Entered(p, F)
       /\ F \ LateExpenses \subseteq S
       /\ \A e \in S : settled[e] = {}
       /\ settled' = [e \in Expenses |-> IF e \in S THEN {p} ELSE settled[e]]

Next == \E p \in Months : Open(p) \/ Close(p)

Spec == Init /\ [][Next]_vars
=============================================================================
