----------------------- MODULE ValidationInputsProofs -----------------------
(***************************************************************************)
(* For every set of expenses, purchases, syncs and lookups, any numbers,   *)
(* dates, budgets and answers of the AI: a double claim is noticed, a      *)
(* synced holiday is flagged, a mistyped business number is caught, and a  *)
(* validation without a warning rests on evidence that was read.           *)
(***************************************************************************)
EXTENDS RuleEvaluation, HolidayCalendar, DuplicateClaims, SequenceTheorems, TLAPS

----------------------------------------------------------------------------
(* Double claims.  Of two evaluations the one that queries later sees the  *)
(* other's expense, because an expense that is being validated or reviewed *)
(* is neither rejected nor deleted.                                        *)

(* An evaluation that has queried, or whose result is in review.           *)
Looked(e) == (status[e] = "VALIDATING" /\ queried[e]) \/ status[e] \in Reviewed

Warned(e) == status[e] \in Reviewed /\ warning[e]

(* A submission starts with nothing found.                                 *)
FreshStart == \A e \in Claims : status[e] = "SUBMITTED" => ~queried[e]

FoundIsShown == \A e \in Claims : status[e] \in Reviewed /\ found[e] # {} => warning[e]

LaterSeesEarlier ==
  \A e, f \in Claims :
    e # f /\ SamePurchase(e, f) /\ Looked(e) /\ Looked(f)
      => f \in found[e] \/ e \in found[f] \/ Warned(e) \/ Warned(f)

ClaimsInv == ClaimsTypeOK /\ FreshStart /\ FoundIsShown /\ LaterSeesEarlier

----------------------------------------------------------------------------
(* The initial states have nothing under evaluation.                       *)
LEMMA ClaimsInitInv == ClaimsInit => ClaimsInv
BY DEF ClaimsInit, ClaimsInv, ClaimsTypeOK, FreshStart, FoundIsShown,
       LaterSeesEarlier, Looked, Reviewed, Statuses

(* Every step preserves the invariant.                                     *)
LEMMA ClaimsNextInv == ClaimsInv /\ [ClaimsNext]_claimVars => ClaimsInv'
<1> SUFFICES ASSUME ClaimsInv, [ClaimsNext]_claimVars PROVE ClaimsInv'
  OBVIOUS
<1> USE DEF ClaimsInv, ClaimsTypeOK, FreshStart, FoundIsShown, LaterSeesEarlier,
            Looked, Warned, SamePurchase, Reviewed, Editable, Statuses, Move
<1>1. CASE UNCHANGED claimVars
  BY <1>1 DEF claimVars
<1>2. ASSUME NEW e \in Claims, NEW p \in Purchases, EditPurchase(e, p)
      PROVE  ClaimsInv'
  BY <1>2 DEF EditPurchase
<1>3. ASSUME NEW e \in Claims, DeleteClaim(e) PROVE ClaimsInv'
  BY <1>3 DEF DeleteClaim
<1>4. ASSUME NEW e \in Claims, SubmitClaim(e) PROVE ClaimsInv'
  BY <1>4 DEF SubmitClaim
<1>5. ASSUME NEW e \in Claims, BeginClaim(e) PROVE ClaimsInv'
  BY <1>5 DEF BeginClaim
<1>6. ASSUME NEW e \in Claims, FindDuplicates(e) PROVE ClaimsInv'
  BY <1>6 DEF FindDuplicates, Duplicates
<1>7. ASSUME NEW e \in Claims, CompleteClaim(e) PROVE ClaimsInv'
  <2>1. /\ status[e] = "VALIDATING" /\ queried[e]
        /\ status' = [status EXCEPT ![e] = "NEEDS_REVIEW"]
        /\ UNCHANGED <<claimed, queried, found>>
    BY <1>7 DEF CompleteClaim
  <2>2. CASE warning' = [warning EXCEPT ![e] = TRUE]
    BY <2>1, <2>2
  <2>3. CASE found[e] = {} /\ UNCHANGED warning
    BY <2>1, <2>3
  <2> QED
    BY <1>7, <2>2, <2>3 DEF CompleteClaim
<1>8. ASSUME NEW e \in Claims, RaiseClaim(e) PROVE ClaimsInv'
  BY <1>8 DEF RaiseClaim
<1>9. ASSUME NEW e \in Claims, GiveUpClaim(e) PROVE ClaimsInv'
  BY <1>9 DEF GiveUpClaim
<1>10. ASSUME NEW e \in Claims, ApproveClaim(e) PROVE ClaimsInv'
  BY <1>10 DEF ApproveClaim
<1>11. ASSUME NEW e \in Claims, RejectClaim(e) PROVE ClaimsInv'
  BY <1>11 DEF RejectClaim
<1> QED
  BY <1>1, <1>2, <1>3, <1>4, <1>5, <1>6, <1>7, <1>8, <1>9, <1>10, <1>11
     DEF ClaimsNext, Claim

(* The invariant is what the reviewers need.                               *)
LEMMA ClaimsInvNoticed == ClaimsInv => DoubleClaimNoticed
BY DEF ClaimsInv, DoubleClaimNoticed, FoundIsShown, LaterSeesEarlier, Looked,
       Warned, SamePurchase, ClaimsTypeOK

(* A double claim never passes both times unnoticed: of two expenses in    *)
(* review or approved that claim the same purchase, one carries a warning  *)
(* (_find_duplicates, pipeline.py).                                        *)
THEOREM DoubleClaimNoticedAlways == ClaimsSpec => []DoubleClaimNoticed
<1>1. ClaimsInit => ClaimsInv
  BY ClaimsInitInv
<1>2. ClaimsInv /\ [ClaimsNext]_claimVars => ClaimsInv'
  BY ClaimsNextInv
<1>3. ClaimsInv => DoubleClaimNoticed
  BY ClaimsInvNoticed
<1> QED
  BY <1>1, <1>2, <1>3, PTL DEF ClaimsSpec

----------------------------------------------------------------------------
(* Holidays.  A run that missed nothing holds, in the table or among the   *)
(* rows it will add, every date of the months behind it that was listed    *)
(* when it began; a lookup that missed a date missed no assured one.       *)

SyncCovers ==
  \A s \in Syncs : month[s] # 0 /\ ~missed[s] =>
    \A d \in began[s] : d[1] < month[s] => d \in pending[s] \union holidays

LookupSound ==
  \A l \in Lookups :
    /\ assuredAt[l] \subseteq holidays
    /\ asked[l] # NoDate => asked[l] \notin assuredAt[l]

CalendarInv ==
  /\ CalendarTypeOK
  /\ assured \subseteq holidays
  /\ \A s \in Syncs : pending[s] \union began[s] \subseteq listed
  /\ SyncCovers
  /\ LookupSound
  /\ SyncedHolidayFlagged

(* A date has a month.                                                     *)
LEMMA DatesHaveMonths == \A d \in Dates : d[1] \in 1 .. Months
BY HolidayAssumption

(* Initially nothing is known and nothing runs.                            *)
LEMMA CalendarInitInv == CalendarInit => CalendarInv
BY HolidayAssumption, DatesHaveMonths
   DEF CalendarInit, CalendarInv, CalendarTypeOK, SyncCovers, LookupSound,
       SyncedHolidayFlagged, Nothing, NoDate

(* Every step preserves the invariant.                                     *)
LEMMA CalendarNextInv == CalendarInv /\ [CalendarNext]_calendarVars => CalendarInv'
<1> SUFFICES ASSUME CalendarInv, [CalendarNext]_calendarVars PROVE CalendarInv'
  OBVIOUS
<1> USE HolidayAssumption, DatesHaveMonths
    DEF CalendarInv, CalendarTypeOK, SyncCovers, LookupSound,
        SyncedHolidayFlagged, syncVars, lookupVars
<1>1. CASE UNCHANGED calendarVars
  BY <1>1 DEF calendarVars
<1>2. ASSUME NEW d \in Dates, Announce(d) PROVE CalendarInv'
  BY <1>2 DEF Announce
<1>3. ASSUME NEW s \in Syncs, BeginSync(s) PROVE CalendarInv'
  BY <1>3 DEF BeginSync
<1>4. ASSUME NEW s \in Syncs, FetchMonth(s) PROVE CalendarInv'
  <2>1. /\ month[s] \in 1 .. Months
        /\ month' = [month EXCEPT ![s] = month[s] + 1]
        /\ pending' = [pending EXCEPT ![s] = pending[s] \union NewDates(s)]
        /\ UNCHANGED <<listed, holidays, assured, missed, began, asked, assuredAt, said>>
    BY <1>4 DEF FetchMonth
  <2>2. doubled' \in [Syncs -> BOOLEAN]
    BY <1>4 DEF FetchMonth
  <2>3. NewDates(s) \subseteq listed /\ \A d \in NewDates(s) : d[1] = month[s]
    BY DEF NewDates
  <2>4. /\ month' \in [Syncs -> 0 .. Months + 1]
        /\ pending' \in [Syncs -> SUBSET Dates]
    BY <2>1, <2>3
  <2>5. \A t \in Syncs : \A d \in pending'[t] : d[1] < month'[t] /\ d \in listed
    BY <2>1, <2>3
  <2>6. SyncCovers'
    <3> SUFFICES ASSUME NEW t \in Syncs, month'[t] # 0, ~missed[t],
                        NEW d \in began[t], d[1] < month'[t]
                 PROVE  d \in pending'[t] \union holidays
      BY <2>1
    <3>1. CASE t # s
      BY <2>1, <3>1
    <3>2. CASE t = s /\ d[1] < month[s]
      BY <2>1, <3>2
    <3>3. CASE t = s /\ d[1] = month[s]
      BY <2>1, <3>3 DEF NewDates
    <3> QED
      BY <2>1, <3>1, <3>2, <3>3
  <2> QED
    BY <2>1, <2>2, <2>4, <2>5, <2>6
<1>5. ASSUME NEW s \in Syncs, MissMonth(s) PROVE CalendarInv'
  BY <1>5 DEF MissMonth
<1>6. ASSUME NEW s \in Syncs, CommitSync(s) PROVE CalendarInv'
  BY <1>6 DEF CommitSync, EndSync
<1>7. ASSUME NEW s \in Syncs, FailSync(s) PROVE CalendarInv'
  BY <1>7 DEF FailSync, EndSync
<1>8. ASSUME NEW l \in Lookups, NEW d \in Dates, FindDate(l, d) PROVE CalendarInv'
  BY <1>8 DEF FindDate, Say
<1>9. ASSUME NEW l \in Lookups, NEW d \in Dates, MissDate(l, d) PROVE CalendarInv'
  BY <1>9 DEF MissDate
<1>10. ASSUME NEW l \in Lookups, CountYear(l) PROVE CalendarInv'
  BY <1>10 DEF CountYear, Say
<1> QED
  BY <1>1, <1>2, <1>3, <1>4, <1>5, <1>6, <1>7, <1>8, <1>9, <1>10 DEF CalendarNext

(* Whatever syncs fail, miss months or overlap, no lookup takes a holiday  *)
(* for a working day that a complete sync had stored before it began       *)
(* (sync_year and is_nonworking_day, external/holidays.py).                *)
THEOREM SyncedHolidaysFlagged == CalendarSpec => []SyncedHolidayFlagged
<1>1. CalendarInit => CalendarInv
  BY CalendarInitInv
<1>2. CalendarInv /\ [CalendarNext]_calendarVars => CalendarInv'
  BY CalendarNextInv
<1>3. CalendarInv => SyncedHolidayFlagged
  BY DEF CalendarInv
<1> QED
  BY <1>1, <1>2, <1>3, PTL DEF CalendarSpec

----------------------------------------------------------------------------
(* Business numbers.  Nine digits count 1, 3, 7, 1, 3, 7, 1, 3 and, with   *)
(* the carry, the ninth one of ten different sums modulo 10.               *)

(* The check digit tells sums apart that differ modulo 10.                 *)
LEMMA SameCheckDigit ==
  ASSUME NEW s \in Nat, NEW t \in Nat,
         (10 - (s % 10)) % 10 = (10 - (t % 10)) % 10
  PROVE  s % 10 = t % 10
OBVIOUS

(* Weights prime to 10 make another digit another remainder.               *)
LEMMA WeightTellsDigits ==
  ASSUME NEW s \in Nat, NEW w \in {1, 3, 7}, NEW x \in -9 .. 9,
         s + w * x \in Nat, s % 10 = (s + w * x) % 10
  PROVE  x = 0
<1>1. CASE w = 1
  BY <1>1
<1>2. CASE w = 3
  BY <1>2
<1>3. CASE w = 7
  BY <1>3
<1> QED
  BY <1>1, <1>2, <1>3

(* 5 is not, the carry makes up for it.                                    *)
LEMMA CarryTellsDigits ==
  ASSUME NEW s \in Nat, NEW a \in 0 .. 9, NEW b \in 0 .. 9,
         (s + 5 * a + (5 * a) \div 10) % 10 = (s + 5 * b + (5 * b) \div 10) % 10
  PROVE  a = b
<1> DEFINE Sum(x) == 5 * x + (5 * x) \div 10
<1>1. \A x \in 0 .. 9 : Sum(x) = 5 * x + (x \div 2)
  OBVIOUS
<1>2. \A x \in 0 .. 9 : Sum(x) % 10 = IF x % 2 = 0 THEN x \div 2 ELSE 5 + x \div 2
  BY <1>1
<1> QED
  BY <1>2

(* The parts of the sum are numbers.                                       *)
LEMMA PartsTyped ==
  ASSUME NEW n, \A j \in 1 .. 10 : n[j] \in 0 .. 9
  PROVE  Ones(n) \in Nat /\ Threes(n) \in Nat /\ Sevens(n) \in Nat
<1>1. Ones(n) \in Nat
  BY DEF Ones
<1>2. Threes(n) \in Nat
  BY DEF Threes
<1>3. Sevens(n) \in Nat
  BY DEF Sevens
<1> QED
  BY <1>1, <1>2, <1>3

(* Another digit changes one of them, by the difference.                   *)
LEMMA PartsChange ==
  ASSUME NEW n, \A j \in 1 .. 10 : n[j] \in 0 .. 9,
         NEW k, NEW i \in 1 .. 10, NEW d \in 0 .. 9,
         \A j \in 1 .. 10 : k[j] = IF j = i THEN d ELSE n[j]
  PROVE  /\ IF i \in {1, 4, 7} THEN Ones(k) = Ones(n) + (d - n[i])
                               ELSE Ones(k) = Ones(n)
         /\ IF i \in {2, 5, 8} THEN Threes(k) = Threes(n) + (d - n[i])
                               ELSE Threes(k) = Threes(n)
         /\ IF i \in {3, 6} THEN Sevens(k) = Sevens(n) + (d - n[i])
                            ELSE Sevens(k) = Sevens(n)
<1>1. CASE i \in {1, 4, 7}
  <2>1. Ones(k) = Ones(n) + (d - n[i])
    <3>1. CASE i = 1
      BY <3>1 DEF Ones
    <3>2. CASE i = 4
      BY <3>2 DEF Ones
    <3>3. CASE i = 7
      <4>1. n[1] \in Int /\ n[4] \in Int /\ n[7] \in Int /\ d \in Int
        OBVIOUS
      <4>2. k[1] = n[1] /\ k[4] = n[4] /\ k[7] = d
        BY <3>3
      <4> QED
        BY <3>3, <4>1, <4>2 DEF Ones
    <3> QED
      BY <1>1, <3>1, <3>2, <3>3
  <2>2. Threes(k) = Threes(n)
    BY <1>1 DEF Threes
  <2>3. Sevens(k) = Sevens(n)
    BY <1>1 DEF Sevens
  <2> QED
    BY <1>1, <2>1, <2>2, <2>3
<1>2. CASE i \in {2, 5, 8}
  <2>1. Ones(k) = Ones(n)
    BY <1>2 DEF Ones
  <2>2. Threes(k) = Threes(n) + (d - n[i])
    <3>1. CASE i = 2
      BY <3>1 DEF Threes
    <3>2. CASE i = 5
      BY <3>2 DEF Threes
    <3>3. CASE i = 8
      BY <3>3 DEF Threes
    <3> QED
      BY <1>2, <3>1, <3>2, <3>3
  <2>3. Sevens(k) = Sevens(n)
    BY <1>2 DEF Sevens
  <2> QED
    BY <1>2, <2>1, <2>2, <2>3
<1>3. CASE i \in {3, 6}
  <2>1. Ones(k) = Ones(n)
    BY <1>3 DEF Ones
  <2>2. Threes(k) = Threes(n)
    BY <1>3 DEF Threes
  <2>3. Sevens(k) = Sevens(n) + (d - n[i])
    BY <1>3 DEF Sevens
  <2> QED
    BY <1>3, <2>1, <2>2, <2>3
<1>4. CASE i \in {9, 10}
  <2>1. Ones(k) = Ones(n)
    BY <1>4 DEF Ones
  <2>2. Threes(k) = Threes(n)
    BY <1>4 DEF Threes
  <2>3. Sevens(k) = Sevens(n)
    BY <1>4 DEF Sevens
  <2> QED
    BY <1>4, <2>1, <2>2, <2>3
<1> QED
  BY <1>1, <1>2, <1>3, <1>4

(* The sum of a number's digits is a number.                              *)
LEMMA SumTyped ==
  ASSUME NEW n, Ones(n) \in Nat, Threes(n) \in Nat, Sevens(n) \in Nat, n[9] \in 0 .. 9
  PROVE  DigitSum(n) \in Nat
<1>1. (5 * n[9]) \div 10 \in Nat
  OBVIOUS
<1> QED
  BY <1>1 DEF DigitSum

(* A wrong digit of a valid number is noticed.                             *)
LEMMA WrongDigitInvalid ==
  ASSUME NEW n, Len(n) = 10, \A j \in 1 .. 10 : n[j] \in 0 .. 9,
         NEW k, NEW i \in 1 .. 10, NEW d \in 0 .. 9, d # n[i],
         \A j \in 1 .. 10 : k[j] = IF j = i THEN d ELSE n[j],
         ValidBizNo(n)
  PROVE  ~ValidBizNo(k)
<1> DEFINE x == d - n[i]
<1>1. x \in -9 .. 9 /\ x # 0
  OBVIOUS
<1>2. /\ Ones(n) \in Nat /\ Threes(n) \in Nat /\ Sevens(n) \in Nat
      /\ Ones(k) \in Nat /\ Threes(k) \in Nat /\ Sevens(k) \in Nat
  <2>1. \A j \in 1 .. 10 : k[j] \in 0 .. 9
    OBVIOUS
  <2> QED
    BY <2>1, PartsTyped
<1>3. n[9] \in 0 .. 9 /\ k[9] \in 0 .. 9
  OBVIOUS
<1>4. /\ IF i \in {1, 4, 7} THEN Ones(k) = Ones(n) + x ELSE Ones(k) = Ones(n)
      /\ IF i \in {2, 5, 8} THEN Threes(k) = Threes(n) + x ELSE Threes(k) = Threes(n)
      /\ IF i \in {3, 6} THEN Sevens(k) = Sevens(n) + x ELSE Sevens(k) = Sevens(n)
  BY PartsChange
<1>5. k[9] = (IF i = 9 THEN d ELSE n[9]) /\ k[10] = (IF i = 10 THEN d ELSE n[10])
  OBVIOUS
<1> HIDE DEF x
<1>6. CASE i = 10
  <2>1. DigitSum(k) = DigitSum(n)
    BY <1>4, <1>5, <1>6 DEF DigitSum
  <2> QED
    BY <1>5, <1>6, <2>1 DEF ValidBizNo
<1>7. CASE i # 10
  <2> SUFFICES DigitSum(n) % 10 # DigitSum(k) % 10
    <3>1. DigitSum(n) \in Nat /\ DigitSum(k) \in Nat
      BY <1>2, <1>3, SumTyped
    <3> QED
      BY <1>5, <1>7, <3>1, SameCheckDigit DEF ValidBizNo
  <2>1. CASE i = 9
    <3> DEFINE rest == Ones(n) + 3 * Threes(n) + 7 * Sevens(n)
    <3>1. /\ rest \in Nat
          /\ DigitSum(n) = rest + 5 * n[9] + (5 * n[9]) \div 10
          /\ DigitSum(k) = rest + 5 * k[9] + (5 * k[9]) \div 10
      BY <1>2, <1>4, <2>1 DEF DigitSum
    <3> HIDE DEF rest
    <3>2. n[9] # k[9]
      BY <1>5, <2>1
    <3> QED
      BY <1>3, <3>1, <3>2, CarryTellsDigits
  <2>2. CASE i # 9
    <3>1. PICK w \in {1, 3, 7} :
            \/ /\ w = 1
               /\ Ones(k) = Ones(n) + x /\ Threes(k) = Threes(n) /\ Sevens(k) = Sevens(n)
            \/ /\ w = 3
               /\ Ones(k) = Ones(n) /\ Threes(k) = Threes(n) + x /\ Sevens(k) = Sevens(n)
            \/ /\ w = 7
               /\ Ones(k) = Ones(n) /\ Threes(k) = Threes(n) /\ Sevens(k) = Sevens(n) + x
      BY <1>4, <1>7, <2>2
    <3>2. k[9] = n[9]
      BY <1>5, <2>2
    <3>3. (5 * n[9]) \div 10 \in Nat /\ DigitSum(n) \in Nat /\ DigitSum(k) \in Nat
      BY <1>2, <1>3, SumTyped
    <3>4. DigitSum(k) = DigitSum(n) + w * x
      <4>1. CASE w = 1
        BY <1>1, <1>2, <1>3, <3>1, <3>2, <3>3, <4>1 DEF DigitSum
      <4>2. CASE w = 3
        BY <1>1, <1>2, <1>3, <3>1, <3>2, <3>3, <4>2 DEF DigitSum
      <4>3. CASE w = 7
        BY <1>1, <1>2, <1>3, <3>1, <3>2, <3>3, <4>3 DEF DigitSum
      <4> QED
        BY <4>1, <4>2, <4>3
    <3> QED
      BY <1>1, <3>3, <3>4, WeightTellsDigits
  <2> QED
    BY <2>1, <2>2
<1> QED
  BY <1>6, <1>7

(* That is: in a sequence one element is replaced.                         *)
LEMMA ReplacedDigitInvalid ==
  ASSUME NEW n \in Seq(0 .. 9), NEW i \in 1 .. 10, NEW d \in 0 .. 9,
         d # n[i], ValidBizNo(n)
  PROVE  ~ValidBizNo([n EXCEPT ![i] = d])
<1> DEFINE k == [n EXCEPT ![i] = d]
<1>1. Len(n) = 10
  BY DEF ValidBizNo
<1>2. \A j \in 1 .. 10 : n[j] \in 0 .. 9
  BY <1>1, ElementOfSeq
<1>3. \A j \in 1 .. 10 : k[j] = IF j = i THEN d ELSE n[j]
  BY <1>1
<1> HIDE DEF k
<1>4. ~ValidBizNo(k)
  BY <1>1, <1>2, <1>3, WrongDigitInvalid
<1> QED
  BY <1>4 DEF k

(* Leaving a digit out makes a number one digit shorter.                   *)
LEMMA OneDigitLess ==
  ASSUME NEW n \in Seq(0 .. 9), NEW i \in 1 .. Len(n)
  PROVE  /\ SubSeq(n, 1, i - 1) \o SubSeq(n, i + 1, Len(n)) \in Seq(0 .. 9)
         /\ Len(SubSeq(n, 1, i - 1) \o SubSeq(n, i + 1, Len(n))) = Len(n) - 1
<1> DEFINE a == SubSeq(n, 1, i - 1)
           b == SubSeq(n, i + 1, Len(n))
<1>1. a \in Seq(0 .. 9) /\ Len(a) = i - 1
  BY SubSeqProperties
<1>2. b \in Seq(0 .. 9) /\ Len(b) = Len(n) - i
  BY SubSeqProperties
<1> HIDE DEF a, b
<1>3. a \o b \in Seq(0 .. 9) /\ Len(a \o b) = Len(a) + Len(b)
  BY <1>1, <1>2, ConcatProperties
<1>4. Len(a \o b) = Len(n) - 1
  BY <1>1, <1>2, <1>3
<1> QED
  BY <1>3, <1>4 DEF a, b

----------------------------------------------------------------------------
(* Evaluations.  The context of the rules grows step by step; what a later *)
(* step relies on is that an attempt begins with an empty one.             *)

Docs == {Extracted(reply) : reply \in Replies}

Contexts ==
  [amount : {Amount}, spentAt : Int, bizNo : Seq(0 .. 9), category : {"own"},
   start : {ProjectStart}, end : {ProjectEnd}, budget : SUBSET Nat, ai : BOOLEAN,
   extraction : SUBSET Docs, extractionFailed : BOOLEAN,
   suggestion : SUBSET {"own", "other"}, vendor : SUBSET VendorAnswers,
   duplicates : BOOLEAN, nonworking : {"yes", "no", "unknown"},
   approved : ApprovedSums, evidences : 0 .. MaxEvidences]

(* The results are those of the context, whose number is the expense's and *)
(* whose vendor was asked about.                                           *)
VendorAsked ==
  stage \in {"surroundings", "rules", "done"} =>
    (context.bizNo # <<>> => context.vendor # {})

(* An attempt logs what it read of the evidence and that it could not.     *)
ExtractionLogged ==
  /\ context.extraction # {} => <<"DOC_EXTRACTION", "SUCCESS">> \in aiRuns
  /\ ~context.extractionFailed => <<"DOC_EXTRACTION", "FAILED">> \notin aiRuns

EvaluationInv ==
  /\ EvaluationTypeOK
  /\ context \in Contexts
  /\ stage # "draft" => context.bizNo = number
  /\ stage = "extract" => context.extraction = {} /\ ~context.extractionFailed
  /\ stage \in {"extract", "suggest"} => context.vendor = {}
  /\ VendorAsked
  /\ ExtractionLogged
  /\ stage = "done" => results = RunAll(context)

(* The rules are quiet only about a context with a document that was read. *)
LEMMA QuietContext ==
  ASSUME NEW c, Quiet(RunAll(c)), c.bizNo # <<>> => c.vendor # {}
  PROVE  /\ ~c.extractionFailed /\ c.extraction # {}
         /\ \A doc \in c.extraction :
              /\ \A k \in doc.confidence : k >= LowConfidence
              /\ doc.bizNo \subseteq {c.bizNo}
         /\ ValidBizNo(c.bizNo) /\ c.vendor = {"ACTIVE"}
<1>0. ASSUME NEW r \in RunAll(c) PROVE r.severity \in {"PASS", "INFO"}
  BY DEF Quiet
<1>1. c.evidences > 0
  <2>1. Verdict("R-EVD-001", c.evidences > 0, "FAIL") \in RunAll(c)
    BY DEF RunAll, R_EVD_001
  <2> QED
    BY <1>0, <2>1 DEF Verdict
<1>2. ~c.extractionFailed /\ c.extraction # {}
  <2>1. ASSUME c.extractionFailed \/ c.extraction = {}
        PROVE  [rule |-> "R-AI-001", severity |-> "WARN"] \in RunAll(c)
    BY <1>1, <2>1 DEF RunAll, R_AI_001
  <2> QED
    BY <1>0, <2>1
<1>3. \A doc \in c.extraction : \A k \in doc.confidence : k >= LowConfidence
  <2>1. c.ai
    <3>1. ASSUME ~c.ai
          PROVE  [rule |-> "R-AI-001", severity |-> "WARN"] \in RunAll(c)
      BY <3>1 DEF RunAll, R_AI_001
    <3> QED
      BY <1>0, <3>1
  <2>2. ASSUME NEW doc \in c.extraction
        PROVE  Verdict("R-AI-001", \A k \in doc.confidence : k >= LowConfidence, "WARN")
                 \in RunAll(c)
    BY <1>2, <2>1 DEF RunAll, R_AI_001
  <2> QED
    BY <1>0, <2>2 DEF Verdict
<1>4. c.bizNo # <<>> /\ ValidBizNo(c.bizNo)
  <2>1. ASSUME c.bizNo = <<>> PROVE FALSE
    <3>1. [rule |-> "R-VND-001", severity |-> "WARN"] \in RunAll(c)
      BY <2>1 DEF RunAll, R_VND_001
    <3> QED
      BY <1>0, <3>1
  <2>2. Verdict("R-VND-001", ValidBizNo(c.bizNo), "FAIL") \in RunAll(c)
    BY <2>1 DEF RunAll, R_VND_001
  <2> QED
    BY <1>0, <2>1, <2>2 DEF Verdict
<1>5. \A doc \in c.extraction : doc.bizNo \subseteq {c.bizNo}
  <2>1. ASSUME NEW doc \in c.extraction, NEW x \in doc.bizNo
        PROVE  Verdict("R-EVD-004", x = c.bizNo, "FAIL") \in RunAll(c)
    BY <1>4 DEF RunAll, R_EVD_004, Read
  <2> QED
    BY <1>0, <2>1 DEF Verdict
<1>6. c.vendor = {"ACTIVE"}
  <2>1. "UNVERIFIED" \notin c.vendor
    <3>1. ASSUME "UNVERIFIED" \in c.vendor
          PROVE  [rule |-> "R-VND-003", severity |-> "WARN"] \in RunAll(c)
      BY <3>1 DEF RunAll, R_VND_003, Finding
    <3> QED
      BY <1>0, <3>1
  <2>2. ASSUME NEW s \in c.vendor PROVE s = "ACTIVE"
    <3>1. Verdict("R-VND-002", s = "ACTIVE", IF s = "SUSPENDED" THEN "WARN" ELSE "FAIL")
            \in RunAll(c)
      BY <2>1 DEF RunAll, R_VND_002
    <3> QED
      BY <1>0, <3>1 DEF Verdict
  <2> QED
    BY <1>4, <2>2
<1> QED
  BY <1>2, <1>3, <1>4, <1>5, <1>6

(* A blank context is one.                                                 *)
LEMMA BlankIsContext ==
  ASSUME NEW spentAt \in Int, NEW budget \in SUBSET Nat, NEW ai \in BOOLEAN,
         number \in Seq(0 .. 9)
  PROVE  /\ Blank(spentAt, budget, ai) \in Contexts
         /\ Blank(spentAt, budget, ai).bizNo = number
         /\ Blank(spentAt, budget, ai).extraction = {}
         /\ ~Blank(spentAt, budget, ai).extractionFailed
         /\ Blank(spentAt, budget, ai).vendor = {}
BY EvaluationAssumption DEF Blank, Contexts

(* Initially the expense is a draft.                                       *)
LEMMA EvaluationInitInv == EvaluationInit => EvaluationInv
<1> SUFFICES ASSUME EvaluationInit PROVE EvaluationInv
  OBVIOUS
<1>1. number \in Seq(0 .. 9) /\ Len(number) <= 10
  BY EvaluationAssumption DEF EvaluationInit
<1>2. context = Blank(ProjectStart, {}, FALSE)
  BY DEF EvaluationInit
<1>3. context \in Contexts /\ context.extraction = {} /\ context.vendor = {}
  BY <1>1, <1>2, BlankIsContext, EvaluationAssumption
<1>4. /\ typos = 0 /\ stage = "draft" /\ evidences = 0 /\ withoutFile = FALSE
      /\ approved = 0 /\ aiRuns = {}
  BY DEF EvaluationInit
<1>5. MaxTypos \in Nat /\ MaxEvidences \in Nat /\ 0 \in ApprovedSums
  BY EvaluationAssumption
<1>6. EvaluationTypeOK
  <2>1. typos \in 0 .. MaxTypos /\ evidences \in 0 .. MaxEvidences
    BY <1>4, <1>5
  <2>2. /\ stage \in Stages /\ withoutFile \in BOOLEAN /\ approved \in ApprovedSums
        /\ stage # "done"
    BY <1>4, <1>5 DEF Stages
  <2> QED
    BY <1>1, <1>3, <1>4, <2>1, <2>2 DEF EvaluationTypeOK
<1> QED
  BY <1>3, <1>4, <1>6 DEF EvaluationInv, VendorAsked, ExtractionLogged

(* Every step preserves the invariant.                                     *)
LEMMA EvaluationNextInv ==
  EvaluationInv /\ [EvaluationNext]_evaluationVars => EvaluationInv'
<1> SUFFICES ASSUME EvaluationInv, [EvaluationNext]_evaluationVars
             PROVE  EvaluationInv'
  OBVIOUS
<1> USE EvaluationAssumption
    DEF EvaluationInv, EvaluationTypeOK, VendorAsked, ExtractionLogged, Stages
<1>1. CASE UNCHANGED evaluationVars
  BY <1>1 DEF evaluationVars
<1>2. ASSUME NEW i \in 1 .. 10, NEW d \in 0 .. 9, Type(i, d) PROVE EvaluationInv'
  <2>1. number' \in Seq(0 .. 9) /\ Len(number') = Len(number)
    BY <1>2, ExceptSeq DEF Type
  <2> QED
    BY <1>2, <2>1 DEF Type
<1>3. ASSUME NEW i \in 1 .. 10, Omit(i) PROVE EvaluationInv'
  <2>1. number' \in Seq(0 .. 9) /\ Len(number') = Len(number) - 1
    BY <1>3, OneDigitLess DEF Omit
  <2>2. /\ stage = "draft" /\ typos' = typos + 1 /\ typos < MaxTypos
        /\ UNCHANGED <<stage, evidences, withoutFile, approved, context, results, aiRuns>>
    BY <1>3 DEF Omit
  <2> QED
    BY <2>1, <2>2
<1>4. ASSUME Upload PROVE EvaluationInv'
  BY <1>4 DEF Upload, Contexts
<1>5. ASSUME LoseFile PROVE EvaluationInv'
  BY <1>5 DEF LoseFile
<1>6. ASSUME NEW sum \in ApprovedSums, OthersApproved(sum) PROVE EvaluationInv'
  BY <1>6 DEF OthersApproved
<1>7. ASSUME NEW day \in SpentDays, NEW b \in Budgets, NEW ai \in BOOLEAN,
             Submit(day, b, ai)
      PROVE  EvaluationInv'
  <2>1. context' = Blank(day, b, ai)
    BY <1>7 DEF Submit
  <2>2. /\ context' \in Contexts /\ context'.bizNo = number
        /\ context'.extraction = {} /\ ~context'.extractionFailed
        /\ context'.vendor = {}
    BY <2>1, BlankIsContext
  <2> QED
    BY <1>7, <2>2 DEF Submit
<1>8. ASSUME SkipExtraction PROVE EvaluationInv'
  BY <1>8 DEF SkipExtraction
<1>9. ASSUME FailExtraction PROVE EvaluationInv'
  <2>1. /\ context' \in Contexts /\ context'.bizNo = context.bizNo
        /\ context'.extraction = {} /\ context'.vendor = {}
    BY <1>9 DEF FailExtraction, Contexts
  <2> QED
    BY <1>9, <2>1 DEF FailExtraction
<1>10. ASSUME NEW reply \in Replies, Extract(reply) PROVE EvaluationInv'
  <2>1. /\ context' \in Contexts /\ context'.bizNo = context.bizNo
        /\ context'.ai /\ ~context'.extractionFailed /\ context'.vendor = {}
    BY <1>10 DEF Extract, Contexts, Docs
  <2>2. aiRuns' = {<<"DOC_EXTRACTION", "SUCCESS">>}
    BY <1>10 DEF Extract, Log
  <2>3. ExtractionLogged'
    BY <2>2 DEF ExtractionLogged
  <2> QED
    BY <1>10, <2>1, <2>3 DEF Extract
<1>11. ASSUME NEW category \in {"own", "other"}, Suggest(category)
       PROVE  EvaluationInv'
  <2>1. /\ context' \in Contexts /\ context'.bizNo = context.bizNo
        /\ context'.extraction = context.extraction /\ context'.ai = context.ai
        /\ context'.extractionFailed = context.extractionFailed
        /\ context'.vendor = {}
    BY <1>11 DEF Suggest, Contexts
  <2>2. aiRuns' = aiRuns \union {<<"CATEGORY_SUGGESTION", "SUCCESS">>}
    BY <1>11 DEF Suggest, Log
  <2>3. ExtractionLogged'
    BY <2>1, <2>2 DEF ExtractionLogged
  <2> QED
    BY <1>11, <2>1, <2>3 DEF Suggest
<1>12. ASSUME SuggestNothing PROVE EvaluationInv'
  <2>1. /\ aiRuns \subseteq aiRuns'
        /\ aiRuns' \subseteq aiRuns \union {<<"CATEGORY_SUGGESTION", "FAILED">>}
    BY <1>12 DEF SuggestNothing, Log
  <2>2. ExtractionLogged'
    BY <1>12, <2>1 DEF SuggestNothing, ExtractionLogged
  <2> QED
    BY <1>12, <2>2 DEF SuggestNothing
<1>13. ASSUME NEW status_ \in VendorAnswers, AskVendor(status_)
       PROVE  EvaluationInv'
  <2>1. /\ context' \in Contexts /\ context'.bizNo = context.bizNo
        /\ context'.extraction = context.extraction /\ context'.ai = context.ai
        /\ context'.extractionFailed = context.extractionFailed
        /\ context'.vendor = IF number = <<>> THEN {} ELSE {status_}
    BY <1>13 DEF AskVendor, Contexts
  <2> QED
    BY <1>13, <2>1 DEF AskVendor
<1>14. ASSUME NEW dup \in BOOLEAN, NEW day \in {"yes", "no", "unknown"},
              LookAround(dup, day)
       PROVE  EvaluationInv'
  <2>1. /\ context' \in Contexts /\ context'.bizNo = context.bizNo
        /\ context'.extraction = context.extraction /\ context'.ai = context.ai
        /\ context'.extractionFailed = context.extractionFailed
        /\ context'.vendor = context.vendor
    BY <1>14 DEF LookAround, Contexts
  <2> QED
    BY <1>14, <2>1 DEF LookAround
<1>15. ASSUME RunRules PROVE EvaluationInv'
  <2>1. /\ context' \in Contexts /\ context'.bizNo = context.bizNo
        /\ context'.extraction = context.extraction /\ context'.ai = context.ai
        /\ context'.extractionFailed = context.extractionFailed
        /\ context'.vendor = context.vendor /\ context'.evidences = evidences
    BY <1>15 DEF RunRules, Contexts
  <2> QED
    BY <1>15, <2>1 DEF RunRules
<1>16. ASSUME Raise PROVE EvaluationInv'
  <2>1. context' = Blank(context.spentAt, context.budget, context.ai)
    BY <1>16 DEF Raise
  <2> DEFINE day == context.spentAt
             b   == context.budget
             ai  == context.ai
  <2>2. day \in Int /\ b \in SUBSET Nat /\ ai \in BOOLEAN
    BY DEF Contexts
  <2> HIDE DEF day, b, ai
  <2>3. context' = Blank(day, b, ai)
    BY <2>1 DEF day, b, ai
  <2>4. /\ context' \in Contexts /\ context'.bizNo = number
        /\ context'.extraction = {} /\ ~context'.extractionFailed
        /\ context'.vendor = {}
    BY <2>2, <2>3, BlankIsContext
  <2> QED
    BY <1>16, <2>4 DEF Raise
<1> QED
  BY <1>1, <1>2, <1>3, <1>4, <1>5, <1>6, <1>7, <1>8, <1>9, <1>10, <1>11, <1>12,
     <1>13, <1>14, <1>15, <1>16 DEF EvaluationNext

(* A validation that warns of nothing rests on a first evidence read in    *)
(* the same attempt and on a valid number of an active vendor, whatever    *)
(* the AI and the tax office answered and whatever was attached or failed  *)
(* meanwhile (run_expense_pipeline, catalog.py).                           *)
THEOREM QuietAlwaysRead == EvaluationSpec => []QuietWasRead
<1>1. EvaluationInit => EvaluationInv
  BY EvaluationInitInv
<1>2. EvaluationInv /\ [EvaluationNext]_evaluationVars => EvaluationInv'
  BY EvaluationNextInv
<1>3. EvaluationInv => QuietWasRead
  <2> SUFFICES ASSUME EvaluationInv, stage = "done", Quiet(results)
               PROVE  ReadAndAsked
    BY DEF EvaluationInv, QuietWasRead
  <2>1. Quiet(RunAll(context)) /\ (context.bizNo # <<>> => context.vendor # {})
    BY DEF EvaluationInv, VendorAsked
  <2> QED
    BY <2>1, QuietContext DEF EvaluationInv, ExtractionLogged, ReadAndAsked
<1> QED
  BY <1>1, <1>2, <1>3, PTL DEF EvaluationSpec

(* The checksum catches every single wrong or missing digit                *)
(* (_check_biz_no, rules/catalog.py).                                      *)
THEOREM TypoAlwaysDetected == EvaluationSpec => TypoDetected
<1> DEFINE Caught == (ValidBizNo(number) /\ number' # number) => ~ValidBizNo(number')
<1>1. EvaluationInit => EvaluationInv
  BY EvaluationInitInv
<1>2. EvaluationInv /\ [EvaluationNext]_evaluationVars => EvaluationInv'
  BY EvaluationNextInv
<1>3. EvaluationInv /\ [EvaluationNext]_evaluationVars => [Caught]_evaluationVars
  <2> SUFFICES ASSUME EvaluationInv, EvaluationNext, ValidBizNo(number),
                      number' # number
               PROVE  ~ValidBizNo(number')
    OBVIOUS
  <2>1. number \in Seq(0 .. 9) /\ Len(number) = 10
    BY DEF EvaluationInv, EvaluationTypeOK, ValidBizNo
  <2>2. \/ \E i \in 1 .. 10, d \in 0 .. 9 : Type(i, d)
        \/ \E i \in 1 .. 10 : Omit(i)
    BY DEF EvaluationNext, Upload, LoseFile, OthersApproved, Submit, SkipExtraction,
           FailExtraction, Extract, Suggest, SuggestNothing, AskVendor, LookAround,
           RunRules, Raise
  <2>3. ASSUME NEW i \in 1 .. 10, NEW d \in 0 .. 9, Type(i, d)
        PROVE  ~ValidBizNo(number')
    <3>1. /\ number' = [number EXCEPT ![i] = d]
          /\ d # number[i]
      BY <2>3 DEF Type
    <3> QED
      BY <2>1, <3>1, ReplacedDigitInvalid
  <2>4. ASSUME NEW i \in 1 .. 10, Omit(i) PROVE ~ValidBizNo(number')
    <3>1. Len(number') = 9
      BY <2>1, <2>4, OneDigitLess DEF Omit
    <3> QED
      BY <3>1 DEF ValidBizNo
  <2> QED
    BY <2>2, <2>3, <2>4
<1> QED
  BY <1>1, <1>2, <1>3, PTL DEF EvaluationSpec, TypoDetected
=============================================================================
