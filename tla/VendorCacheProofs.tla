------------------------- MODULE VendorCacheProofs -------------------------
(***************************************************************************)
(* For every number of checks, every time to live and every horizon: the   *)
(* answers are as recent as the time to live says, verified statuses are   *)
(* kept, and a race to insert costs one attempt.                           *)
(*                                                                         *)
(* The argument follows the status in the row back to the day on which the *)
(* tax office gave it.  checked_at may be a day later than that: a check   *)
(* whose answer equals what it loaded writes only checked_at, and leaves a *)
(* status that another check has put there.                                *)
(***************************************************************************)
EXTENDS VendorCache, TLAPS

Active(c) == step[c] # "idle"

(* The last day on which each status held, as a function.                  *)
heldOn == [s \in Codes |-> LastHeld(s)]

HeldInThePast == \A s \in Codes : heldUntil[s] <= today

StartedLately ==
  \A c \in Checks : Active(c) => started[c] <= today /\ today <= started[c] + 1

RowHeld == row \in Codes => heldOn[row] + 1 >= checkedAt

NothingFetched == \A c \in Checks : step[c] # "storing" => fetched[c] = "UNVERIFIED"

FetchedHeld ==
  \A c \in Checks : step[c] = "storing" /\ fetched[c] \in Codes
                      => heldOn[fetched[c]] >= started[c]

(* What replaced the loaded status was fetched by a check that ran then.   *)
ReplacedLately ==
  \A c \in Checks : Active(c) /\ row \in Codes /\ row # loaded[c]
                      => heldOn[row] + 1 >= started[c]

RowStays == \A c \in Checks : Active(c) /\ loaded[c] # "ABSENT" => row # "ABSENT"

AnswersHeld ==
  \A c \in Checks :
    (answer[c].status \in Codes /\ ~answer[c].fallback) =>
      heldOn[answer[c].status] + CacheTTL >= answer[c].day

CollidedFindsRow ==
  \A c \in Checks : collided[c] >= 1 =>
    collided[c] = 1 /\ row # "ABSENT" /\ (Active(c) => loaded[c] # "ABSENT")

VendorInv ==
  /\ VendorTypeOK /\ HeldInThePast /\ StartedLately /\ RowHeld
  /\ NothingFetched /\ FetchedHeld
  /\ ReplacedLately /\ RowStays /\ CollidedFindsRow /\ AnswersHeld

----------------------------------------------------------------------------
LEMMA CodesAreNames ==
  /\ "ABSENT" \notin Cached /\ "UNVERIFIED" \notin Codes
  /\ "NONE" \notin Cached /\ "ACTIVE" \in Codes
BY VendorAssumption DEF Cached

(* Days are numbers.                                                       *)
LEMMA DaysAreNumbers ==
  VendorTypeOK => /\ today \in Int /\ checkedAt \in Int
                  /\ started \in [Checks -> Int] /\ CacheTTL \in Int /\ CacheTTL >= 1
                  /\ \A c \in Checks : answer[c].day \in Int
BY VendorAssumption DEF VendorTypeOK, Days, Answers

LEMMA VendorInitInv == VendorInit => VendorInv
<1> SUFFICES ASSUME VendorInit PROVE VendorInv
  OBVIOUS
<1> USE CodesAreNames, VendorAssumption DEF VendorInit
<1>1. VendorTypeOK
  BY DEF VendorTypeOK, Days, Cached, NoAnswer, Answers
<1>2. /\ HeldInThePast /\ StartedLately /\ RowHeld /\ NothingFetched
      /\ FetchedHeld /\ ReplacedLately /\ RowStays /\ CollidedFindsRow
  BY DEF HeldInThePast, StartedLately, RowHeld, NothingFetched, FetchedHeld,
         ReplacedLately, RowStays, CollidedFindsRow, Active, Cached
<1>3. AnswersHeld
  BY DEF AnswersHeld, NoAnswer, Cached
<1> QED
  BY <1>1, <1>2, <1>3 DEF VendorInv

(* Time and the tax office only make a status held later.                  *)
LEMMA HeldLater ==
  ASSUME VendorInv,
         (\E s \in Codes : OfficeChanges(s)) \/ NextDay \/ UNCHANGED officeVars
  PROVE  /\ heldOn \in [Codes -> Int] /\ heldOn' \in [Codes -> Int]
         /\ \A s \in Codes : heldOn'[s] >= heldOn[s]
         /\ UNCHANGED officeVars => heldOn' = heldOn
         /\ HeldInThePast'
BY VendorAssumption
   DEF VendorInv, VendorTypeOK, HeldInThePast, heldOn, LastHeld, OfficeChanges, NextDay,
       officeVars, Days

(* The world outside.                                                      *)
LEMMA OutsideInv ==
  ASSUME VendorInv, (\E s \in Codes : OfficeChanges(s)) \/ NextDay
  PROVE  VendorInv'
<1>1. /\ heldOn \in [Codes -> Int] /\ heldOn' \in [Codes -> Int]
      /\ \A s \in Codes : heldOn'[s] >= heldOn[s]
      /\ HeldInThePast'
  BY HeldLater
<1>2. /\ UNCHANGED <<rowVars, checkVars>>
      /\ office' \in Codes /\ heldUntil' \in [Codes -> Days \union {-1}]
      /\ today' \in Days /\ today' \in {today, today + 1}
      /\ today' # today => \A c \in Checks : Active(c) => started[c] = today
  BY VendorAssumption
     DEF OfficeChanges, NextDay, VendorInv, VendorTypeOK, Days, Active
<1> USE DEF VendorInv, rowVars, checkVars
<1>3. VendorTypeOK'
  BY <1>2 DEF VendorTypeOK
<1>4. StartedLately'
  BY <1>2, VendorAssumption DEF StartedLately, Active, VendorTypeOK, Days
<1>5. RowHeld'
  BY <1>1, <1>2, VendorAssumption DEF RowHeld, VendorTypeOK, Days
<1>6. FetchedHeld'
  <2> SUFFICES ASSUME NEW c \in Checks, step[c] = "storing", fetched[c] \in Codes
               PROVE  heldOn'[fetched[c]] >= started[c]
    BY <1>2 DEF FetchedHeld
  <2>1. heldOn[fetched[c]] >= started[c] /\ started[c] \in Int
    BY DaysAreNumbers DEF FetchedHeld
  <2> QED
    BY <1>1, <2>1
<1>7. ReplacedLately'
  <2> SUFFICES ASSUME NEW c \in Checks, Active(c), row \in Codes, row # loaded[c]
               PROVE  heldOn'[row] + 1 >= started[c]
    BY <1>2 DEF ReplacedLately, Active
  <2>1. heldOn[row] + 1 >= started[c] /\ started[c] \in Int
    BY DaysAreNumbers DEF ReplacedLately
  <2> QED
    BY <1>1, <2>1
<1>8. RowStays' /\ CollidedFindsRow' /\ NothingFetched'
  BY <1>2 DEF RowStays, CollidedFindsRow, NothingFetched, Active
<1>9. AnswersHeld'
  <2> SUFFICES ASSUME NEW c \in Checks,
                      answer[c].status \in Codes, ~answer[c].fallback
               PROVE  heldOn'[answer[c].status] + CacheTTL >= answer[c].day
    BY <1>2 DEF AnswersHeld
  <2>1. answer[c].day \in Int /\ CacheTTL \in Int
    BY DaysAreNumbers
  <2>2. heldOn[answer[c].status] + CacheTTL >= answer[c].day
    BY DEF AnswersHeld
  <2>3. /\ heldOn[answer[c].status] \in Int /\ heldOn'[answer[c].status] \in Int
        /\ heldOn'[answer[c].status] >= heldOn[answer[c].status]
    BY <1>1
  <2> QED
    BY <2>1, <2>2, <2>3
<1> QED
  BY <1>1, <1>3, <1>4, <1>5, <1>6, <1>7, <1>8, <1>9

(* A step of a check that leaves the row alone and does not answer.        *)
LEMMA AskInv ==
  ASSUME VendorInv, NEW c \in Checks, Select(c) \/ Fetch(c) \/ FetchFails(c)
  PROVE  VendorInv'
<1> USE DEF VendorInv, officeVars, rowVars
<1>1. heldOn' = heldOn /\ heldOn \in [Codes -> Int]
  BY HeldLater DEF Select, Fetch, FetchFails
<1>2. VendorTypeOK'
  <2> USE CodesAreNames, VendorAssumption DEF VendorTypeOK
  <2>1. CASE Select(c)
    BY <2>1 DEF Select, NoAnswer, Answers, Days, Cached
  <2>2. CASE Fetch(c)
    BY <2>2 DEF Fetch, Cached
  <2>3. CASE FetchFails(c)
    BY <2>3 DEF FetchFails
  <2> QED
    BY <2>1, <2>2, <2>3
<1>3. HeldInThePast' /\ StartedLately' /\ RowHeld'
  BY <1>1, VendorAssumption
     DEF HeldInThePast, StartedLately, RowHeld, Active, Select, Fetch, FetchFails,
         VendorTypeOK, Days
<1>0. heldOn[office] = today
  BY DEF heldOn, LastHeld, VendorTypeOK
<1>4. FetchedHeld'
  <2>1. CASE Select(c) \/ FetchFails(c)
    BY <1>1, <2>1, CodesAreNames
       DEF FetchedHeld, NothingFetched, Select, FetchFails, VendorTypeOK
  <2>2. CASE Fetch(c)
    BY <1>0, <1>1, <2>2, DaysAreNumbers
       DEF FetchedHeld, Fetch, VendorTypeOK, StartedLately, Active
  <2> QED
    BY <2>1, <2>2
<1>5. ReplacedLately'
  BY <1>1 DEF ReplacedLately, Active, Select, Fetch, FetchFails, VendorTypeOK
<1>6. RowStays' /\ NothingFetched'
  BY DEF RowStays, NothingFetched, Active, Select, Fetch, FetchFails, VendorTypeOK
<1>7. CollidedFindsRow'
  BY DEF CollidedFindsRow, Active, Select, Fetch, FetchFails, VendorTypeOK
<1>8. AnswersHeld'
  BY <1>1, CodesAreNames
     DEF AnswersHeld, Select, Fetch, FetchFails, NoAnswer, VendorTypeOK, Cached
<1> QED
  BY <1>2, <1>3, <1>4, <1>5, <1>6, <1>7, <1>8

(* A step that ends a check and leaves the row alone.                      *)
LEMMA LeaveInv ==
  ASSUME VendorInv, NEW c \in Checks,
         AnswerCached(c) \/ FallBack(c) \/ Collide(c) \/ Abandon(c)
  PROVE  VendorInv'
<1> USE DEF VendorInv, officeVars, rowVars, Reply, Leave
<1>1. heldOn' = heldOn /\ heldOn \in [Codes -> Int]
  BY HeldLater DEF AnswerCached, FallBack, Collide, Abandon
<1>2. UNCHANGED <<officeVars, rowVars>> /\ Leave(c)
  BY DEF AnswerCached, FallBack, Collide, Abandon
<1>3. answer' \in [Checks -> Answers]
  <2>1. \A s \in Codes, b \in BOOLEAN :
          [status |-> s, day |-> today, fallback |-> b] \in Answers
    BY DEF VendorTypeOK, Answers, Cached
  <2>2. CASE AnswerCached(c)
    BY <2>1, <2>2 DEF VendorTypeOK, AnswerCached, Fresh
  <2>3. CASE FallBack(c)
    BY <2>1, <2>3 DEF VendorTypeOK, FallBack
  <2>4. CASE Collide(c) \/ Abandon(c)
    BY <2>4 DEF VendorTypeOK, Collide, Abandon
  <2> QED
    BY <2>2, <2>3, <2>4
<1>4. CollidedFindsRow'
  BY DEF CollidedFindsRow, Active, AnswerCached, FallBack, Collide, Abandon,
         VendorTypeOK
<1>5. collided' \in [Checks -> 0 .. 2]
  BY DEF AnswerCached, FallBack, Collide, Abandon, VendorTypeOK
<1>6. VendorTypeOK'
  <2>1. "ABSENT" \in Cached \union {"ABSENT"} /\ 0 \in Days /\ "UNVERIFIED" \in Cached
    BY VendorAssumption DEF Days, Cached
  <2> QED
    BY <1>2, <1>3, <1>5, <2>1 DEF VendorTypeOK
<1>7. HeldInThePast' /\ StartedLately' /\ RowHeld'
  BY <1>1, <1>2 DEF HeldInThePast, StartedLately, RowHeld, Active, VendorTypeOK
<1>8. NothingFetched' /\ FetchedHeld' /\ ReplacedLately' /\ RowStays'
  BY <1>1, <1>2 DEF NothingFetched, FetchedHeld, ReplacedLately, RowStays, Active, VendorTypeOK
<1>9. AnswersHeld'
  <2>1. CASE UNCHANGED answer
    BY <1>1, <2>1 DEF AnswersHeld
  <2>2. CASE AnswerCached(c)
    <3>1. /\ row \in Codes /\ checkedAt > today - CacheTTL
          /\ answer' = [answer EXCEPT ![c] =
                          [status |-> row, day |-> today, fallback |-> FALSE]]
      BY <2>2 DEF AnswerCached, Fresh
    <3>2. heldOn[row] + CacheTTL >= today
      BY <1>1, <3>1, VendorAssumption DEF RowHeld, VendorTypeOK, Days
    <3> QED
      BY <1>1, <1>2, <3>1, <3>2 DEF AnswersHeld, VendorTypeOK
  <2>3. CASE FallBack(c)
    <3>1. answer' = [answer EXCEPT ![c] =
                       [status |-> loaded[c], day |-> today, fallback |-> TRUE]]
      BY <2>3 DEF FallBack
    <3> QED
      BY <1>1, <1>2, <3>1 DEF AnswersHeld, VendorTypeOK
  <2> QED
    BY <2>1, <2>2, <2>3 DEF AnswerCached, FallBack, Collide, Abandon
<1> QED
  BY <1>4, <1>6, <1>7, <1>8, <1>9

(* The write of the row.                                                   *)
LEMMA WriteInv ==
  ASSUME VendorInv, NEW c \in Checks, Update(c) \/ Insert(c)
  PROVE  VendorInv'
<1> USE DEF VendorInv, officeVars, Reply, Leave
<1>1. heldOn' = heldOn /\ heldOn \in [Codes -> Int]
  BY HeldLater DEF Update, Insert
<1>2. /\ UNCHANGED <<officeVars, collided>> /\ Leave(c)
      /\ step[c] = "storing" /\ checkedAt' = started[c]
      /\ answer' = [answer EXCEPT ![c] =
                      [status |-> fetched[c], day |-> today, fallback |-> FALSE]]
  BY DEF Update, Insert
<1>3. /\ row' = row \/ row' = fetched[c]
      /\ row' \in Cached
      /\ row \in Codes => row' \in Codes
  BY CodesAreNames
     DEF Update, Insert, Written, VendorTypeOK, RowStays, Active, Cached
<1>4. VendorTypeOK'
  BY <1>2, <1>3, VendorAssumption DEF VendorTypeOK, Answers, Days, Cached
<1>5. HeldInThePast' /\ StartedLately'
  BY <1>2 DEF HeldInThePast, StartedLately, Active, VendorTypeOK
<1>6. RowHeld'
  <2> SUFFICES ASSUME row' \in Codes PROVE heldOn[row'] + 1 >= started[c]
    BY <1>1, <1>2 DEF RowHeld
  <2>0. started[c] \in Int
    BY DaysAreNumbers
  <2>1. CASE row' = fetched[c]
    BY <1>1, <1>2, <2>0, <2>1 DEF FetchedHeld
  <2>2. CASE row' # fetched[c]
    <3>1. row' = row /\ row # loaded[c]
      BY <1>3, <2>2 DEF Update, Insert, Written
    <3> QED
      BY <1>1, <1>2, <2>0, <3>1 DEF ReplacedLately, Active
  <2> QED
    BY <2>1, <2>2
<1>7. NothingFetched' /\ FetchedHeld'
  BY <1>1, <1>2 DEF NothingFetched, FetchedHeld, VendorTypeOK
<1>8. ReplacedLately'
  <2> SUFFICES ASSUME NEW d \in Checks, Active(d)', row' \in Codes, row' # loaded'[d]
               PROVE  heldOn[row'] + 1 >= started'[d]
    BY <1>1 DEF ReplacedLately
  <2>1. d # c /\ Active(d) /\ loaded'[d] = loaded[d] /\ started'[d] = started[d]
    BY <1>2 DEF Active, VendorTypeOK
  <2>2. started[d] \in Int /\ started[c] \in Int /\ today \in Int
    BY DaysAreNumbers
  <2>3. started[d] <= today /\ today <= started[c] + 1
    BY <1>2, <2>1 DEF StartedLately, Active
  <2>4. CASE row' = row
    BY <1>1, <2>1, <2>2, <2>4 DEF ReplacedLately
  <2>5. CASE row' = fetched[c]
    BY <1>1, <1>2, <2>1, <2>2, <2>3, <2>5 DEF FetchedHeld
  <2> QED
    BY <1>3, <2>4, <2>5
<1>9. RowStays' /\ CollidedFindsRow'
  BY <1>2, <1>3, CodesAreNames DEF RowStays, CollidedFindsRow, Active, VendorTypeOK
<1>10. AnswersHeld'
  <2>1. fetched[c] \in Codes => heldOn[fetched[c]] + CacheTTL >= today
    BY <1>1, <1>2, DaysAreNumbers DEF FetchedHeld, StartedLately, Active
  <2> QED
    BY <1>1, <1>2, <2>1 DEF AnswersHeld, VendorTypeOK
<1> QED
  BY <1>4, <1>5, <1>6, <1>7, <1>8, <1>9, <1>10

LEMMA VendorStutterInv == VendorInv /\ UNCHANGED vendorVars => VendorInv'
BY DEF VendorInv, vendorVars, officeVars, rowVars, checkVars, VendorTypeOK,
       HeldInThePast, StartedLately, RowHeld, NothingFetched, FetchedHeld,
       ReplacedLately, RowStays, CollidedFindsRow, AnswersHeld, Active, heldOn, LastHeld

LEMMA VendorNextInv == VendorInv /\ [VendorNext]_vendorVars => VendorInv'
BY VendorStutterInv, OutsideInv, AskInv, LeaveInv, WriteInv DEF VendorNext, Check

LEMMA VendorInvAlways == VendorSpec => []VendorInv
<1>1. VendorInit => VendorInv
  BY VendorInitInv
<1>2. VendorInv /\ [VendorNext]_vendorVars => VendorInv'
  BY VendorNextInv
<1> QED
  BY <1>1, <1>2, PTL DEF VendorSpec

----------------------------------------------------------------------------
(* The variables keep their types, and a check is about to store           *)
(* UNVERIFIED only if it had no verified copy to fall back to.             *)
THEOREM VendorTypeCorrect == VendorSpec => []VendorTypeOK
<1>1. VendorInv => VendorTypeOK
  BY DEF VendorInv
<1> QED
  BY <1>1, VendorInvAlways, PTL

(* Unless the tax office was silent, a run is told a status that held      *)
(* within the time to live (check_vendor_status).                          *)
THEOREM AnswersRecentAlways == VendorSpec => []AnswersRecent
<1>1. VendorInv => AnswersRecent
  BY DEF VendorInv, AnswersHeld, AnswersRecent, heldOn
<1> QED
  BY <1>1, VendorInvAlways, PTL

(* A run loses the race to insert the vendor at most once (_upsert).       *)
THEOREM CollideOnceAlways == VendorSpec => []CollideOnce
<1>1. VendorInv => CollideOnce
  <2> SUFFICES ASSUME VendorInv, NEW c \in Checks PROVE collided[c] <= 1
    BY DEF CollideOnce
  <2>1. collided[c] \in 0 .. 2
    BY DEF VendorInv, VendorTypeOK
  <2>2. collided[c] >= 1 => collided[c] = 1
    BY DEF VendorInv, CollidedFindsRow
  <2> QED
    BY <2>1, <2>2
<1> QED
  BY <1>1, VendorInvAlways, PTL

(* A verified status is never replaced by UNVERIFIED (_upsert).            *)
THEOREM VerifiedKeptAlways == VendorSpec => VerifiedKept
<1>1. ASSUME VendorInv, [VendorNext]_vendorVars, row \in Codes
      PROVE  row' \in Codes
  <2>1. CASE UNCHANGED rowVars
    BY <1>1, <2>1 DEF rowVars
  <2>2. ASSUME NEW c \in Checks, Update(c) \/ Insert(c)
        PROVE  row' \in Codes
    BY <1>1, <2>2, CodesAreNames
       DEF Update, Insert, Written, VendorInv, VendorTypeOK, Cached
  <2> QED
    BY <1>1, <2>1, <2>2
       DEF VendorNext, vendorVars, Check, OfficeChanges, NextDay, AnswerCached,
           Select, Fetch, FallBack, FetchFails, Collide, Abandon
<1>2. VendorInv /\ [VendorNext]_vendorVars => [(row \in Codes) => (row' \in Codes)]_vendorVars
  BY <1>1
<1> QED
  BY <1>2, VendorInvAlways, PTL DEF VendorSpec, VerifiedKept
=============================================================================
