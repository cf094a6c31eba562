---------------------------- MODULE VendorCache ----------------------------
(***************************************************************************)
(* The status of one vendor: what the tax office knows, what the table     *)
(* vendor_checks keeps of it, and what validation runs are told            *)
(* (check_vendor_status, external/nts.py).                                 *)
(*                                                                         *)
(* A check is cut where other transactions can come in between: at its     *)
(* SELECT, at the answer of the tax office, and at the write that commits  *)
(* with the run.  Between flush and commit the row is locked and others    *)
(* still read the old one, so flush and commit are one step.  Time counts  *)
(* days.                                                                   *)
(***************************************************************************)
EXTENDS Integers

CONSTANTS
  Checks,     \* sessions of workers that ask about the vendor
  Codes,      \* what the tax office may say of it
  CacheTTL,   \* CACHE_TTL in days
  LastDay     \* bound: days modelled

ASSUME VendorAssumption ==
  /\ Codes \subseteq {"ACTIVE", "SUSPENDED", "CLOSED", "UNREGISTERED"}
  /\ "ACTIVE" \in Codes
  /\ CacheTTL \in Nat \ {0}
  /\ LastDay \in Nat

Days == 0 .. LastDay
Cached == Codes \union {"UNVERIFIED"}

VARIABLES
  office,    \* the status at the tax office
  heldUntil, \* the last day before the present status on which each one held
  today,
  row,       \* vendor_checks.status, ABSENT without a row
  checkedAt, \* vendor_checks.checked_at
  step,      \* where each check stands
  loaded,    \* the status its SELECT found
  started,   \* its variable now
  fetched,   \* what it is about to write
  answer,    \* what it returned last: status, day, and whether it fell back
  collided   \* how often its insert found a row

officeVars == <<office, heldUntil, today>>
rowVars    == <<row, checkedAt>>
checkVars  == <<step, loaded, started, fetched, answer, collided>>
vendorVars == <<officeVars, rowVars, checkVars>>

NoAnswer == [status |-> "NONE", day |-> 0, fallback |-> FALSE]
Answers  == [status : Cached \union {"NONE"}, day : Days, fallback : BOOLEAN]

VendorTypeOK ==
  /\ office \in Codes
  /\ heldUntil \in [Codes -> Days \union {-1}]
  /\ today \in Days
  /\ row \in Cached \union {"ABSENT"}
  /\ checkedAt \in Days
  /\ step \in [Checks -> {"idle", "asking", "storing"}]
  /\ loaded \in [Checks -> Cached \union {"ABSENT"}]
  /\ started \in [Checks -> Days]
  /\ fetched \in [Checks -> Cached]
  /\ answer \in [Checks -> Answers]
  /\ collided \in [Checks -> 0 .. 2]
  /\ \A c \in Checks : step[c] = "storing" /\ fetched[c] = "UNVERIFIED"
                        => loaded[c] \notin Codes

(* The last day on which a status held.                                    *)
LastHeld(s) == IF s = office THEN today ELSE heldUntil[s]

----------------------------------------------------------------------------
(* The world outside: statuses change, days pass.  A transaction takes     *)
(* minutes, so at most one midnight falls into it.                         *)

OfficeChanges(s) ==
  /\ s # office
  /\ office' = s
  /\ heldUntil' = [heldUntil EXCEPT ![office] = today]
  /\ UNCHANGED <<today, rowVars, checkVars>>

NextDay ==
  /\ today < LastDay
  /\ \A c \in Checks : step[c] # "idle" => started[c] = today
  /\ today' = today + 1
  /\ UNCHANGED <<office, heldUntil, rowVars, checkVars>>

----------------------------------------------------------------------------
(* check_vendor_status                                                     *)

(* A check ends; what its session held is gone.                            *)
Leave(c) ==
  /\ step' = [step EXCEPT ![c] = "idle"]
  /\ loaded' = [loaded EXCEPT ![c] = "ABSENT"]
  /\ started' = [started EXCEPT ![c] = 0]
  /\ fetched' = [fetched EXCEPT ![c] = "UNVERIFIED"]

Reply(c, s, fallback) ==
  /\ answer' = [answer EXCEPT ![c] =
                  [status |-> s, day |-> today, fallback |-> fallback]]
  /\ Leave(c)

(* Variation: the entry is served on the day it expires as well.           *)
FreshOneDayMore == row \in Codes /\ checkedAt >= today - CacheTTL

(* A verified row younger than the time to live is the answer.             *)
Fresh == row \in Codes /\ checkedAt > today - CacheTTL

AnswerCached(c) ==
  /\ step[c] = "idle"
  /\ Fresh
  /\ Reply(c, row, FALSE)
  /\ UNCHANGED <<officeVars, rowVars, collided>>

(* Variation: an unverified row is not selected.                           *)
SelectVerified(c) ==
  /\ step[c] = "idle"
  /\ ~Fresh
  /\ step' = [step EXCEPT ![c] = "asking"]
  /\ loaded' = [loaded EXCEPT ![c] = IF row \in Codes THEN row ELSE "ABSENT"]
  /\ started' = [started EXCEPT ![c] = today]
  /\ answer' = [answer EXCEPT ![c] = NoAnswer]
  /\ UNCHANGED <<officeVars, rowVars, fetched, collided>>

Select(c) ==
  /\ step[c] = "idle"
  /\ ~Fresh
  /\ step' = [step EXCEPT ![c] = "asking"]
  /\ loaded' = [loaded EXCEPT ![c] = row]
  /\ started' = [started EXCEPT ![c] = today]
  /\ answer' = [answer EXCEPT ![c] = NoAnswer]
  /\ UNCHANGED <<officeVars, rowVars, fetched, collided>>

(* The tax office answers.                                                 *)
Fetch(c) ==
  /\ step[c] = "asking"
  /\ fetched' = [fetched EXCEPT ![c] = office]
  /\ step' = [step EXCEPT ![c] = "storing"]
  /\ UNCHANGED <<officeVars, rowVars, loaded, started, answer, collided>>

(* It does not: a verified copy of any age is the answer.                  *)
FallBack(c) ==
  /\ step[c] = "asking"
  /\ loaded[c] \in Codes
  /\ Reply(c, loaded[c], TRUE)
  /\ UNCHANGED <<officeVars, rowVars, collided>>

(* Without one the vendor is stored as unverified.                         *)
FetchFails(c) ==
  /\ step[c] = "asking"
  /\ loaded[c] \notin Codes
  /\ step' = [step EXCEPT ![c] = "storing"]
  /\ UNCHANGED <<officeVars, rowVars, loaded, started, fetched, answer, collided>>

(* Variation: the UPDATE writes every column.                              *)
WrittenAlways(c) == fetched[c]

(* The UPDATE of a session contains only the columns it changed.           *)
Written(c) == IF fetched[c] = loaded[c] THEN row ELSE fetched[c]

(* _upsert of a row that was loaded.                                       *)
Update(c) ==
  /\ step[c] = "storing"
  /\ loaded[c] # "ABSENT"
  /\ row' = Written(c)
  /\ checkedAt' = started[c]
  /\ Reply(c, fetched[c], FALSE)
  /\ UNCHANGED <<officeVars, collided>>

(* _upsert without one: biz_no is unique, so the second insert fails and   *)
(* with it the run, which is tried again.                                  *)
Insert(c) ==
  /\ step[c] = "storing"
  /\ loaded[c] = "ABSENT"
  /\ row = "ABSENT"
  /\ row' = fetched[c]
  /\ checkedAt' = started[c]
  /\ Reply(c, fetched[c], FALSE)
  /\ UNCHANGED <<officeVars, collided>>

Collide(c) ==
  /\ step[c] = "storing"
  /\ loaded[c] = "ABSENT"
  /\ row # "ABSENT"
  /\ collided' = [collided EXCEPT ![c] = IF @ < 2 THEN @ + 1 ELSE @]
  /\ Leave(c)
  /\ UNCHANGED <<officeVars, rowVars, answer>>

(* The run ends otherwise before it commits.                               *)
Abandon(c) ==
  /\ step[c] # "idle"
  /\ Leave(c)
  /\ UNCHANGED <<officeVars, rowVars, answer, collided>>

----------------------------------------------------------------------------
VendorInit ==
  /\ office = "ACTIVE"
  /\ heldUntil = [s \in Codes |-> -1]
  /\ today = 0
  /\ row = "ABSENT"
  /\ checkedAt = 0
  /\ step = [c \in Checks |-> "idle"]
  /\ loaded = [c \in Checks |-> "ABSENT"]
  /\ started = [c \in Checks |-> 0]
  /\ fetched = [c \in Checks |-> "UNVERIFIED"]
  /\ answer = [c \in Checks |-> NoAnswer]
  /\ collided = [c \in Checks |-> 0]

Check(c) ==
  \/ AnswerCached(c)
  \/ Select(c)
  \/ Fetch(c)
  \/ FallBack(c)
  \/ FetchFails(c)
  \/ Update(c)
  \/ Insert(c)
  \/ Collide(c)
  \/ Abandon(c)

VendorNext ==
  \/ \E s \in Codes : OfficeChanges(s)
  \/ NextDay
  \/ \E c \in Checks : Check(c)

VendorSpec == VendorInit /\ [][VendorNext]_vendorVars

----------------------------------------------------------------------------
(* A status that was verified once is never replaced by UNVERIFIED, not    *)
(* even by a check that started before it was verified and got no answer   *)
(* (nts.py: the fallback trusts the cached value).                         *)
VerifiedKept == [][(row \in Codes) => (row' \in Codes)]_vendorVars

(* Unless the tax office was silent, a run is told a status that was true  *)
(* within the time to live, however checks overlap.  Types are kept with   *)
(* it.                                                                     *)
AnswersRecent ==
  /\ VendorTypeOK
  /\ \A c \in Checks :
       (answer[c].status \in Codes /\ ~answer[c].fallback) =>
         LastHeld(answer[c].status) + CacheTTL >= answer[c].day

(* Losing the race to insert the vendor costs a run one attempt at most:   *)
(* it has three (queue.py, MAX_ATTEMPTS), and the next one finds the row.  *)
CollideOnce == \A c \in Checks : collided[c] <= 1
=============================================================================
