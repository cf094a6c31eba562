-------------------------- MODULE HolidayCalendar --------------------------
(***************************************************************************)
(* The holidays of one year: the listing of the astronomy institute, the   *)
(* table holidays, the command that copies the one into the other month by *)
(* month (sync_year, external/holidays.py), and the lookups of validation  *)
(* runs (is_nonworking_day).                                               *)
(*                                                                         *)
(* A request for one month is one step with the lookups of its dates; the  *)
(* rows are written with the single commit at the end.                     *)
(***************************************************************************)
EXTENDS Integers

CONSTANTS
  Dates,     \* dates of the year that matter, as pairs <<month, day>>
  Weekend,   \* those on a Saturday or Sunday
  TwoNames,  \* those listed twice, as two holidays that fall together
  Months,    \* how many months the year has
  Syncs,     \* runs of the command
  Lookups    \* sessions of workers that look a date up

ASSUME HolidayAssumption ==
  /\ Months \in Nat
  /\ Dates \subseteq (1 .. Months) \X Nat
  /\ Weekend \subseteq Dates
  /\ TwoNames \subseteq Dates

VARIABLES
  listed,    \* the holidays the institute lists
  holidays,  \* the dates in table holidays
  month,     \* the month a run asks for next, 0 when it does not run
  pending,   \* the rows it adds when it commits
  doubled,   \* it adds a row twice
  missed,    \* a month was not answered
  began,     \* what was listed when it began
  assured,   \* listed when a run began that missed nothing and committed
  asked,     \* the date a lookup did not find and is about to count for
  assuredAt, \* assured when the lookup began
  said       \* what it said last: the date, the answer, and assuredAt

syncVars   == <<month, pending, doubled, missed, began>>
lookupVars == <<asked, assuredAt, said>>
calendarVars == <<listed, holidays, assured, syncVars, lookupVars>>

NoDate == <<0, 0>>
Nothing == [date |-> NoDate, nonworking |-> "none", assured |-> {}]

CalendarTypeOK ==
  /\ listed \in SUBSET Dates
  /\ holidays \in SUBSET listed
  /\ assured \in SUBSET Dates
  /\ month \in [Syncs -> 0 .. Months + 1]
  /\ pending \in [Syncs -> SUBSET Dates]
  /\ \A s \in Syncs : \A d \in pending[s] : d[1] < month[s]
  /\ doubled \in [Syncs -> BOOLEAN]
  /\ missed \in [Syncs -> BOOLEAN]
  /\ began \in [Syncs -> SUBSET Dates]
  /\ asked \in [Lookups -> Dates \union {NoDate}]
  /\ assuredAt \in [Lookups -> SUBSET Dates]
  /\ said \in [Lookups -> [date : Dates \union {NoDate},
                           nonworking : {"none", "yes", "no", "unknown"},
                           assured : SUBSET Dates]]

(* The government announces another holiday.                               *)
Announce(d) ==
  /\ listed' = listed \union {d}
  /\ UNCHANGED <<holidays, assured, syncVars, lookupVars>>

----------------------------------------------------------------------------
(* sync_year                                                               *)

BeginSync(s) ==
  /\ month[s] = 0
  /\ month' = [month EXCEPT ![s] = 1]
  /\ began' = [began EXCEPT ![s] = listed]
  /\ UNCHANGED <<listed, holidays, assured, pending, doubled, missed, lookupVars>>

(* The listed dates of the month that the table does not hold.  A row the  *)
(* session has added but not written is not found, so that a date listed   *)
(* twice is added twice.                                                   *)
NewDates(s) == {d \in listed : d[1] = month[s]} \ holidays

FetchMonth(s) ==
  /\ month[s] \in 1 .. Months
  /\ pending' = [pending EXCEPT ![s] = @ \union NewDates(s)]
  /\ doubled' = [doubled EXCEPT ![s] = @ \/ NewDates(s) \cap TwoNames # {}]
  /\ month' = [month EXCEPT ![s] = @ + 1]
  /\ UNCHANGED <<listed, holidays, assured, missed, began, lookupVars>>

(* Variation: the month that was not answered is forgotten.                *)
MissSilently(s) ==
  /\ month[s] \in 1 .. Months
  /\ month' = [month EXCEPT ![s] = @ + 1]
  /\ UNCHANGED <<listed, holidays, assured, pending, doubled, missed, began, lookupVars>>

MissMonth(s) ==
  /\ month[s] \in 1 .. Months
  /\ missed' = [missed EXCEPT ![s] = TRUE]
  /\ month' = [month EXCEPT ![s] = @ + 1]
  /\ UNCHANGED <<listed, holidays, assured, pending, doubled, began, lookupVars>>

EndSync(s) ==
  /\ month' = [month EXCEPT ![s] = 0]
  /\ pending' = [pending EXCEPT ![s] = {}]
  /\ doubled' = [doubled EXCEPT ![s] = FALSE]
  /\ missed' = [missed EXCEPT ![s] = FALSE]
  /\ began' = [began EXCEPT ![s] = {}]

(* The date is the primary key: one row that exists fails the commit.      *)
CommitSync(s) ==
  /\ month[s] = Months + 1
  /\ pending[s] \cap holidays = {}
  /\ ~doubled[s]
  /\ holidays' = holidays \union pending[s]
  /\ assured' = IF missed[s] THEN assured ELSE assured \union began[s]
  /\ EndSync(s)
  /\ UNCHANGED <<listed, lookupVars>>

(* That, or the command is interrupted.                                    *)
FailSync(s) ==
  /\ month[s] # 0
  /\ EndSync(s)
  /\ UNCHANGED <<listed, holidays, assured, lookupVars>>

----------------------------------------------------------------------------
(* is_nonworking_day                                                       *)

Say(l, d, nonworking, known) ==
  said' = [said EXCEPT ![l] =
             [date |-> d, nonworking |-> nonworking, assured |-> known]]

(* The weekday and the row of the date decide at once.                     *)
FindDate(l, d) ==
  /\ asked[l] = NoDate
  /\ d \in Weekend \union holidays
  /\ Say(l, d, "yes", assured)
  /\ UNCHANGED <<listed, holidays, assured, syncVars, asked, assuredAt>>

MissDate(l, d) ==
  /\ asked[l] = NoDate
  /\ d \notin Weekend \union holidays
  /\ asked' = [asked EXCEPT ![l] = d]
  /\ assuredAt' = [assuredAt EXCEPT ![l] = assured]
  /\ UNCHANGED <<listed, holidays, assured, syncVars, said>>

(* Otherwise a year without any row is unknown.                            *)
CountYear(l) ==
  /\ asked[l] # NoDate
  /\ Say(l, asked[l], IF holidays = {} THEN "unknown" ELSE "no", assuredAt[l])
  /\ asked' = [asked EXCEPT ![l] = NoDate]
  /\ assuredAt' = [assuredAt EXCEPT ![l] = {}]
  /\ UNCHANGED <<listed, holidays, assured, syncVars>>

----------------------------------------------------------------------------
CalendarInit ==
  /\ listed = {d \in Dates : d \notin Weekend}
  /\ holidays = {}
  /\ assured = {}
  /\ month = [s \in Syncs |-> 0]
  /\ pending = [s \in Syncs |-> {}]
  /\ doubled = [s \in Syncs |-> FALSE]
  /\ missed = [s \in Syncs |-> FALSE]
  /\ began = [s \in Syncs |-> {}]
  /\ asked = [l \in Lookups |-> NoDate]
  /\ assuredAt = [l \in Lookups |-> {}]
  /\ said = [l \in Lookups |-> Nothing]

CalendarNext ==
  \/ \E d \in Dates : Announce(d)
  \/ \E s \in Syncs : BeginSync(s) \/ FetchMonth(s) \/ MissMonth(s)
                      \/ CommitSync(s) \/ FailSync(s)
  \/ \E l \in Lookups, d \in Dates : FindDate(l, d) \/ MissDate(l, d)
  \/ \E l \in Lookups : CountYear(l)

CalendarSpec == CalendarInit /\ [][CalendarNext]_calendarVars

----------------------------------------------------------------------------
(* Once a sync that missed no month is through, no lookup that begins      *)
(* later takes one of its holidays for a working day or calls it unknown,  *)
(* whatever other syncs failed, missed or did at the same time             *)
(* (is_nonworking_day, sync_year).                                         *)
SyncedHolidayFlagged ==
  /\ CalendarTypeOK
  /\ \A l \in Lookups : said[l].date \in said[l].assured => said[l].nonworking = "yes"
=============================================================================
