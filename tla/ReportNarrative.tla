-------------------------- MODULE ReportNarrative --------------------------
(***************************************************************************)
(* The narrative of one monthly report: the AI draft that the worker adds  *)
(* (run_report_generation, services/report.py), the managers who write it  *)
(* (update_report, api/routes/reports.py), and the report becoming final.  *)
(*                                                                         *)
(* The report has one generation run; the queue is that of ExpenseWorkflow *)
(* reduced to it.  A live worker is never taken for dead: its AI call ends *)
(* after two minutes at most (ai/anthropic_client.py), a run is stale      *)
(* after ten.  The figures of the report are module ReportSettlement.      *)
(***************************************************************************)
EXTENDS Integers

CONSTANTS
  Drafters,   \* workers
  Writers,    \* sessions of managers
  Texts,      \* what managers write
  Tries,      \* MAX_ATTEMPTS
  MaxDeaths   \* bound: workers that die

ASSUME NarrativeAssumption ==
  /\ Texts \cap {"NULL", "draft", "none"} = {}
  /\ Tries \in Nat \ {0}
  /\ MaxDeaths \in Nat

VARIABLES
  phase,     \* reports.status, ABSENT before create_report
  narrative, \* reports.narrative_md
  drafted,   \* a worker has stored a draft
  run,       \* automation_runs.status
  tries,     \* automation_runs.attempt
  at,        \* where each worker stands
  copy,      \* narrative_md in the report it loaded
  deaths,    \* workers that died so far
  told,      \* notifications: to the author, and to the managers of a failure
  editing    \* what each session that is about to write has loaded

narrativeVars ==
  <<phase, narrative, drafted, run, tries, at, copy, deaths, told, editing>>

NotEditing == "none"
Narratives == Texts \union {"NULL", "draft"}

NarrativeTypeOK ==
  /\ phase \in {"ABSENT", "DRAFT", "FINAL"}
  /\ narrative \in Narratives
  /\ drafted \in BOOLEAN
  /\ run \in {"ABSENT", "QUEUED", "RUNNING", "SUCCEEDED", "FAILED"}
  /\ tries \in 0 .. Tries
  /\ at \in [Drafters -> {"idle", "claimed", "asking", "storing", "finishing", "failed"}]
  /\ copy \in [Drafters -> Narratives]
  /\ deaths \in 0 .. MaxDeaths
  /\ told \subseteq {"author", "managers"}
  /\ editing \in [Writers -> Narratives \union {NotEditing}]
  /\ run = "QUEUED" => tries < Tries

----------------------------------------------------------------------------
(* Managers                                                                *)

(* create_report and enqueue_report_generation commit together.            *)
OpenReport ==
  /\ phase = "ABSENT"
  /\ phase' = "DRAFT"
  /\ run' = "QUEUED"
  /\ UNCHANGED <<narrative, drafted, tries, at, copy, deaths, told, editing>>

(* Variation: a final report is found as well.                             *)
BeginAnyWriting(m) ==
  /\ phase # "ABSENT"
  /\ editing[m] = NotEditing
  /\ editing' = [editing EXCEPT ![m] = narrative]
  /\ UNCHANGED <<phase, narrative, drafted, run, tries, at, copy, deaths, told>>

(* update_report loads the report without a lock and tests its status.     *)
BeginWriting(m) ==
  /\ phase = "DRAFT"
  /\ editing[m] = NotEditing
  /\ editing' = [editing EXCEPT ![m] = narrative]
  /\ UNCHANGED <<phase, narrative, drafted, run, tries, at, copy, deaths, told>>

(* The UPDATE leaves out a text that equals the one that was loaded.       *)
Write(m, text) ==
  /\ editing[m] # NotEditing
  /\ narrative' = IF text = editing[m] THEN narrative ELSE text
  /\ editing' = [editing EXCEPT ![m] = NotEditing]
  /\ UNCHANGED <<phase, drafted, run, tries, at, copy, deaths, told>>

Finalize ==
  /\ phase = "DRAFT"
  /\ phase' = "FINAL"
  /\ UNCHANGED <<narrative, drafted, run, tries, at, copy, deaths, told, editing>>

----------------------------------------------------------------------------
(* Workers                                                                 *)

GoTo(w, place) == at' = [at EXCEPT ![w] = place]

(* The session is closed and what it loaded is gone.                       *)
LetGo(w) ==
  /\ GoTo(w, "idle")
  /\ copy' = [copy EXCEPT ![w] = "NULL"]

ClaimRun(w) ==
  /\ at[w] = "idle"
  /\ run = "QUEUED"
  /\ run' = "RUNNING"
  /\ tries' = tries + 1
  /\ GoTo(w, "claimed")
  /\ UNCHANGED <<phase, narrative, drafted, copy, deaths, told, editing>>

LoadReport(w) ==
  /\ at[w] = "claimed"
  /\ phase = "DRAFT"
  /\ copy' = [copy EXCEPT ![w] = narrative]
  /\ GoTo(w, "asking")
  /\ UNCHANGED <<phase, narrative, drafted, run, tries, deaths, told, editing>>

(* The report is final already: nothing is drafted.                        *)
SkipDraft(w) ==
  /\ at[w] = "claimed"
  /\ phase # "DRAFT"
  /\ GoTo(w, "finishing")
  /\ UNCHANGED <<phase, narrative, drafted, run, tries, copy, deaths, told, editing>>

ReceiveDraft(w) ==
  /\ at[w] = "asking"
  /\ GoTo(w, "storing")
  /\ UNCHANGED <<phase, narrative, drafted, run, tries, copy, deaths, told, editing>>

(* AIUnavailableError: the author is told that there will be no draft.     *)
DoWithoutDraft(w) ==
  /\ at[w] = "asking"
  /\ told' = told \union {"author"}
  /\ GoTo(w, "finishing")
  /\ UNCHANGED <<phase, narrative, drafted, run, tries, copy, deaths, editing>>

(* Variation: the draft is stored whatever the report holds.               *)
StoreAlways(w) ==
  /\ at[w] = "storing"
  /\ narrative' = "draft"
  /\ drafted' = TRUE
  /\ told' = told \union {"author"}
  /\ GoTo(w, "finishing")
  /\ UNCHANGED <<phase, run, tries, copy, deaths, editing>>

(* Whether there is a text is asked of the copy loaded before the call.    *)
StoreDraft(w) ==
  /\ at[w] = "storing"
  /\ IF copy[w] = "NULL" THEN narrative' = "draft" /\ drafted' = TRUE
                         ELSE UNCHANGED <<narrative, drafted>>
  /\ told' = told \union {"author"}
  /\ GoTo(w, "finishing")
  /\ UNCHANGED <<phase, run, tries, copy, deaths, editing>>

FinishRun(w) ==
  /\ at[w] = "finishing"
  /\ run' = "SUCCEEDED"
  /\ LetGo(w)
  /\ UNCHANGED <<phase, narrative, drafted, tries, deaths, told, editing>>

(* An exception: another attempt, or the end.                              *)
FailRun(w) ==
  /\ at[w] \in {"claimed", "asking", "storing", "finishing"}
  /\ \/ tries < Tries /\ run' = "QUEUED" /\ LetGo(w)
     \/ tries = Tries /\ run' = "FAILED" /\ GoTo(w, "failed") /\ UNCHANGED copy
  /\ UNCHANGED <<phase, narrative, drafted, tries, deaths, told, editing>>

(* Variation: managers are told of failed expenses only.                   *)
ReportNothing(w) ==
  /\ at[w] = "failed"
  /\ LetGo(w)
  /\ UNCHANGED <<phase, narrative, drafted, run, tries, deaths, told, editing>>

(* _handle_permanent_failure.                                              *)
ReportFailure(w) ==
  /\ at[w] = "failed"
  /\ told' = told \union {"managers"}
  /\ LetGo(w)
  /\ UNCHANGED <<phase, narrative, drafted, run, tries, deaths, editing>>

(* Variation: requeue_stale does not look at the attempts.                 *)
ReclaimUncounted(w) ==
  /\ at[w] = "idle"
  /\ run = "RUNNING" /\ \A v \in Drafters : at[v] \in {"idle", "failed"}
  /\ run' = "QUEUED"
  /\ UNCHANGED <<phase, narrative, drafted, tries, at, copy, deaths, told, editing>>

(* requeue_stale: the run's worker is dead.  Nobody is told if it failed.  *)
Reclaim(w) ==
  /\ at[w] = "idle"
  /\ run = "RUNNING" /\ \A v \in Drafters : at[v] \in {"idle", "failed"}
  /\ run' = IF tries < Tries THEN "QUEUED" ELSE "FAILED"
  /\ UNCHANGED <<phase, narrative, drafted, tries, at, copy, deaths, told, editing>>

Die(w) ==
  /\ at[w] # "idle"
  /\ deaths < MaxDeaths
  /\ deaths' = deaths + 1
  /\ LetGo(w)
  /\ UNCHANGED <<phase, narrative, drafted, run, tries, told, editing>>

----------------------------------------------------------------------------
NarrativeInit ==
  /\ phase = "ABSENT"
  /\ narrative = "NULL"
  /\ drafted = FALSE
  /\ run = "ABSENT"
  /\ tries = 0
  /\ at = [w \in Drafters |-> "idle"]
  /\ copy = [w \in Drafters |-> "NULL"]
  /\ deaths = 0
  /\ told = {}
  /\ editing = [m \in Writers |-> NotEditing]

ManagerStep ==
  \/ OpenReport
  \/ Finalize
  \/ \E m \in Writers : BeginWriting(m) \/ (\E text \in Texts : Write(m, text))

(* What a worker that has claimed the run does with it.                    *)
Draft(w) ==
  \/ LoadReport(w) \/ SkipDraft(w)
  \/ ReceiveDraft(w) \/ DoWithoutDraft(w) \/ StoreDraft(w)
  \/ FinishRun(w) \/ FailRun(w) \/ ReportFailure(w)

DrafterStep(w) == ClaimRun(w) \/ Draft(w) \/ Reclaim(w) \/ Die(w)

NarrativeNext == ManagerStep \/ \E w \in Drafters : DrafterStep(w)

NarrativeSpec == NarrativeInit /\ [][NarrativeNext]_narrativeVars

(* A worker that lives claims when there is work, ends the run it has, and *)
(* collects stale ones every 15th loop, though other workers claim between *)
(* (worker.py:81).  Nobody is obliged to send a request.                   *)
NarrativeFairness ==
  \A w \in Drafters :
    /\ WF_narrativeVars(ClaimRun(w))
    /\ WF_narrativeVars(Draft(w))
    /\ SF_narrativeVars(Reclaim(w))

FairNarrativeSpec == NarrativeSpec /\ NarrativeFairness

----------------------------------------------------------------------------
(* A draft that was stored is never stored again: no retry and no reclaim  *)
(* brings back the draft where a manager has gone on from it, or puts a    *)
(* second one in its place (report.py:257).                                *)
DraftedOnce ==
  [][drafted /\ narrative' # narrative => narrative' \in Texts]_narrativeVars

(* Every report whose generation was queued comes to an end that somebody  *)
(* is told of, unless it became final or a worker died on the last attempt *)
(* (worker.py:8: requeue_stale gives up in silence).                       *)
SomebodyTold ==
  run = "QUEUED" ~> \/ told # {}
                    \/ phase = "FINAL"
                    \/ run = "FAILED" /\ deaths > 0

(* The text of a final report comes to rest: the unlocked test lets those  *)
(* who had passed it write once more, and nobody after them                *)
(* (update_report, run_report_generation).                                 *)
FinalTextSettles ==
  <>(phase = "FINAL") => \E text \in Narratives : <>[](narrative = text)

----------------------------------------------------------------------------
(* What report.py:256 says: a text that a manager has begun is not         *)
(* overwritten by the draft.                                               *)
ManagerTextKept ==
  [][(narrative \in Texts) => (narrative' \in Texts)]_narrativeVars
=============================================================================
