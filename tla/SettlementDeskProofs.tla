------------------------ MODULE SettlementDeskProofs ------------------------
(***************************************************************************)
(* For every set of uploads and sizes: a row of evidences has its whole    *)
(* file, and late evidence was in flight.  For every set of workers,       *)
(* managers and texts and every number of attempts: a report's draft is    *)
(* stored once.  For every set of administrators, expenses and viewers:    *)
(* projects stay sound and the dashboard adds up.                          *)
(***************************************************************************)
EXTENDS EvidenceUpload, ReportNarrative, Dashboard, FiniteSetTheorems, TLAPS

----------------------------------------------------------------------------
(* Evidence.  The invariant follows a request through its life.            *)

(* A row is there from the end of a request on, the file before it.        *)
FileBeforeRow ==
  \A u \in Uploads :
    /\ upload[u] \in {"new", "refused"} => written[u] = -1
    /\ upload[u] = "saving" => written[u] >= 0
    /\ upload[u] \in {"saved", "done"} => written[u] = size[u] /\ size[u] <= MaxSize
    /\ hasRow[u] => upload[u] = "done"

(* A request in flight tested an expense that is either still editable or  *)
(* was submitted afterwards.                                               *)
InFlight ==
  \A u \in Uploads : ~editable /\ upload[u] \in {"saving", "saved"} => submitted[u]

UploadInv == UploadTypeOK /\ FileBeforeRow /\ InFlight

(* Before the first request there is nothing.                              *)
LEMMA UploadInitInv == UploadInit => UploadInv
BY UploadAssumption DEF UploadInit, UploadInv, UploadTypeOK, FileBeforeRow, InFlight

(* Every step preserves the invariant.                                     *)
LEMMA UploadNextInv == UploadInv /\ [UploadNext]_uploadVars => UploadInv'
<1> SUFFICES ASSUME UploadInv, [UploadNext]_uploadVars PROVE UploadInv'
  OBVIOUS
<1> USE UploadAssumption
    DEF UploadInv, UploadTypeOK, FileBeforeRow, InFlight, Proceed
<1>1. CASE UNCHANGED uploadVars
  BY <1>1 DEF uploadVars
<1>2. ASSUME SubmitExpense PROVE UploadInv'
  BY <1>2 DEF SubmitExpense
<1>3. ASSUME ReturnExpense PROVE UploadInv'
  BY <1>3 DEF ReturnExpense
<1>4. ASSUME NEW u \in Uploads, StartUpload(u) PROVE UploadInv'
  BY <1>4 DEF StartUpload
<1>5. ASSUME NEW u \in Uploads, RefuseUpload(u) PROVE UploadInv'
  BY <1>5 DEF RefuseUpload
<1>6. ASSUME NEW u \in Uploads, WriteChunk(u) PROVE UploadInv'
  BY <1>6 DEF WriteChunk
<1>7. ASSUME NEW u \in Uploads, TooLarge(u) PROVE UploadInv'
  BY <1>7 DEF TooLarge
<1>8. ASSUME NEW u \in Uploads, Saved(u) PROVE UploadInv'
  BY <1>8 DEF Saved
<1>9. ASSUME NEW u \in Uploads, InsertRow(u) PROVE UploadInv'
  BY <1>9 DEF InsertRow
<1>10. ASSUME NEW u \in Uploads, CutOff(u) PROVE UploadInv'
  BY <1>10 DEF CutOff
<1> QED
  BY <1>1, <1>2, <1>3, <1>4, <1>5, <1>6, <1>7, <1>8, <1>9, <1>10 DEF UploadNext

(* No row of evidences refers to a file that is missing, cut short or too  *)
(* large, and what is refused leaves nothing (upload_evidence, storage.py).*)
THEOREM RowsHaveFiles == UploadSpec => []RowsAndFiles
<1>1. UploadInit => UploadInv
  BY UploadInitInv
<1>2. UploadInv /\ [UploadNext]_uploadVars => UploadInv'
  BY UploadNextInv
<1>3. UploadInv => RowsAndFiles
  BY DEF UploadInv, FileBeforeRow, RowsAndFiles
<1> QED
  BY <1>1, <1>2, <1>3, PTL DEF UploadSpec

(* Evidence reaches an expense under review only from a request that began *)
(* before its submission (upload_evidence, api/routes/expenses.py).        *)
THEOREM LateEvidenceAlwaysInFlight == UploadSpec => LateEvidenceWasInFlight
<1> DEFINE Late == \A u \in Uploads : ~editable /\ hasRow'[u] /\ ~hasRow[u] => submitted[u]
<1>1. UploadInit => UploadInv
  BY UploadInitInv
<1>2. UploadInv /\ [UploadNext]_uploadVars => UploadInv'
  BY UploadNextInv
<1>3. UploadInv /\ [UploadNext]_uploadVars => [Late]_uploadVars
  <2> SUFFICES ASSUME UploadInv, UploadNext, NEW u \in Uploads,
                      ~editable, hasRow'[u], ~hasRow[u]
               PROVE  submitted[u]
    OBVIOUS
  <2>1. \E v \in Uploads : InsertRow(v)
    BY DEF UploadNext, SubmitExpense, ReturnExpense, StartUpload, RefuseUpload,
           WriteChunk, TooLarge, Saved, CutOff
  <2> QED
    BY <2>1 DEF InsertRow, Proceed, UploadInv, UploadTypeOK, InFlight
<1> QED
  BY <1>1, <1>2, <1>3, PTL DEF UploadSpec, LateEvidenceWasInFlight

----------------------------------------------------------------------------
(* The draft.  At most one worker has the run, and it is RUNNING then; a   *)
(* worker that found no text before a draft was stored is the one that     *)
(* stores it.                                                              *)

Working == {"claimed", "asking", "storing", "finishing"}

OneAtWork ==
  /\ \A w \in Drafters : at[w] \in Working => run = "RUNNING"
  /\ \A v, w \in Drafters : at[v] \in Working /\ at[w] \in Working => v = w

DraftIsFirst ==
  /\ drafted => narrative # "NULL"
  /\ \A w \in Drafters : at[w] \in {"asking", "storing"} /\ copy[w] = "NULL" => ~drafted

NarrativeInv ==
  /\ NarrativeTypeOK
  /\ (run = "ABSENT") <=> (phase = "ABSENT")
  /\ run = "ABSENT" => tries = 0
  /\ OneAtWork
  /\ DraftIsFirst

(* Before the report there is neither run nor text.                        *)
LEMMA NarrativeInitInv == NarrativeInit => NarrativeInv
<1> SUFFICES ASSUME NarrativeInit PROVE NarrativeInv
  OBVIOUS
<1>1. NarrativeTypeOK
  <2>1. tries = 0 /\ deaths = 0 /\ 0 \in 0 .. Tries /\ 0 \in 0 .. MaxDeaths
    BY NarrativeAssumption DEF NarrativeInit
  <2>2. /\ at \in [Drafters -> {"idle", "claimed", "asking", "storing", "finishing", "failed"}]
        /\ copy \in [Drafters -> Narratives]
        /\ editing \in [Writers -> Narratives \union {NotEditing}]
    BY DEF NarrativeInit, Narratives
  <2>3. narrative \in Narratives
    BY DEF NarrativeInit, Narratives
  <2> QED
    BY <2>1, <2>2, <2>3 DEF NarrativeInit, NarrativeTypeOK
<1>2. OneAtWork
  BY DEF NarrativeInit, OneAtWork, Working
<1>3. DraftIsFirst
  BY DEF NarrativeInit, DraftIsFirst
<1> QED
  BY <1>1, <1>2, <1>3 DEF NarrativeInit, NarrativeInv

(* What the managers do preserves the invariant.                           *)
LEMMA ManagerStepInv == NarrativeInv /\ ManagerStep => NarrativeInv'
<1> SUFFICES ASSUME NarrativeInv, ManagerStep PROVE NarrativeInv'
  OBVIOUS
<1> USE NarrativeAssumption
    DEF NarrativeInv, NarrativeTypeOK, OneAtWork, DraftIsFirst, Working, Narratives,
        NotEditing
<1>1. CASE OpenReport
  BY <1>1 DEF OpenReport
<1>2. CASE Finalize
  BY <1>2 DEF Finalize
<1>3. ASSUME NEW m \in Writers, BeginWriting(m) PROVE NarrativeInv'
  BY <1>3 DEF BeginWriting
<1>4. ASSUME NEW m \in Writers, NEW text \in Texts, Write(m, text) PROVE NarrativeInv'
  <2>1. narrative' \in {narrative, text} /\ text \in Narratives /\ text # "NULL"
    BY <1>4 DEF Write
  <2>2. /\ editing' \in [Writers -> Narratives \union {NotEditing}]
        /\ UNCHANGED <<phase, drafted, run, tries, at, copy, deaths, told>>
    BY <1>4 DEF Write
  <2> QED
    BY <2>1, <2>2
<1> QED
  BY <1>1, <1>2, <1>3, <1>4 DEF ManagerStep

(* What the workers do preserves it.                                       *)
LEMMA DrafterStepInv ==
  ASSUME NarrativeInv, NEW w \in Drafters, DrafterStep(w)
  PROVE  NarrativeInv'
<1> USE NarrativeAssumption
    DEF NarrativeInv, NarrativeTypeOK, OneAtWork, DraftIsFirst, Working, Narratives,
        NotEditing, GoTo, LetGo
<1>1. CASE ClaimRun(w)
  BY <1>1 DEF ClaimRun
<1>2. CASE LoadReport(w)
  BY <1>2 DEF LoadReport
<1>3. CASE SkipDraft(w)
  BY <1>3 DEF SkipDraft
<1>4. CASE ReceiveDraft(w)
  BY <1>4 DEF ReceiveDraft
<1>5. CASE DoWithoutDraft(w)
  BY <1>5 DEF DoWithoutDraft
<1>6. CASE StoreDraft(w)
  BY <1>6 DEF StoreDraft
<1>7. CASE FinishRun(w)
  BY <1>7 DEF FinishRun
<1>8. CASE FailRun(w)
  BY <1>8 DEF FailRun
<1>9. CASE ReportFailure(w)
  BY <1>9 DEF ReportFailure
<1>10. CASE Reclaim(w)
  BY <1>10 DEF Reclaim
<1>11. CASE Die(w)
  BY <1>11 DEF Die
<1> QED
  BY <1>1, <1>2, <1>3, <1>4, <1>5, <1>6, <1>7, <1>8, <1>9, <1>10, <1>11
     DEF DrafterStep, Draft

(* Together.                                                               *)
LEMMA NarrativeNextInv ==
  NarrativeInv /\ [NarrativeNext]_narrativeVars => NarrativeInv'
<1> SUFFICES ASSUME NarrativeInv, [NarrativeNext]_narrativeVars PROVE NarrativeInv'
  OBVIOUS
<1>1. CASE UNCHANGED narrativeVars
  BY <1>1 DEF narrativeVars, NarrativeInv, NarrativeTypeOK, OneAtWork, DraftIsFirst
<1> QED
  BY <1>1, ManagerStepInv, DrafterStepInv DEF NarrativeNext

(* The model is well typed, and a run in the queue has an attempt left.    *)
THEOREM NarrativeTypeCorrect == NarrativeSpec => []NarrativeTypeOK
<1>1. NarrativeInit => NarrativeInv
  BY NarrativeInitInv
<1>2. NarrativeInv /\ [NarrativeNext]_narrativeVars => NarrativeInv'
  BY NarrativeNextInv
<1>3. NarrativeInv => NarrativeTypeOK
  BY DEF NarrativeInv
<1> QED
  BY <1>1, <1>2, <1>3, PTL DEF NarrativeSpec

(* Neither a retry nor a reclaimed run stores the AI's draft a second time *)
(* (run_report_generation, services/report.py).                            *)
THEOREM DraftStoredOnce == NarrativeSpec => DraftedOnce
<1> DEFINE Once == drafted /\ narrative' # narrative => narrative' \in Texts
<1>1. NarrativeInit => NarrativeInv
  BY NarrativeInitInv
<1>2. NarrativeInv /\ [NarrativeNext]_narrativeVars => NarrativeInv'
  BY NarrativeNextInv
<1>3. NarrativeInv /\ [NarrativeNext]_narrativeVars => [Once]_narrativeVars
  <2> SUFFICES ASSUME NarrativeInv, NarrativeNext, drafted, narrative' # narrative
               PROVE  narrative' \in Texts
    OBVIOUS
  <2>1. CASE ManagerStep
    BY <2>1 DEF ManagerStep, OpenReport, Finalize, BeginWriting, Write
  <2>2. ASSUME NEW w \in Drafters, DrafterStep(w) PROVE narrative' \in Texts
    <3>1. StoreDraft(w)
      BY <2>2 DEF DrafterStep, Draft, ClaimRun, LoadReport, SkipDraft, ReceiveDraft,
                  DoWithoutDraft, FinishRun, FailRun, ReportFailure, Reclaim, Die
    <3> QED
      BY <3>1 DEF StoreDraft, NarrativeInv, DraftIsFirst
  <2> QED
    BY <2>1, <2>2 DEF NarrativeNext
<1> QED
  BY <1>1, <1>2, <1>3, PTL DEF NarrativeSpec, DraftedOnce

(* A run that was carried through has told its author, unless the report   *)
(* was final; one that failed has told the managers, is about to, or lost  *)
(* its worker.  This is SomebodyTold without the fairness.                 *)
EndIsTold ==
  /\ run = "SUCCEEDED" => told # {} \/ phase = "FINAL"
  /\ run = "FAILED" =>
       told # {} \/ deaths > 0 \/ \E w \in Drafters : at[w] = "failed"

(* What leads there: who finishes has told, and only a death leaves a run  *)
(* RUNNING that nobody works on.                                           *)
ToldInv ==
  /\ EndIsTold
  /\ \A w \in Drafters : at[w] = "finishing" => told # {} \/ phase = "FINAL"
  /\ run = "RUNNING" => deaths > 0 \/ \E w \in Drafters : at[w] \in Working

LEMMA ToldStep ==
  ASSUME NarrativeInv, NarrativeInv', ToldInv, NEW w \in Drafters, DrafterStep(w)
  PROVE  ToldInv'
<1> USE DEF GoTo, LetGo, Working, NarrativeInv, NarrativeTypeOK, ToldInv, EndIsTold
<1>1. CASE ClaimRun(w)
  BY <1>1 DEF ClaimRun
<1>2. CASE LoadReport(w)
  BY <1>2 DEF LoadReport, OneAtWork
<1>3. CASE SkipDraft(w)
  BY <1>3 DEF SkipDraft, OneAtWork
<1>4. CASE ReceiveDraft(w)
  BY <1>4 DEF ReceiveDraft, OneAtWork
<1>5. CASE DoWithoutDraft(w)
  BY <1>5 DEF DoWithoutDraft, OneAtWork
<1>6. CASE StoreDraft(w)
  BY <1>6 DEF StoreDraft, OneAtWork
<1>7. CASE FinishRun(w)
  BY <1>7 DEF FinishRun
<1>8. CASE FailRun(w)
  BY <1>8 DEF FailRun
<1>9. CASE ReportFailure(w)
  BY <1>9 DEF ReportFailure
<1>10. CASE Reclaim(w)
  BY <1>10 DEF Reclaim
<1>11. CASE Die(w)
  BY <1>11, NarrativeAssumption DEF Die
<1> QED
  BY <1>1, <1>2, <1>3, <1>4, <1>5, <1>6, <1>7, <1>8, <1>9, <1>10, <1>11
     DEF DrafterStep, Draft

(* No run ends in silence while workers live (worker.py:8): somebody has   *)
(* been told of every end, or a worker is about to tell.                   *)
THEOREM EndsAlwaysTold == NarrativeSpec => []EndIsTold
<1>1. NarrativeInit => NarrativeInv /\ ToldInv
  BY NarrativeInitInv DEF NarrativeInit, ToldInv, EndIsTold
<1>2. NarrativeInv /\ ToldInv /\ [NarrativeNext]_narrativeVars
        => NarrativeInv' /\ ToldInv'
  <2> SUFFICES ASSUME NarrativeInv, ToldInv, [NarrativeNext]_narrativeVars
               PROVE  NarrativeInv' /\ ToldInv'
    OBVIOUS
  <2>1. NarrativeInv'
    BY NarrativeNextInv
  <2>2. CASE UNCHANGED narrativeVars
    BY <2>1, <2>2 DEF narrativeVars, ToldInv, EndIsTold
  <2>3. CASE ManagerStep
    BY <2>1, <2>3 DEF ManagerStep, OpenReport, Finalize, BeginWriting, Write,
                      ToldInv, EndIsTold, NarrativeInv, OneAtWork, Working
  <2> QED
    BY <2>1, <2>2, <2>3, ToldStep DEF NarrativeNext
<1>3. ToldInv => EndIsTold
  BY DEF ToldInv
<1> QED
  BY <1>1, <1>2, <1>3, PTL DEF NarrativeSpec

(* Those who may still change the text of a report: managers who have      *)
(* loaded it to write, and workers that wait for a draft or have one.      *)
InHand ==
  {m \in Writers : editing[m] # NotEditing}
  \union {w \in Drafters : at[w] \in {"asking", "storing"}}

(* Once a report is final, nobody joins those who had passed the unlocked  *)
(* test of its status before, and whoever changes the text has left them:  *)
(* the text changes at most once for each, which is why it comes to rest   *)
(* (FinalTextSettles).  Writers and workers are different sessions.        *)
THEOREM FinalWritersRunOut ==
  ASSUME Writers \intersect Drafters = {}
  PROVE  NarrativeSpec =>
           [][phase = "FINAL" =>
                /\ phase' = "FINAL"
                /\ InHand' \subseteq InHand
                /\ narrative' # narrative => InHand' # InHand]_narrativeVars
<1> DEFINE Fewer == /\ phase' = "FINAL"
                    /\ InHand' \subseteq InHand
                    /\ narrative' # narrative => InHand' # InHand
<1>1. NarrativeInv /\ [NarrativeNext]_narrativeVars
        => [phase = "FINAL" => Fewer]_narrativeVars
  <2> SUFFICES ASSUME NarrativeInv, NarrativeNext, phase = "FINAL"
               PROVE  Fewer
    OBVIOUS
  <2> USE DEF NarrativeInv, NarrativeTypeOK
  <2>1. ASSUME NEW m \in Writers, NEW text \in Texts, Write(m, text)
        PROVE  Fewer
    <3>1. m \in InHand /\ m \notin InHand'
      BY <2>1 DEF Write, InHand
    <3> QED
      BY <2>1, <3>1 DEF Write, InHand
  <2>2. CASE OpenReport \/ Finalize \/ \E m \in Writers : BeginWriting(m)
    BY <2>2 DEF OpenReport, Finalize, BeginWriting
  <2>3. ASSUME NEW w \in Drafters, StoreDraft(w)
        PROVE  Fewer
    <3>1. w \in InHand /\ w \notin InHand'
      BY <2>3 DEF StoreDraft, GoTo, InHand
    <3> QED
      BY <2>3, <3>1 DEF StoreDraft, GoTo, InHand
  <2>4. ASSUME NEW w \in Drafters, DrafterStep(w), ~StoreDraft(w)
        PROVE  Fewer
    <3>1. /\ UNCHANGED <<phase, narrative, editing>>
          /\ \A v \in Drafters : at'[v] \in {"asking", "storing"} =>
               at[v] \in {"asking", "storing"}
      BY <2>4 DEF DrafterStep, Draft, ClaimRun, LoadReport, SkipDraft, ReceiveDraft,
                  DoWithoutDraft, FinishRun, FailRun, ReportFailure, Reclaim, Die,
                  GoTo, LetGo
    <3> QED
      BY <3>1 DEF InHand
  <2> QED
    BY <2>1, <2>2, <2>3, <2>4 DEF NarrativeNext, ManagerStep
<1>2. NarrativeInit => NarrativeInv
  BY NarrativeInitInv
<1>3. NarrativeInv /\ [NarrativeNext]_narrativeVars => NarrativeInv'
  BY NarrativeNextInv
<1> QED
  BY <1>1, <1>2, <1>3, PTL DEF NarrativeSpec

----------------------------------------------------------------------------
(* Projects.  What the requests hold is what makes their statements safe:  *)
(* a body in order, and constraints that judge the row as it is by then.   *)

LEMMA ProjectsInitSound == ProjectsInit => ProjectsSound
<1> SUFFICES ASSUME ProjectsInit PROVE ProjectsSound
  OBVIOUS
<1>1. 1 \in Days /\ NoChange \in (Days \union {Kept}) \X (Days \union {Kept})
  BY ProjectAssumption DEF Days, NoChange
<1>2. ProjectsTypeOK
  BY <1>1 DEF ProjectsInit, ProjectsTypeOK
<1> QED
  BY <1>2 DEF ProjectsInit, ProjectsSound, Exists

(* The end of a request leaves the administrators' sessions well typed.    *)
LEMMA EndAdminTyped ==
  ASSUME ProjectsTypeOK, NEW a \in Admins, EndAdmin(a)
  PROVE  /\ doing' \in [Admins -> {"nothing", "create", "update"}]
         /\ body' \in [Admins -> Bodies \union {AnyBody}]
         /\ \A b \in Admins : doing'[b] = "create" => body'[b] \in Bodies
         /\ subject' \in [Admins -> Projects \union {0}]
         /\ \A b \in Admins : doing'[b] = "update" => subject'[b] \in Projects
         /\ changes' \in [Admins -> (Days \union {Kept}) \X (Days \union {Kept})]
<1>1. NoChange \in (Days \union {Kept}) \X (Days \union {Kept})
  BY DEF NoChange
<1> HIDE DEF NoChange, AnyBody
<1> QED
  BY <1>1 DEF ProjectsTypeOK, EndAdmin

(* A project may get its lines when it is created, and keeps code and lines*)
(* from then on.                                                           *)
LinesStay ==
  \A p \in Projects :
    IF Exists(p) THEN code'[p] = code[p] /\ budgetLines'[p] = budgetLines[p]
    ELSE Exists(p)' \/ budgetLines'[p] = budgetLines[p]

LEMMA CheckCodeSound ==
  ASSUME ProjectsSound, NEW a \in Admins, NEW new \in Bodies, CheckCode(a, new)
  PROVE  ProjectsSound' /\ LinesStay
<1>1. ProjectsTypeOK'
  BY DEF CheckCode, ProjectsSound, ProjectsTypeOK, projectVars
<1> QED
  BY <1>1 DEF CheckCode, ProjectsSound, projectVars, Exists, Ordered, LinesStay

LEMMA InsertProjectSound ==
  ASSUME ProjectsSound, NEW a \in Admins, InsertProject(a)
  PROVE  ProjectsSound' /\ LinesStay
<1>1. EndAdmin(a) /\ body[a] \in Bodies
  BY DEF InsertProject, ProjectsSound, ProjectsTypeOK
<1>2. CASE UNCHANGED projectVars
  <2>1. ProjectsTypeOK'
    BY <1>1, <1>2, EndAdminTyped DEF ProjectsSound, ProjectsTypeOK, projectVars
  <2> QED
    BY <1>2, <2>1 DEF ProjectsSound, projectVars, Exists, Ordered, LinesStay
<1>3. ASSUME \A p \in Projects : code[p] # body[a].code,
             NEW p \in Projects, NewProject(a, p)
      PROVE  ProjectsSound' /\ LinesStay
  <2>1. /\ body[a].code \in Codes
        /\ body[a].period \in Days \X Days /\ Ordered(body[a].period)
        /\ body[a].lines \in SUBSET Categories /\ body[a].lines # {}
    <3>1. /\ body[a].code \in Codes
          /\ body[a].period \in {d \in Days \X Days : Ordered(d)}
          /\ body[a].lines \in {l \in SUBSET Categories : l # {}}
      BY <1>1 DEF Bodies
    <3>2. body[a].period \in Days \X Days /\ Ordered(body[a].period)
      BY <3>1
    <3>3. body[a].lines \in SUBSET Categories /\ body[a].lines # {}
      BY <3>1
    <3> QED BY <3>1, <3>2, <3>3
  <2>2. /\ code[p] = NoCode
        /\ code' = [code EXCEPT ![p] = body[a].code]
        /\ period' = [period EXCEPT ![p] = body[a].period]
        /\ budgetLines' = [budgetLines EXCEPT ![p] = body[a].lines]
    BY <1>3 DEF NewProject
  <2>3. ProjectsTypeOK'
    BY <1>1, <2>1, <2>2, EndAdminTyped DEF ProjectsSound, ProjectsTypeOK
  <2>4. ASSUME NEW q \in Projects, NEW r \in Projects,
               Exists(q)', code'[q] = code'[r]
        PROVE  q = r
    BY <1>3, <2>2, <2>4 DEF ProjectsSound, ProjectsTypeOK, Exists
  <2>5. ASSUME NEW q \in Projects, Exists(q)'
        PROVE  Ordered(period'[q]) /\ budgetLines'[q] # {}
    <3>1. CASE q = p
      BY <2>1, <2>2, <3>1 DEF ProjectsSound, ProjectsTypeOK
    <3>2. CASE q # p
      BY <2>2, <2>5, <3>2 DEF ProjectsSound, ProjectsTypeOK, Exists
    <3> QED BY <3>1, <3>2
  <2>6. LinesStay
    BY <2>1, <2>2, ProjectAssumption DEF LinesStay, Exists, ProjectsSound, ProjectsTypeOK
  <2> QED
    BY <2>3, <2>4, <2>5, <2>6 DEF ProjectsSound, Exists, Ordered
<1> QED
  BY <1>2, <1>3 DEF InsertProject

LEMMA LoadProjectSound ==
  ASSUME ProjectsSound, NEW a \in Admins, NEW p \in Projects,
         NEW new \in (Days \union {Kept}) \X (Days \union {Kept}),
         LoadProject(a, p, new)
  PROVE  ProjectsSound' /\ LinesStay
<1>1. <<Changed(period[p][1], new[1]), Changed(period[p][2], new[2])>>
        \in (Days \union {Kept}) \X (Days \union {Kept})
  BY DEF Changed
<1>2. ProjectsTypeOK'
  BY <1>1 DEF LoadProject, ProjectsSound, ProjectsTypeOK, projectVars
<1> QED
  BY <1>2 DEF LoadProject, ProjectsSound, projectVars, Exists, Ordered, LinesStay

LEMMA SaveProjectSound ==
  ASSUME ProjectsSound, NEW a \in Admins, SaveProject(a)
  PROVE  ProjectsSound' /\ LinesStay
<1> DEFINE p == subject[a]
           saved == Updated(period[p], changes[a])
<1>1. /\ EndAdmin(a) /\ p \in Projects
      /\ period' = [period EXCEPT ![p] = IF Ordered(saved) THEN saved ELSE @]
      /\ UNCHANGED <<code, budgetLines>>
  BY DEF SaveProject, ProjectsSound, ProjectsTypeOK
<1>2. saved \in Days \X Days
  <2>1. /\ period[p][1] \in Days /\ period[p][2] \in Days
        /\ changes[a][1] \in Days \union {Kept} /\ changes[a][2] \in Days \union {Kept}
    BY <1>1 DEF ProjectsSound, ProjectsTypeOK
  <2> QED
    BY <2>1 DEF Updated, Put
<1>3. ProjectsTypeOK'
  BY <1>1, <1>2, EndAdminTyped DEF ProjectsSound, ProjectsTypeOK
<1>4. ASSUME NEW q \in Projects, Exists(q) PROVE Ordered(period'[q])
  BY <1>1, <1>4 DEF ProjectsSound, ProjectsTypeOK
<1> QED
  BY <1>1, <1>3, <1>4 DEF ProjectsSound, Exists, Ordered, LinesStay

LEMMA CutOffAdminSound ==
  ASSUME ProjectsSound, NEW a \in Admins, CutOffAdmin(a)
  PROVE  ProjectsSound' /\ LinesStay
<1>1. ProjectsTypeOK'
  BY EndAdminTyped DEF CutOffAdmin, ProjectsSound, ProjectsTypeOK, projectVars
<1> QED
  BY <1>1 DEF CutOffAdmin, ProjectsSound, projectVars, Exists, Ordered, LinesStay

LEMMA ProjectsNextSound ==
  ProjectsSound /\ [ProjectsNext]_tableVars => ProjectsSound' /\ LinesStay
<1> SUFFICES ASSUME ProjectsSound, [ProjectsNext]_tableVars
             PROVE  ProjectsSound' /\ LinesStay
  OBVIOUS
<1>1. CASE UNCHANGED tableVars
  BY <1>1 DEF tableVars, projectVars, adminVars, ProjectsSound, ProjectsTypeOK,
              Exists, Ordered, LinesStay
<1> QED
  BY <1>1, CheckCodeSound, InsertProjectSound, LoadProjectSound, SaveProjectSound,
     CutOffAdminSound DEF ProjectsNext

(* Whoever creates and updates projects at the same time, a code is        *)
(* registered once and a period is in order: the unique constraint and the *)
(* check constraint of table projects decide, not the tests before them    *)
(* (create_project and update_project, api/routes/projects.py).            *)
THEOREM ProjectsAlwaysSound == ProjectsSpec => []ProjectsSound
<1>1. ProjectsSound /\ [ProjectsNext]_tableVars => ProjectsSound'
  BY ProjectsNextSound
<1> QED
  BY <1>1, ProjectsInitSound, PTL DEF ProjectsSpec

----------------------------------------------------------------------------
(* The dashboard.  Approved expenses have their lines, and what a read has *)
(* seen is still so when it reads on.                                      *)

(* Lines come with their project and stay; what is approved has one.       *)
ClaimsBacked ==
  /\ \A p \in Projects : ~Exists(p) => budgetLines[p] = {}
  /\ \A e \in Claims : owner[e] # 0 => Exists(owner[e])
  /\ \A e \in granted : owner[e] # 0 /\ filed[e] \in budgetLines[owner[e]]

(* A read has all lines of a project or none of them.                      *)
LinesWhole(v) ==
  \A p \in Projects, c \in Categories : <<p, c>> \in linesRead[v] =>
    /\ c \in budgetLines[p]
    /\ \A d \in budgetLines[p] : <<p, d>> \in linesRead[v]

(* What a read has counted stays approved, and it has counted nothing yet  *)
(* that it is to read later.                                               *)
ReadsCurrent(v) ==
  /\ \A e \in (usage[v] \union inCounts[v]) \ LateClaims : e \in granted /\ InScope(v, e)
  /\ progress[v] \in {"idle", "lines"} => usage[v] = {}
  /\ progress[v] \in {"idle", "lines", "usage"} => inCounts[v] = {}

DashboardInv ==
  /\ ProjectsSound
  /\ DashboardTypeOK
  /\ ClaimsBacked
  /\ \A v \in Viewers :
       LinesWhole(v) /\ ReadsCurrent(v) /\ UsedIsCounted(v) /\ CountedIsShown(v)

(* Of a finite set of months one is the latest.                            *)
LEMMA LatestMonth ==
  ASSUME NEW M, IsFiniteSet(M), M \subseteq Int, M # {}
  PROVE  \E d \in M : \A k \in M : k <= d
<1> DEFINE After(d) == {k \in M : k > d}
           T == {After(d) : d \in M}
<1>1. IsWellFoundedOn(StrictSubsetOrdering(M), FiniteSubsetsOf(M))
  BY FS_StrictSubsetOrderingWellFounded
<1>2. T \subseteq FiniteSubsetsOf(M)
  BY FS_Subset DEF FiniteSubsetsOf
<1>3. PICK S \in T : \A R \in T : <<R, S>> \notin StrictSubsetOrdering(M)
  <2> HIDE DEF T
  <2>1. T # {}
    BY DEF T
  <2> QED BY <1>1, <1>2, <2>1, WFMin
<1>4. PICK d \in M : S = After(d)
  OBVIOUS
<1>5. ASSUME NEW k \in M, k > d PROVE FALSE
  <2>1. After(k) \subseteq S /\ k \in S /\ k \notin After(k)
    <3>1. d \in Int /\ k \in Int /\ \A j \in M : j \in Int
      OBVIOUS
    <3>2. \A j : j \in After(k) <=> j \in M /\ j > k
      OBVIOUS
    <3>3. \A j : j \in S <=> j \in M /\ j > d
      BY <1>4
    <3> HIDE DEF After
    <3>4. After(k) \subseteq S
      BY <1>5, <3>1, <3>2, <3>3
    <3> QED BY <1>5, <3>1, <3>2, <3>3, <3>4
  <2>2. <<After(k), S>> \in StrictSubsetOrdering(M)
    <3>1. After(k) \in SUBSET M /\ S \in SUBSET M /\ After(k) # S
      BY <1>4, <2>1
    <3> HIDE DEF After
    <3> QED BY <2>1, <3>1 DEF StrictSubsetOrdering
  <2>3. After(k) \in T
    OBVIOUS
  <2> QED BY <1>3, <2>2, <2>3
<1> QED
  BY <1>4, <1>5

(* The trend shows the latest months: if it leaves one out, it shows       *)
(* another, and only later ones.                                           *)
LEMMA TrendShowsLatest ==
  ASSUME DashboardTypeOK, NEW v \in Viewers,
         NEW d \in MonthsWithData(v) \ ShownMonths(v)
  PROVE  ShownMonths(v) # {} /\ \A k \in ShownMonths(v) : d < k
<1> DEFINE M == MonthsWithData(v)
           After(k) == {j \in M : j > k}
<1>1. M \subseteq Months /\ M \subseteq Int
  BY DEF MonthsWithData, DashboardTypeOK, Months
<1>2. IsFiniteSet(M)
  <2>1. IsFiniteSet(Months)
    BY DashboardAssumption, FS_Interval DEF Months
  <2> QED BY <1>1, <2>1, FS_Subset
<1>3. \A k \in M : IsFiniteSet(After(k)) /\ Cardinality(After(k)) \in Nat
  BY <1>2, FS_Subset, FS_CardinalityType
<1>4. ShownMonths(v) = {k \in M : Cardinality(After(k)) < Shown}
  BY DEF ShownMonths
<1>5. d \in M /\ Cardinality(After(d)) >= Shown
  <2>1. d \in M /\ d \notin ShownMonths(v)
    OBVIOUS
  <2> HIDE DEF M, After
  <2> QED BY <1>3, <1>4, <2>1, DashboardAssumption
<1> HIDE DEF M
<1>6. ASSUME NEW k \in ShownMonths(v), k <= d PROVE FALSE
  <2>1. k \in M /\ Cardinality(After(k)) < Shown
    <3> HIDE DEF After
    <3> QED BY <1>4, <1>6
  <2>2. After(d) \subseteq After(k)
    <3>1. d \in Int /\ k \in Int /\ \A j \in M : j \in Int
      BY <1>1, <1>5, <2>1
    <3> QED BY <1>6, <3>1
  <2> HIDE DEF After
  <2>3. Cardinality(After(d)) <= Cardinality(After(k))
    BY <1>3, <2>1, <2>2, FS_Subset
  <2> QED BY <1>3, <1>5, <2>1, <2>3, DashboardAssumption
<1>7. ShownMonths(v) # {}
  <2>1. PICK k \in M : \A j \in M : j <= k
    BY <1>1, <1>2, <1>5, LatestMonth
  <2>2. After(k) = {}
    <3>1. k \in Int /\ \A j \in M : j \in Int
      BY <1>1, <2>1
    <3>2. \A j \in M : ~(j > k)
      BY <2>1, <3>1
    <3> QED BY <3>2
  <2> HIDE DEF After
  <2>3. Cardinality(After(k)) = 0
    BY <2>2, FS_EmptySet
  <2> QED BY <1>4, <2>1, <2>3, DashboardAssumption
<1>8. ASSUME NEW k \in ShownMonths(v) PROVE d < k
  <2> HIDE DEF After
  <2>1. k \in Int /\ d \in Int
    BY <1>1, <1>4, <1>5
  <2> QED BY <1>6, <2>1
<1> QED
  BY <1>7, <1>8

LEMMA DashboardInitInv == DashboardInit => DashboardInv
<1> SUFFICES ASSUME DashboardInit PROVE DashboardInv
  OBVIOUS
<1>1. ProjectsSound
  BY ProjectsInitSound DEF DashboardInit
<1>2. DashboardTypeOK
  <2>1. 1 \in Months
    BY DashboardAssumption DEF Months
  <2> QED BY <2>1, DashboardAssumption
    DEF DashboardInit, ClaimsInit, ViewsInit, DashboardTypeOK, Progress, All, AnyCategory
<1>3. ClaimsBacked
  BY DEF DashboardInit, ClaimsInit, ProjectsInit, ClaimsBacked, Exists
<1>4. \A v \in Viewers :
        LinesWhole(v) /\ ReadsCurrent(v) /\ UsedIsCounted(v) /\ CountedIsShown(v)
  BY DEF DashboardInit, ViewsInit, LinesWhole, ReadsCurrent, UsedIsCounted, CountedIsShown
<1> QED
  BY <1>1, <1>2, <1>3, <1>4 DEF DashboardInv

(* Creating and updating projects.                                         *)
LEMMA ProjectStepInv ==
  ASSUME DashboardInv, ProjectsNext, UNCHANGED <<claimVars, viewVars>>
  PROVE  DashboardInv'
<1>1. ProjectsSound' /\ LinesStay
  BY ProjectsNextSound DEF DashboardInv
<1>2. DashboardTypeOK'
  BY DEF DashboardInv, DashboardTypeOK, claimVars, viewVars
<1>3. ClaimsBacked'
  <2>1. \A p \in Projects : ~Exists(p)' => budgetLines'[p] = {}
    BY <1>1 DEF LinesStay, DashboardInv, ClaimsBacked, Exists
  <2>2. \A e \in Claims : owner[e] # 0 =>
          /\ owner[e] \in Projects /\ code'[owner[e]] # NoCode
          /\ budgetLines'[owner[e]] = budgetLines[owner[e]]
    BY <1>1 DEF LinesStay, DashboardInv, DashboardTypeOK, ClaimsBacked, Exists
  <2>3. granted \in SUBSET Claims
    BY DEF DashboardInv, DashboardTypeOK
  <2> QED
    BY <2>1, <2>2, <2>3 DEF DashboardInv, ClaimsBacked, claimVars, Exists
<1>4. ASSUME NEW v \in Viewers PROVE LinesWhole(v)'
  <2>1. \A p \in Projects : budgetLines[p] # {} => budgetLines'[p] = budgetLines[p]
    BY <1>1 DEF LinesStay, DashboardInv, ClaimsBacked
  <2> QED
    BY <2>1 DEF DashboardInv, LinesWhole, viewVars
<1>5. ASSUME NEW v \in Viewers
      PROVE  ReadsCurrent(v)' /\ UsedIsCounted(v)' /\ CountedIsShown(v)'
  BY DEF DashboardInv, ReadsCurrent, UsedIsCounted, CountedIsShown, InScope,
         claimVars, viewVars
<1> QED
  BY <1>1, <1>2, <1>3, <1>4, <1>5 DEF DashboardInv

(* What happens to expenses.                                               *)
LEMMA ClaimStepInv ==
  ASSUME DashboardInv, NEW e \in Claims,
         \/ \E p \in Projects, c \in Categories, d \in Months : CreateClaim(e, p, c, d)
         \/ \E c \in Categories, d \in Months : EditClaim(e, c, d)
         \/ GrantClaim(e)
         \/ ReopenClaim(e)
  PROVE  DashboardInv'
<1>1. UNCHANGED <<tableVars, viewVars>>
  BY DEF CreateClaim, EditClaim, GrantClaim, ReopenClaim
<1>2. ProjectsSound'
  BY <1>1, ProjectsNextSound DEF DashboardInv
<1>3. /\ owner' \in [Claims -> Projects \union {0}] /\ filed' \in [Claims -> Categories]
      /\ dated' \in [Claims -> Months] /\ granted' \in SUBSET Claims
  BY DEF CreateClaim, EditClaim, GrantClaim, ReopenClaim, DashboardInv, DashboardTypeOK
<1>4. DashboardTypeOK'
  BY <1>1, <1>3 DEF DashboardInv, DashboardTypeOK, viewVars
<1>5. granted \ LateClaims \subseteq granted'
  BY DEF CreateClaim, EditClaim, GrantClaim, ReopenClaim
<1>6. \A f \in granted : owner'[f] = owner[f] /\ filed'[f] = filed[f] /\ dated'[f] = dated[f]
  BY DEF CreateClaim, EditClaim, GrantClaim, ReopenClaim, DashboardInv, DashboardTypeOK,
         ClaimsBacked
<1>7. ClaimsBacked'
  <2>1. \A p \in Projects : ~Exists(p)' => budgetLines'[p] = {}
    BY <1>1 DEF DashboardInv, ClaimsBacked, tableVars, projectVars, Exists
  <2>2. \A f \in Claims : owner'[f] # 0 => Exists(owner'[f])
    BY DEF CreateClaim, EditClaim, GrantClaim, ReopenClaim, DashboardInv,
           DashboardTypeOK, ClaimsBacked
  <2>3. \A f \in granted' : owner'[f] # 0 /\ filed'[f] \in budgetLines[owner'[f]]
    <3>1. \A f \in granted' : f \in granted \/ (f = e /\ GrantClaim(e))
      BY DEF CreateClaim, EditClaim, GrantClaim, ReopenClaim
    <3> QED BY <1>6, <3>1 DEF GrantClaim, DashboardInv, ClaimsBacked
  <2> QED
    BY <1>1, <2>1, <2>2, <2>3 DEF ClaimsBacked, tableVars, projectVars, Exists
<1>8. ASSUME NEW v \in Viewers
      PROVE  /\ LinesWhole(v)' /\ ReadsCurrent(v)'
             /\ UsedIsCounted(v)' /\ CountedIsShown(v)'
  <2>1. LinesWhole(v)' /\ UsedIsCounted(v)'
    BY <1>1 DEF DashboardInv, LinesWhole, UsedIsCounted, tableVars, projectVars, viewVars
  <2>2. ReadsCurrent(v)'
    BY <1>1, <1>5, <1>6 DEF DashboardInv, ReadsCurrent, InScope, viewVars
  <2>3. CountedIsShown(v)'
    BY <1>1, <1>6 DEF DashboardInv, ReadsCurrent, CountedIsShown, viewVars
  <2> QED BY <2>1, <2>2, <2>3
<1> QED
  BY <1>2, <1>4, <1>7, <1>8 DEF DashboardInv

(* The statements of a read: the trend is where the months count.          *)
LEMMA ViewStepInv ==
  ASSUME DashboardInv, NEW v \in Viewers,
         \/ \E s \in Projects \union {All} : ReadBudgets(v, s)
         \/ ReadUsage(v) \/ ReadCounts(v) \/ ReadTrend(v)
         \/ EndRead(v)
  PROVE  DashboardInv'
<1>1. UNCHANGED <<tableVars, claimVars>>
  BY DEF ReadBudgets, ReadUsage, ReadCounts, ReadTrend, EndRead, ReadTo
<1>2. ProjectsSound' /\ ClaimsBacked'
  BY <1>1, ProjectsNextSound
  DEF DashboardInv, ClaimsBacked, tableVars, claimVars, projectVars, Exists
<1> DEFINE Good(w) == /\ LinesWhole(w) /\ ReadsCurrent(w)
                      /\ UsedIsCounted(w) /\ CountedIsShown(w)
<1>3. ASSUME NEW w \in Viewers, w # v PROVE Good(w)'
  <2>1. /\ progress'[w] = progress[w] /\ scope'[w] = scope[w]
        /\ linesRead'[w] = linesRead[w] /\ usage'[w] = usage[w]
        /\ inCounts'[w] = inCounts[w] /\ trend'[w] = trend[w]
    BY <1>3 DEF ReadBudgets, ReadUsage, ReadCounts, ReadTrend, EndRead, ReadTo,
                DashboardInv, DashboardTypeOK
  <2> QED
    BY <1>1, <2>1 DEF DashboardInv, LinesWhole, ReadsCurrent, UsedIsCounted,
       CountedIsShown, InScope, tableVars, projectVars, claimVars
<1>4. DashboardTypeOK' /\ Good(v)'
  <2> USE <1>1 DEF DashboardInv, DashboardTypeOK, claimVars, tableVars, projectVars
  <2>1. ASSUME NEW s \in Projects \union {All}, ReadBudgets(v, s)
        PROVE  DashboardTypeOK' /\ Good(v)'
    <3>1. DashboardTypeOK'
      BY <2>1 DEF ReadBudgets, ReadTo, Progress
    <3>2. LinesWhole(v)'
      <4>1. linesRead'[v] = {x \in Projects \X Categories :
                               s \in {All, x[1]} /\ x[2] \in budgetLines[x[1]]}
        BY <2>1 DEF ReadBudgets
      <4>2. \A p \in Projects, c \in Categories :
              <<p, c>> \in linesRead'[v] <=> s \in {All, p} /\ c \in budgetLines[p]
        BY <4>1
      <4>3. \A p \in Projects : budgetLines[p] \subseteq Categories
        BY DEF ProjectsSound, ProjectsTypeOK
      <4> QED BY <4>2, <4>3 DEF LinesWhole
    <3>3. progress[v] = "idle" /\ progress'[v] = "lines"
          /\ UNCHANGED <<usage, inCounts, trend>>
      BY <2>1 DEF ReadBudgets, ReadTo
    <3> QED
      BY <3>1, <3>2, <3>3 DEF ReadsCurrent, UsedIsCounted, CountedIsShown
  <2>2. CASE ReadUsage(v)
    <3>1. DashboardTypeOK'
      BY <2>2 DEF ReadUsage, ReadTo, Progress
    <3>2. LinesWhole(v)'
      BY <2>2 DEF ReadUsage, ReadTo, LinesWhole
    <3>3. ReadsCurrent(v)'
      BY <2>2 DEF ReadUsage, ReadTo, ReadsCurrent, InScope
    <3> QED
      BY <2>2, <3>1, <3>2, <3>3 DEF ReadUsage, ReadTo, UsedIsCounted, CountedIsShown
  <2>3. CASE ReadCounts(v)
    <3>1. DashboardTypeOK'
      BY <2>3 DEF ReadCounts, ReadTo, Progress
    <3>2. LinesWhole(v)'
      BY <2>3 DEF ReadCounts, ReadTo, LinesWhole
    <3>3. ReadsCurrent(v)'
      BY <2>3 DEF ReadCounts, ReadTo, ReadsCurrent, InScope
    <3>4. UsedIsCounted(v)'
      BY <2>3 DEF ReadCounts, ReadTo, ReadsCurrent, UsedIsCounted
    <3> QED
      BY <2>3, <3>1, <3>2, <3>3, <3>4 DEF ReadCounts, ReadTo, CountedIsShown
  <2>4. CASE ReadTrend(v)
    <3> DEFINE rows == {<<e, dated[e]>> : e \in {f \in granted :
                           InScope(v, f) /\ dated[f] \in ShownMonths(v)}}
    <3>1. /\ trend' = [trend EXCEPT ![v] = rows]
          /\ UNCHANGED <<scope, linesRead, usage, inCounts>>
          /\ progress[v] = "counts" /\ progress' = [progress EXCEPT ![v] = "trend"]
      BY <2>4 DEF ReadTrend, ReadTo
    <3>2. rows \in SUBSET (Claims \X Months)
      OBVIOUS
    <3>3. DashboardTypeOK'
      BY <3>1, <3>2 DEF Progress
    <3>4. LinesWhole(v)'
      BY <3>1 DEF LinesWhole
    <3>5. ReadsCurrent(v)' /\ UsedIsCounted(v)'
      BY <3>1 DEF ReadsCurrent, UsedIsCounted, InScope
    <3>6. ASSUME NEW e \in inCounts[v] \ LateClaims, <<e, dated[e]>> \notin rows
          PROVE  rows # {} /\ \A x \in rows : dated[e] < x[2]
      <4>1. e \in granted /\ InScope(v, e)
        BY DEF ReadsCurrent
      <4>2. dated[e] \in MonthsWithData(v) \ ShownMonths(v)
        BY <3>6, <4>1 DEF MonthsWithData
      <4>3. ShownMonths(v) # {} /\ \A k \in ShownMonths(v) : dated[e] < k
        BY <4>2, TrendShowsLatest
      <4>4. \A k \in ShownMonths(v) : \E f \in granted : InScope(v, f) /\ dated[f] = k
        BY DEF ShownMonths, MonthsWithData
      <4>5. rows # {}
        <5>1. PICK k \in ShownMonths(v) : TRUE
          BY <4>3
        <5>2. PICK f \in granted : InScope(v, f) /\ dated[f] = k
          BY <4>4
        <5>3. <<f, dated[f]>> \in rows
          BY <5>1, <5>2
        <5> HIDE DEF rows
        <5> QED BY <5>3
      <4>6. \A x \in rows : x[2] \in ShownMonths(v)
        OBVIOUS
      <4> QED BY <4>3, <4>5, <4>6
    <3>7. CountedIsShown(v)'
      BY <3>1, <3>6 DEF CountedIsShown
    <3> QED
      BY <3>3, <3>4, <3>5, <3>7
  <2>5. CASE EndRead(v)
    <3>1. DashboardTypeOK'
      BY <2>5 DEF EndRead, Progress
    <3> QED
      BY <2>5, <3>1 DEF EndRead, LinesWhole, ReadsCurrent, UsedIsCounted, CountedIsShown
  <2> QED BY <2>1, <2>2, <2>3, <2>4, <2>5
<1> QED
  BY <1>2, <1>3, <1>4 DEF DashboardInv

LEMMA DashboardNextInv == DashboardInv /\ [DashboardNext]_dashboardVars => DashboardInv'
<1> SUFFICES ASSUME DashboardInv, [DashboardNext]_dashboardVars PROVE DashboardInv'
  OBVIOUS
<1>1. CASE UNCHANGED dashboardVars
  <2>1. ProjectsSound'
    BY <1>1, ProjectsNextSound DEF DashboardInv, dashboardVars
  <2> QED
    BY <1>1, <2>1 DEF dashboardVars, tableVars, projectVars, claimVars, viewVars,
       DashboardInv, DashboardTypeOK, ClaimsBacked, Exists, LinesWhole, ReadsCurrent,
       InScope, UsedIsCounted, CountedIsShown
<1>2. CASE ClaimStep
  BY <1>2, ClaimStepInv DEF ClaimStep
<1>3. CASE ViewStep
  BY <1>3, ViewStepInv DEF ViewStep
<1> QED
  BY <1>1, <1>2, <1>3, ProjectStepInv DEF DashboardNext

(* The figures of a dashboard, each a query of its own, add up as far as   *)
(* what they count stays approved: for any number of projects, expenses,   *)
(* viewers and months (build_dashboard, services/dashboard.py).            *)
THEOREM DashboardAlwaysAddsUp == DashboardSpec => []DashboardAddsUp
<1>1. DashboardInv => DashboardAddsUp
  <2> SUFFICES ASSUME DashboardInv, NEW v \in Viewers PROVE UsageHasLine(v)
    BY DEF DashboardInv, DashboardAddsUp
  <2> SUFFICES ASSUME NEW e \in usage[v] \ LateClaims
               PROVE  /\ InScope(v, e)
                      /\ \/ <<owner[e], filed[e]>> \in linesRead[v]
                         \/ \A c \in Categories : <<owner[e], c>> \notin linesRead[v]
    BY DEF UsageHasLine
  <2>1. e \in granted /\ InScope(v, e) /\ e \in Claims
    BY DEF DashboardInv, ReadsCurrent, DashboardTypeOK
  <2>2. owner[e] \in Projects /\ filed[e] \in budgetLines[owner[e]]
    BY <2>1 DEF DashboardInv, ClaimsBacked, DashboardTypeOK
  <2> QED
    BY <2>1, <2>2 DEF DashboardInv, LinesWhole
<1> QED
  BY <1>1, DashboardInitInv, DashboardNextInv, PTL DEF DashboardSpec
=============================================================================
