-------------------------- MODULE MCSettlementDesk --------------------------
(* Evidence files, card statements, the narrative of a report, and         *)
(* projects with the dashboard, each explored for itself: a component takes*)
(* steps only while the others rest in their initial states.               *)
EXTENDS EvidenceUpload, CardReconciliation, ReportNarrative, Dashboard, TLC

CONSTANTS u1, u2, e1, e2, a, w1, w2, m1, m2, t1, t2, a1, a2, k1, k2, c1, c2, v

MCUploads == {u1, u2}
MCSizes == 0 .. 3

(* Three lines and two expenses compete for each other: the same amount,   *)
(* neighbouring days, a number that is known, unknown or empty.            *)
Entry(D, N, A) == [day : D, number : N, amount : A]
MCCells == Entry({1, 2}, {a, NoNumber}, {1}) \union {Unreadable}
MCRecords ==
  Entry({2, 3}, {a, NoNumber}, {1}) \union Entry({2}, {Empty}, {1})
  \union Entry({2}, {a}, {2})
MCExpenses == {e1, e2}

MCDrafters == {w1, w2}
MCWriters == {m1, m2}
MCTexts == {t1, t2}

MCCodes == {k1, k2}
MCCategories == {c1, c2}
MCAdmins == {a1, a2}
MCClaims == {e1, e2}
MCLateClaims == {e2}
MCViewers == {v}

UploadRest == UploadInit /\ size = [u \in Uploads |-> 0]
CardRest ==
  /\ CardInit /\ ~wellFormed /\ counted = {}
  /\ statement = [l \in Line |-> Unreadable]
  /\ expense = [e \in Expenses |-> [day |-> 2, number |-> a, amount |-> 2]]
DashboardRest == DashboardInit
DeskRest == NarrativeInit /\ UploadRest /\ CardRest

MCInit ==
  /\ NarrativeInit
  /\ UploadInit
  /\ CardInit
  /\ DashboardInit
  /\ UploadRest \/ CardRest

UploadAlone ==
  /\ NarrativeInit /\ CardRest /\ DashboardRest
  /\ UploadNext
  /\ UNCHANGED <<narrativeVars, cardVars, dashboardVars>>

CardAlone ==
  /\ NarrativeInit /\ UploadRest /\ DashboardRest
  /\ CardNext
  /\ UNCHANGED <<narrativeVars, uploadVars, dashboardVars>>

NarrativeAlone(A) ==
  /\ UploadRest /\ CardRest /\ DashboardRest
  /\ A
  /\ UNCHANGED <<uploadVars, cardVars, dashboardVars>>

(* Two administrators race for projects of one line while nobody reads.    *)
OneLine ==
  /\ \A p \in Projects : budgetLines[p] \subseteq {c1}
  /\ \A b \in Admins : body[b].lines \subseteq {c1}

ProjectsAlone ==
  /\ DeskRest /\ ClaimsInit /\ ViewsInit /\ OneLine
  /\ ProjectsNext
  /\ OneLine'
  /\ UNCHANGED <<uploadVars, cardVars, narrativeVars, claimVars, viewVars>>

(* The dashboard is read while one of them creates two projects, one after *)
(* the other, the first with one line or two, the second with one.         *)
OneByOne ==
  /\ \A p \in Projects : period[p] = <<1, 1>> /\ code[p] \in {NoCode, <<k1, k2>>[p]}
  /\ Exists(2) => Exists(1) /\ budgetLines[2] = {c1}
  /\ \A b \in Admins : doing[b] # "nothing" =>
       /\ b = a1 /\ doing[b] = "create"
       /\ body[b].period = <<1, 1>> /\ c1 \in body[b].lines
       /\ body[b].code = k2 => Exists(1) /\ body[b].lines = {c1}

DashboardAlone ==
  /\ DeskRest /\ OneByOne
  /\ DashboardNext
  /\ OneByOne'
  /\ UNCHANGED <<uploadVars, cardVars, narrativeVars>>

MCNext ==
  \/ UploadAlone
  \/ CardAlone
  \/ NarrativeAlone(NarrativeNext)
  \/ ProjectsAlone
  \/ DashboardAlone

MCVars == <<narrativeVars, uploadVars, cardVars, dashboardVars>>

(* NarrativeFairness for the steps taken alone.                            *)
MCFairness ==
  \A w \in Drafters :
    /\ WF_MCVars(NarrativeAlone(ClaimRun(w)))
    /\ WF_MCVars(NarrativeAlone(Draft(w)))
    /\ SF_MCVars(NarrativeAlone(Reclaim(w)))

MCSpec == MCInit /\ [][MCNext]_MCVars /\ MCFairness
=============================================================================
