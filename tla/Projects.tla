------------------------------ MODULE Projects ------------------------------
(***************************************************************************)
(* Projects and their budget lines (api/routes/projects.py).  Both writing *)
(* requests are cut between the statement that reads and the one that      *)
(* writes; nobody sees an insert before its commit, so those are one step. *)
(* Of a project, code, research period and lines are kept: name, agency    *)
(* and status are written without a test.                                  *)
(***************************************************************************)
EXTENDS Integers

CONSTANTS
  Codes,       \* project codes that requests bring
  NoCode,      \* of an id that is not in use
  Categories,  \* expense categories
  Admins,      \* sessions of administrators
  LastDay,     \* bound: days of a research period
  MaxProjects  \* bound: rows of table projects

ASSUME ProjectAssumption ==
  /\ NoCode \notin Codes
  /\ LastDay \in Nat \ {0}
  /\ MaxProjects \in Nat

Projects == 1 .. MaxProjects
Days == 1 .. LastDay

(* A field that an update leaves alone.                                    *)
Kept == 0

VARIABLES
  code,         \* projects.code
  period,       \* projects.start_date and end_date
  budgetLines,  \* the categories that table budgets has for each project
  doing,        \* what each administrator's session is about to write
  body,         \* the new project it inserts
  subject,      \* the project it updates
  changes       \* the dates that its UPDATE writes

projectVars == <<code, period, budgetLines>>
adminVars == <<doing, body, subject, changes>>
tableVars == <<projectVars, adminVars>>

Exists(p) == code[p] # NoCode
Ordered(d) == d[1] <= d[2]

(* What the model of the request body lets through (ProjectCreate): dates  *)
(* in order, at least one line and one per category.                       *)
Bodies ==
  [code : Codes, period : {d \in Days \X Days : Ordered(d)},
   lines : {l \in SUBSET Categories : l # {}}]

AnyBody == [code |-> NoCode, period |-> <<1, 1>>, lines |-> {}]
NoChange == <<Kept, Kept>>

ProjectsTypeOK ==
  /\ code \in [Projects -> Codes \union {NoCode}]
  /\ period \in [Projects -> Days \X Days]
  /\ budgetLines \in [Projects -> SUBSET Categories]
  /\ doing \in [Admins -> {"nothing", "create", "update"}]
  /\ body \in [Admins -> Bodies \union {AnyBody}]
  /\ \A a \in Admins : doing[a] = "create" => body[a] \in Bodies
  /\ subject \in [Admins -> Projects \union {0}]
  /\ \A a \in Admins : doing[a] = "update" => subject[a] \in Projects
  /\ changes \in [Admins -> (Days \union {Kept}) \X (Days \union {Kept})]

(* The end of a request, by commit, refusal or rollback.                   *)
EndAdmin(a) ==
  /\ doing' = [doing EXCEPT ![a] = "nothing"]
  /\ body' = [body EXCEPT ![a] = AnyBody]
  /\ subject' = [subject EXCEPT ![a] = 0]
  /\ changes' = [changes EXCEPT ![a] = NoChange]

----------------------------------------------------------------------------
(* create_project up to its check for the code.                            *)
CheckCode(a, new) ==
  /\ doing[a] = "nothing"
  /\ \A p \in Projects : code[p] # new.code
  /\ doing' = [doing EXCEPT ![a] = "create"]
  /\ body' = [body EXCEPT ![a] = new]
  /\ UNCHANGED <<projectVars, subject, changes>>

(* The rows that the request inserts, project and budgets, under a free id.*)
NewProject(a, p) ==
  /\ code[p] = NoCode
  /\ code' = [code EXCEPT ![p] = body[a].code]
  /\ period' = [period EXCEPT ![p] = body[a].period]
  /\ budgetLines' = [budgetLines EXCEPT ![p] = body[a].lines]

(* The inserts and the commit.  If somebody else has committed the code    *)
(* meanwhile, the unique constraint refuses the project.                   *)
InsertProject(a) ==
  /\ doing[a] = "create"
  /\ \/ /\ \A p \in Projects : code[p] # body[a].code
        /\ \E p \in Projects : NewProject(a, p)
     \/ /\ \E p \in Projects : code[p] = body[a].code
        /\ UNCHANGED projectVars
  /\ EndAdmin(a)

(* The dates after an update: what it leaves alone stays.                  *)
Put(old, new) == IF new = Kept THEN old ELSE new
Updated(d, new) == <<Put(d[1], new[1]), Put(d[2], new[2])>>

(* What the session will write: a date that differs from the one loaded.   *)
Changed(old, new) == IF new = old THEN Kept ELSE new

(* update_project up to its check of the dates, on the row it has loaded.  *)
LoadProject(a, p, new) ==
  /\ doing[a] = "nothing"
  /\ Exists(p)
  /\ Ordered(Updated(period[p], new))
  /\ doing' = [doing EXCEPT ![a] = "update"]
  /\ subject' = [subject EXCEPT ![a] = p]
  /\ changes' = [changes EXCEPT ![a] =
       <<Changed(period[p][1], new[1]), Changed(period[p][2], new[2])>>]
  /\ UNCHANGED <<projectVars, body>>

(* Variation: table projects has no check constraint on the period.        *)
SaveUnchecked(a) ==
  LET p == subject[a]
  IN  /\ doing[a] = "update"
      /\ period' = [period EXCEPT ![p] = Updated(@, changes[a])]
      /\ EndAdmin(a)
      /\ UNCHANGED <<code, budgetLines>>

(* The UPDATE and the commit, on the row as it is by now: the database     *)
(* refuses a period out of order.                                          *)
SaveProject(a) ==
  LET p == subject[a]
      saved == Updated(period[p], changes[a])
  IN  /\ doing[a] = "update"
      /\ period' = [period EXCEPT ![p] = IF Ordered(saved) THEN saved ELSE @]
      /\ EndAdmin(a)
      /\ UNCHANGED <<code, budgetLines>>

CutOffAdmin(a) ==
  /\ doing[a] # "nothing"
  /\ EndAdmin(a)
  /\ UNCHANGED projectVars

----------------------------------------------------------------------------
ProjectsInit ==
  /\ code = [p \in Projects |-> NoCode]
  /\ period = [p \in Projects |-> <<1, 1>>]
  /\ budgetLines = [p \in Projects |-> {}]
  /\ doing = [a \in Admins |-> "nothing"]
  /\ body = [a \in Admins |-> AnyBody]
  /\ subject = [a \in Admins |-> 0]
  /\ changes = [a \in Admins |-> NoChange]

ProjectsNext ==
  \E a \in Admins :
    \/ \E new \in Bodies : CheckCode(a, new)
    \/ InsertProject(a)
    \/ \E p \in Projects, new \in (Days \union {Kept}) \X (Days \union {Kept}) :
         LoadProject(a, p, new)
    \/ SaveProject(a)
    \/ CutOffAdmin(a)

ProjectsSpec == ProjectsInit /\ [][ProjectsNext]_tableVars

----------------------------------------------------------------------------
(* Whoever creates and updates at the same time: a code is registered once,*)
(* every project has its lines, and no project ends before it starts, even *)
(* when two administrators move one end of the period each.                *)
ProjectsSound ==
  /\ ProjectsTypeOK
  /\ \A p, q \in Projects : Exists(p) /\ code[p] = code[q] => p = q
  /\ \A p \in Projects : Exists(p) => Ordered(period[p]) /\ budgetLines[p] # {}
=============================================================================
