-------------------------- MODULE EvidenceUpload --------------------------
(***************************************************************************)
(* Evidence files and their rows (upload_evidence, api/routes/expenses.py; *)
(* services/storage.py).  The file is written chunk by chunk before the    *)
(* row is inserted, the status of the expense is tested before both and    *)
(* without a lock, and every upload has a path of its own.  A request that *)
(* ends early leaves on the disk what it has written.                      *)
(***************************************************************************)
EXTENDS Integers

CONSTANTS
  Uploads,    \* upload requests for one expense; each is its file's path
  Sizes,      \* of the uploaded files, in chunks
  MaxSize     \* MAX_SIZE_BYTES in chunks

ASSUME UploadAssumption == Sizes \subseteq Nat /\ MaxSize \in Nat

VARIABLES
  editable,   \* the expense is a draft or rejected
  upload,     \* where each request stands
  size,       \* of the file it sends
  written,    \* chunks of it on the disk, -1 without a file
  hasRow,     \* there is a row of evidences for it
  submitted   \* the expense has been submitted since the request tested it

uploadVars == <<editable, upload, size, written, hasRow, submitted>>

(* Types, and what has been accepted is complete.                          *)
UploadTypeOK ==
  /\ editable \in BOOLEAN
  /\ upload \in [Uploads -> {"new", "saving", "saved", "done", "refused", "cut"}]
  /\ size \in [Uploads -> Sizes]
  /\ written \in [Uploads -> -1 .. MaxSize]
  /\ hasRow \in [Uploads -> BOOLEAN]
  /\ submitted \in [Uploads -> BOOLEAN]
  /\ \A u \in Uploads : upload[u] = "saved" => written[u] = size[u]

(* A submission, and a rejection that gives the expense back.              *)
SubmitExpense ==
  /\ editable
  /\ editable' = FALSE
  /\ submitted' = [u \in Uploads |-> submitted[u] \/ upload[u] \in {"saving", "saved"}]
  /\ UNCHANGED <<upload, size, written, hasRow>>

ReturnExpense ==
  /\ ~editable
  /\ editable' = TRUE
  /\ UNCHANGED <<upload, size, written, hasRow, submitted>>

----------------------------------------------------------------------------
Proceed(u, from, to) ==
  /\ upload[u] = from
  /\ upload' = [upload EXCEPT ![u] = to]

(* Variation: the status of the expense is not tested.                     *)
StartUntested(u) ==
  /\ Proceed(u, "new", "saving")
  /\ written' = [written EXCEPT ![u] = 0]
  /\ UNCHANGED <<editable, size, hasRow, submitted>>

(* The expense is editable and the type of the file is allowed.            *)
StartUpload(u) ==
  /\ editable
  /\ Proceed(u, "new", "saving")
  /\ written' = [written EXCEPT ![u] = 0]
  /\ UNCHANGED <<editable, size, hasRow, submitted>>

(* Neither this test nor the type leaves anything behind.                  *)
RefuseUpload(u) ==
  /\ Proceed(u, "new", "refused")
  /\ UNCHANGED <<editable, size, written, hasRow, submitted>>

WriteChunk(u) ==
  /\ upload[u] = "saving"
  /\ written[u] < size[u] /\ written[u] < MaxSize
  /\ written' = [written EXCEPT ![u] = @ + 1]
  /\ UNCHANGED <<editable, upload, size, hasRow, submitted>>

(* Variation: what has been written of a file too large is kept.           *)
KeepTooLarge(u) ==
  /\ written[u] = MaxSize /\ size[u] > MaxSize
  /\ Proceed(u, "saving", "refused")
  /\ UNCHANGED <<editable, size, written, hasRow, submitted>>

TooLarge(u) ==
  /\ written[u] = MaxSize /\ size[u] > MaxSize
  /\ Proceed(u, "saving", "refused")
  /\ written' = [written EXCEPT ![u] = -1]
  /\ UNCHANGED <<editable, size, hasRow, submitted>>

Saved(u) ==
  /\ written[u] = size[u]
  /\ Proceed(u, "saving", "saved")
  /\ UNCHANGED <<editable, size, written, hasRow, submitted>>

InsertRow(u) ==
  /\ Proceed(u, "saved", "done")
  /\ hasRow' = [hasRow EXCEPT ![u] = TRUE]
  /\ UNCHANGED <<editable, size, written, submitted>>

(* The process dies, the disk is full, or the commit fails.                *)
CutOff(u) ==
  /\ \/ Proceed(u, "saving", "cut")
     \/ Proceed(u, "saved", "cut")
  /\ UNCHANGED <<editable, size, written, hasRow, submitted>>

----------------------------------------------------------------------------
UploadInit ==
  /\ editable = TRUE
  /\ upload = [u \in Uploads |-> "new"]
  /\ size \in [Uploads -> Sizes]
  /\ written = [u \in Uploads |-> -1]
  /\ hasRow = [u \in Uploads |-> FALSE]
  /\ submitted = [u \in Uploads |-> FALSE]

UploadNext ==
  \/ SubmitExpense
  \/ ReturnExpense
  \/ \E u \in Uploads : \/ StartUpload(u) \/ RefuseUpload(u) \/ WriteChunk(u)
                        \/ TooLarge(u) \/ Saved(u) \/ InsertRow(u) \/ CutOff(u)

UploadSpec == UploadInit /\ [][UploadNext]_uploadVars

----------------------------------------------------------------------------
(* Every row of evidences has its file, complete and within the limit, and *)
(* a request leaves a file without a row only when it was cut off: what is *)
(* refused for its size is removed (services/storage.py:48).               *)
RowsAndFiles ==
  /\ UploadTypeOK
  /\ \A u \in Uploads :
       /\ hasRow[u] => written[u] = size[u] /\ size[u] <= MaxSize
       /\ upload[u] \in {"new", "refused"} => written[u] = -1

(* Evidence appears on an expense under review only from a request that    *)
(* had tested it before its submission: none that starts after it gets in  *)
(* (ensure_editable, services/expense.py).                                 *)
LateEvidenceWasInFlight ==
  [][\A u \in Uploads : ~editable /\ hasRow'[u] /\ ~hasRow[u] => submitted[u]]_uploadVars
=============================================================================
