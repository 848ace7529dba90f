--------------------------- MODULE ImportService ---------------------------
(***************************************************************************)
(* The requests of internal/importjob/service.go, and the client that      *)
(* sends them.  A client sends the version it last read, so a request may  *)
(* arrive long after other requests, workers or the cleaner changed the    *)
(* row.  A request whose statement matches no row, or whose precondition   *)
(* fails, changes nothing and is not an action.                            *)
(*                                                                         *)
(* Tenancy, authorization and input checks are left out: they refuse a     *)
(* request before it reaches the state modelled here.  Requests repeated   *)
(* with the same create or retry key only read the row and presign a URL.  *)
(***************************************************************************)
EXTENDS ImportStore

CONSTANT Clients

VARIABLE view  \* what a client last read of a job, and its open request

(* claim is the checksum of a complete-upload request that has seen the    *)
(* object's size and has not reached its transaction yet.                  *)
View == [version: Nat, status: Status, attempt: 0..MaxAttempts,
         sum: FileOrNo, claim: FileOrNo]

ServiceTypeOK == view \in [Clients -> [Jobs -> View]]

Seen(j) == [version |-> row[j].version, status |-> row[j].status,
            attempt |-> hist[j].attempt, sum |-> row[j].sum, claim |-> NoFile]

ServiceInit == view = [c \in Clients |-> [j \in Jobs |-> Seen(j)]]
-----------------------------------------------------------------------------
(* Create: a new row and a presigned upload URL; no event.                 *)
Create(j) ==
    /\ SqlCreate(j)
    /\ UNCHANGED <<obj, events, applied, hist, faults, view>>

(* Get and List: the client learns the row.                                *)
Get(c, j) ==
    /\ row[j].status \notin {"none", "purged"}
    /\ view[c][j].claim = NoFile
    /\ view' = [view EXCEPT ![c][j] = Seen(j)]
    /\ UNCHANGED storeVars

(* The client sends a file to the presigned URL, which stays valid until   *)
(* the upload deadline whatever becomes of the job.                        *)
Upload(j, f) ==
    /\ row[j].up = "future"
    /\ obj' = [obj EXCEPT ![j].src = f]
    /\ UNCHANGED <<row, events, applied, hist, faults, view>>

(* CompleteUpload, first half: Stat.  Only the size of the object is       *)
(* compared with the request, the store reports no checksum.  A version    *)
(* the client read in another status could not complete anyway.            *)
CompleteUploadStat(c, j, checksum) ==
    /\ row[j].status \notin {"none", "purged"}
    /\ view[c][j].claim = NoFile
    /\ view[c][j].status = "uploading"
    /\ obj[j].src # NoFile
    /\ SizeOf[obj[j].src] = SizeOf[checksum]
    /\ view' = [view EXCEPT ![c][j].claim = checksum]
    /\ UNCHANGED storeVars

(* CompleteUpload, second half: the transaction, or ErrStaleVersion.       *)
CompleteUpload(c, j) ==
    LET v == view[c][j] IN
    /\ v.claim # NoFile
    /\ view' = [view EXCEPT ![c][j].claim = NoFile]
    /\ \/ /\ SqlCompleteUpload(j, v.version, v.claim)
          /\ Emit("requested", j)
       \/ /\ row[j].version # v.version \/ row[j].status # "uploading"
          /\ UNCHANGED <<row, events>>
    /\ UNCHANGED <<obj, applied, hist, faults>>

Cancel(c, j) ==
    /\ SqlCancel(j, view[c][j].version)
    /\ hist' = [hist EXCEPT ![j].cut = @ \/ row[j].status \in Running]
    /\ UNCHANGED <<obj, events, applied, faults, view>>

(* Retry keeps the object keys and what the objects hold.                  *)
Retry(c, j) ==
    /\ hist[j].attempt < MaxAttempts
    /\ SqlRetry(j, view[c][j].version)
    /\ hist' = [hist EXCEPT ![j].attempt = @ + 1]
    /\ UNCHANGED <<obj, events, applied, faults, view>>

(* Faulty variant: the outbox row is forgotten.                            *)
ConfirmWithoutEvent(c, j, key) ==
    /\ SqlConfirm(j, view[c][j].version, key)
    /\ hist' = [hist EXCEPT ![j].confirmed = @ \cup {row[j].sum}]
    /\ UNCHANGED <<obj, events, applied, faults, view>>

Confirm(c, j, key) ==
    /\ SqlConfirm(j, view[c][j].version, key)
    /\ Emit("apply-requested", j)
    /\ hist' = [hist EXCEPT ![j].confirmed = @ \cup {row[j].sum}]
    /\ UNCHANGED <<obj, applied, faults, view>>

(* CreateErrorReportDownloadURL is granted in these states.                *)
ReportOffered(j) == row[j].bad /\ row[j].res = "future"

ServiceStep ==
    \E j \in Jobs :
        \/ Create(j)
        \/ \E f \in Files : Upload(j, f)
        \/ \E c \in Clients :
            \/ Get(c, j)
            \/ \E f \in Files : CompleteUploadStat(c, j, f)
            \/ CompleteUpload(c, j)
            \/ Cancel(c, j)
            \/ Retry(c, j)
            \/ \E key \in ConfirmKeys : Confirm(c, j, key)
=============================================================================
