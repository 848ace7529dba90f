---------------------------- MODULE ImportStore ----------------------------
(***************************************************************************)
(* What the processes of import-service share: the import_jobs table with  *)
(* the SQL statements of internal/importjob/repository.go, the durable     *)
(* messages that wake the workers, the object store and the record a data  *)
(* provider keeps of applied batches.                                      *)
(*                                                                         *)
(* A file stands for its content: two objects are equal iff their SHA-256  *)
(* checksums are, so source_checksum is the file the client announced, a   *)
(* normalized object is the file it was computed from, and so is a report. *)
(***************************************************************************)
EXTENDS Integers, FiniteSets

CONSTANTS
    Jobs,        \* identifiers of import jobs
    Files,       \* contents a client may upload
    GoodFiles,   \* the files in which the provider finds no invalid row
    SizeOf,      \* size of a file in bytes
    BatchesOf,   \* number of batches its normalized rows are cut into
    MaxBatches,  \* bound on the batches of a file
    ConfirmKeys, \* idempotency keys of confirm requests
    NoFile,      \* no object, or an empty source_checksum
    NoKey,       \* an empty confirm_key
    MaxAttempts, \* bound on the retries of one job
    MaxFaults    \* bound on the failures of workers and cleaners

ASSUME FileAssumption ==
    /\ GoodFiles \subseteq Files
    /\ NoFile \notin Files
    /\ NoKey \notin ConfirmKeys
    /\ MaxBatches \in Nat
    /\ SizeOf \in [Files -> Nat]
    /\ BatchesOf \in [Files -> 0..MaxBatches]

ASSUME BoundAssumption == MaxAttempts \in Nat /\ MaxFaults \in Nat

VARIABLES
    row,     \* import_jobs, one row per job
    obj,     \* the three objects of a job in the object store
    events,  \* messages committed to the outbox and not yet acknowledged
    applied, \* provider: the file whose rows batch b of job j wrote first
    hist,    \* history of a job, read by properties and by bounds only
    faults   \* failures of workers and cleaners so far

storeVars == <<row, obj, events, applied, hist, faults>>
-----------------------------------------------------------------------------
(* Job statuses.  "none" is a job that is not created yet, "purged" one    *)
(* whose row was deleted.                                                  *)
Running    == {"validating", "applying"}
(* Faulty variant: a succeeded job can be canceled.                        *)
CancelableAny == {"uploading", "queued", "validating", "validation_failed",
                  "ready", "apply_queued", "applying", "succeeded", "failed"}
Cancelable == {"uploading", "queued", "validating", "validation_failed",
               "ready", "apply_queued", "applying", "failed"}
Retryable  == {"validation_failed", "failed", "canceled"}
Retained   == {"validation_failed", "succeeded", "failed", "canceled"}
Status     == Cancelable \cup Retained \cup {"none", "expired", "purged"}

Deadline  == {"null", "future", "past"}
FileOrNo  == Files \cup {NoFile}
Batch     == 1..MaxBatches
EventKind == {"requested", "apply-requested"}

(* The columns that decide what a statement does.  up and res are          *)
(* upload_expires_at and result_expires_at relative to the current time,   *)
(* bad says that invalid_rows > 0.                                         *)
Row == [status: Status, version: Nat, sum: FileOrNo, bad: BOOLEAN,
        up: Deadline, res: Deadline, conf: ConfirmKeys \cup {NoKey}]

Objects == [src: FileOrNo, norm: FileOrNo, rep: FileOrNo]

(* A message names its job and, to tell two messages apart, the version    *)
(* the row had when it was committed.                                      *)
Event == [kind: EventKind, job: Jobs, ver: Nat]

(* attempt counts retries; cut tells that a cancel hit a running worker;   *)
(* swept that a cleaner began to delete the objects; confirmed collects    *)
(* the sources the client confirmed; lost the claims whose worker          *)
(* disappeared.                                                            *)
History == [attempt: 0..MaxAttempts, cut: BOOLEAN, swept: BOOLEAN,
            confirmed: SUBSET FileOrNo,
            lost: SUBSET (EventKind \X (0..MaxAttempts))]

StoreTypeOK ==
    /\ row \in [Jobs -> Row]
    /\ obj \in [Jobs -> Objects]
    /\ events \subseteq Event
    /\ applied \in [Jobs -> [Batch -> FileOrNo]]
    /\ hist \in [Jobs -> History]
    /\ faults \in 0..MaxFaults

StoreInit ==
    /\ row = [j \in Jobs |-> [status |-> "none", version |-> 0,
                              sum |-> NoFile, bad |-> FALSE, up |-> "null",
                              res |-> "null", conf |-> NoKey]]
    /\ obj = [j \in Jobs |-> [src |-> NoFile, norm |-> NoFile, rep |-> NoFile]]
    /\ events = {}
    /\ applied = [j \in Jobs |-> [b \in Batch |-> NoFile]]
    /\ hist = [j \in Jobs |-> [attempt |-> 0, cut |-> FALSE, swept |-> FALSE,
                               confirmed |-> {}, lost |-> {}]]
    /\ faults = 0
-----------------------------------------------------------------------------
(* The statements of repository.go.  Each one is guarded by its WHERE      *)
(* clause; a caller whose statement matches no row gets ErrStaleVersion.   *)

(* SET ..., version=version+1.                                             *)
Update(j, r) == row' = [row EXCEPT ![j] = [r EXCEPT !.version = @ + 1]]

SqlCreate(j) ==
    /\ row[j].status = "none"
    /\ Update(j, [row[j] EXCEPT !.status = "uploading", !.up = "future"])

SqlCompleteUpload(j, expected, checksum) ==
    /\ row[j].version = expected
    /\ row[j].status = "uploading"
    /\ Update(j, [row[j] EXCEPT !.status = "queued", !.sum = checksum])

(* result_expires_at is left as it was.                                    *)
SqlCancel(j, expected) ==
    /\ row[j].version = expected
    /\ row[j].status \in Cancelable
    /\ Update(j, [row[j] EXCEPT !.status = "canceled"])

(* Faulty variant: confirm_key is not reset.                               *)
SqlRetryKeepsConfirmKey(j, expected) ==
    /\ row[j].version = expected
    /\ row[j].status \in Retryable
    /\ Update(j, [row[j] EXCEPT !.status = "uploading", !.sum = NoFile,
                                !.bad = FALSE, !.up = "future", !.res = "null"])

SqlRetry(j, expected) ==
    /\ row[j].version = expected
    /\ row[j].status \in Retryable
    /\ Update(j, [row[j] EXCEPT !.status = "uploading", !.sum = NoFile,
                                !.bad = FALSE, !.conf = NoKey,
                                !.up = "future", !.res = "null"])

(* A key equal to the stored one returns the row as it is.                 *)
SqlConfirm(j, expected, key) ==
    /\ row[j].conf # key
    /\ row[j].version = expected
    /\ row[j].status = "ready"
    /\ Update(j, [row[j] EXCEPT !.status = "apply_queued", !.conf = key])

(* The worker's and the cleaner's statements look at the status only.      *)
Waiting(kind) == IF kind = "requested" THEN "queued" ELSE "apply_queued"
Claimed(kind) == IF kind = "requested" THEN "validating" ELSE "applying"

(* Faulty variant: the claim does not bump the version.                    *)
SqlClaimSameVersion(j, kind) ==
    /\ row[j].status = Waiting(kind)
    /\ row' = [row EXCEPT ![j].status = Claimed(kind)]

SqlClaim(j, kind) ==
    /\ row[j].status = Waiting(kind)
    /\ Update(j, [row[j] EXCEPT !.status = Claimed(kind)])

(* Faulty variant: invalid rows are not looked at.                         *)
SqlFinishAlwaysReady(j, invalid) ==
    /\ row[j].status = "validating"
    /\ Update(j, [row[j] EXCEPT !.bad = invalid, !.res = "future",
                    !.status = "ready"])

SqlFinishValidation(j, invalid) ==
    /\ row[j].status = "validating"
    /\ Update(j, [row[j] EXCEPT !.bad = invalid, !.res = "future",
                    !.status = IF invalid THEN "validation_failed" ELSE "ready"])

SqlFinishApply(j) ==
    /\ row[j].status = "applying"
    /\ Update(j, [row[j] EXCEPT !.status = "succeeded", !.res = "future"])

(* Faulty variant: only a validating job can fail.                         *)
SqlFailValidatingOnly(j, kind) ==
    /\ row[j].status = Claimed(kind)
    /\ kind = "requested"
    /\ Update(j, [row[j] EXCEPT !.status = "failed", !.res = "future"])

SqlFail(j, kind) ==
    /\ row[j].status = Claimed(kind)
    /\ Update(j, [row[j] EXCEPT !.status = "failed", !.res = "future"])

(* Faulty variant: the status listed is not compared.                      *)
SqlExpireAnyStatus(j, status) ==
    Update(j, [row[j] EXCEPT !.status = "expired"])

SqlExpire(j, status) ==
    /\ row[j].status = status
    /\ Update(j, [row[j] EXCEPT !.status = "expired"])

(* DELETE ... WHERE version=? AND status='expired': nothing leaves expired,*)
(* so the version that was listed is still the row's.                      *)
SqlDeleteExpired(j) ==
    /\ row[j].status = "expired"
    /\ row' = [row EXCEPT ![j].status = "purged"]

(* Faulty variant: abandoned uploads are not listed.                       *)
ListExpiredResultsOnly ==
    {j \in Jobs : row[j].status \in Retained /\ row[j].res = "past"}

(* WHERE clause of ListExpired.                                            *)
ListExpired ==
    {j \in Jobs : \/ row[j].status = "uploading" /\ row[j].up = "past"
                  \/ row[j].status \in Retained /\ row[j].res = "past"}
-----------------------------------------------------------------------------
(* AddOutbox in the transaction of the update: the message carries the     *)
(* version the row has after the statement.                                *)
Emit(kind, j) ==
    events' = events \cup {[kind |-> kind, job |-> j, ver |-> row[j].version + 1]}

(* A handler that returned nil acknowledges its message, unless the        *)
(* process or the connection goes first: the message is then redelivered.  *)
MayAck(e) == events' = events \ {e} \/ UNCHANGED events

(* Time: a deadline of a job passes.  No presigned upload URL outlives     *)
(* upload_expires_at.                                                      *)
DeadlinePasses(j) ==
    /\ \/ row[j].up = "future" /\ row' = [row EXCEPT ![j].up = "past"]
       \/ row[j].res = "future" /\ row' = [row EXCEPT ![j].res = "past"]
    /\ UNCHANGED <<obj, events, applied, hist, faults>>
=============================================================================
