----------------------------- MODULE CreateJob -----------------------------
(***************************************************************************)
(* The idempotency keys of import_jobs: Service.Create and Service.Retry   *)
(* statement by statement, with the transactions of concurrent requests,   *)
(* the UNIQUE constraint on (tenant, application, key) and what the three  *)
(* databases do in a transaction whose INSERT violated it.  Rows change,   *)
(* expire and are purged meanwhile; a request works from the row it read.  *)
(***************************************************************************)
EXTENDS Integers, FiniteSets

CONSTANTS
    Requests,   \* create and retry requests; a job is named by its creator
    Scopes,     \* tenant and application
    Keys,       \* idempotency_key values
    Imports,    \* dataset, provider and format a request asks for
    Databases,  \* the databases considered: see Database
    MaxFaults,  \* bound on commits and presigned URLs that fail
    NoJob,
    NoImport    \* a retry names none

ASSUME CreateAssumption ==
    MaxFaults \in Nat /\ NoJob \notin Requests /\ NoImport \notin Imports

(* External.  PostgreSQL and Kingbase refuse every statement after the one *)
(* that failed.  MySQL goes on, and reads the snapshot of the first SELECT *)
(* (REPEATABLE READ, its default: Within passes no TxOptions) or, when the *)
(* server is configured so, what is committed (READ COMMITTED).            *)
Database == {"aborts", "snapshot", "committed"}

VARIABLES
    db,     \* the database in use
    table,  \* committed rows, by the request that created them
    call,   \* what each request is doing
    faults

vars == <<db, table, call, faults>>

(* "other" stands for every status from the completed upload to success,   *)
(* "retryable" for those Retry accepts.  open: upload_expires_at is not    *)
(* over.  rekeyed: a retry has replaced the key (history).                 *)
Row == [scope: Scopes, key: Keys, import: Imports, version: Nat,
        status: {"uploading", "other", "retryable", "expired"},
        open: BOOLEAN, rekeyed: BOOLEAN]
NoRow == [status |-> "none"]

(* A row that was deleted (history).                                       *)
Purged == [status |-> "purged"]

Exists(j) == j \in Requests /\ table[j] \notin {NoRow, Purged}

(* What a request keeps of the row it read: awaits tells that the job      *)
(* waited for an upload whose deadline was not over.                       *)
Copy == [scope: Scopes, import: Imports, awaits: BOOLEAN]
NoCopy == [awaits |-> FALSE]

Stages == {"idle", "describe", "read", "insert", "reread", "commit", "get", "update",
           "presign", "over"}
Replies == {"none", "ok", "invalid", "different", "unavailable", "closed", "not_found",
            "stale", "internal"}

TypeOK ==
    /\ db \in Databases /\ faults \in 0..MaxFaults
    /\ table \in [Requests -> Row \cup {NoRow, Purged}]
    /\ call \in [Requests ->
            [op: {"create", "retry"}, scope: Scopes, key: Keys,
             import: Imports \cup {NoImport},
             target: Requests \cup {NoJob}, expected: Nat, stage: Stages,
             job: Requests \cup {NoJob}, copy: Copy \cup {NoCopy}, created: BOOLEAN,
             reply: Replies]]

Init ==
    /\ db \in Databases
    /\ table = [r \in Requests |-> NoRow]
    /\ call \in [Requests ->
            [op: {"create", "retry"}, scope: Scopes, key: Keys,
             import: Imports \cup {NoImport},
             target: {NoJob}, expected: {0}, stage: {"idle"}, job: {NoJob},
             copy: {NoCopy}, created: {FALSE}, reply: {"none"}]]
    /\ \A r \in Requests : call[r].op = "create" <=> call[r].import \in Imports
    /\ faults = 0
-----------------------------------------------------------------------------
Go(r, stage) == call' = [call EXCEPT ![r].stage = stage]
Answer(r) == call' = [call EXCEPT ![r].stage = "over", ![r].reply = "ok"]

(* An error; what the request has read is forgotten.                       *)
Refuse(r, reply) ==
    call' = [call EXCEPT ![r].stage = "over", ![r].reply = reply, ![r].target = NoJob,
                         ![r].expected = 0, ![r].job = NoJob, ![r].copy = NoCopy]
Quiet == UNCHANGED <<db, table, faults>>
Fault == faults < MaxFaults /\ faults' = faults + 1

(* The job in the hands of a request, as its statement returned it.        *)
CopyOf(row) == [scope |-> row.scope, import |-> row.import,
                awaits |-> row.status = "uploading" /\ row.open]
Goes(r, stage, j, row) ==
    call' = [call EXCEPT ![r].stage = stage, ![r].job = j, ![r].copy = CopyOf(row)]

(* getByIdempotency on the committed rows.                                 *)
ByKey(r) == {j \in Requests : /\ Exists(j)
                              /\ table[j].scope = call[r].scope /\ table[j].key = call[r].key}

(* A request is sent; a retry names a job and the version it was shown.    *)
Send(r) ==
    /\ call[r].stage = "idle"
    /\ \/ call[r].op = "create" /\ Go(r, "describe")
       \/ /\ call[r].op = "retry"
          /\ \E j \in Requests :
                /\ Exists(j) /\ table[j].scope = call[r].scope
                /\ call' = [call EXCEPT ![r].stage = "get", ![r].target = j,
                                        ![r].expected = table[j].version]
    /\ Quiet

(* The input checks and validateDataset, which asks the provider.          *)
Describe(r) ==
    /\ call[r].stage = "describe"
    /\ \/ Go(r, "read")
       \/ \E reply \in {"invalid", "unavailable"} : Refuse(r, reply)
    /\ Quiet

(* Create: the transaction begins, and a row that has the key is returned. *)
Read(r) ==
    /\ call[r].stage = "read"
    /\ \/ \E j \in ByKey(r) : Goes(r, "commit", j, table[j])
       \/ ByKey(r) = {} /\ Go(r, "insert")
    /\ Quiet

(* An INSERT of the key that is neither committed nor rolled back yet.     *)
Inserted(o) == call[o].stage = "commit" /\ call[o].created
Locked(r) ==
    \E o \in Requests \ {r} :
        Inserted(o) /\ call[o].scope = call[r].scope /\ call[o].key = call[r].key

(* Faulty variant: the constraint is missing.                              *)
TakenNever(r) == FALSE

(* UNIQUE (tenant_id, application_id, idempotency_key).                    *)
Taken(r) == ByKey(r) # {}

(* The row Create inserts.                                                 *)
NewRow(r) == [scope |-> call[r].scope, key |-> call[r].key, import |-> call[r].import,
              version |-> 1, status |-> "uploading", open |-> TRUE, rekeyed |-> FALSE]

(* Create: the INSERT waits for a concurrent one, then succeeds or fails.  *)
Insert(r) ==
    /\ call[r].stage = "insert"
    /\ ~Locked(r)
    /\ \/ ~Taken(r) /\ call' = [call EXCEPT ![r].stage = "commit", ![r].job = r,
                                            ![r].copy = CopyOf(NewRow(r)),
                                            ![r].created = TRUE]
       \/ Taken(r) /\ Go(r, "reread")
    /\ Quiet

(* Faulty variant: the error of the INSERT is final.                       *)
VisibleNever(r) == {}

(* What a SELECT sees after the INSERT failed on a row that is younger     *)
(* than the transaction's first SELECT.                                    *)
Visible(r) == IF db = "committed" THEN ByKey(r) ELSE {}

(* Create: the second read, or the error of the INSERT and a rollback.     *)
Reread(r) ==
    /\ call[r].stage = "reread"
    /\ \/ \E j \in Visible(r) : Goes(r, "commit", j, table[j])
       \/ Visible(r) = {} /\ Refuse(r, "internal")
    /\ Quiet

(* Faulty variant: a key is good for any import.                           *)
SameImportAny(r) == TRUE

(* The key was used for the same dataset, provider and format.             *)
SameImport(r) == call[r].created \/ call[r].copy.import = call[r].import

(* The commit of Within, and the comparison that follows it.  A commit     *)
(* that fails may have been carried out.                                   *)
Commit(r) ==
    LET stored == IF call[r].created THEN [table EXCEPT ![r] = NewRow(r)] ELSE table IN
    /\ call[r].stage = "commit"
    /\ \/ /\ table' = stored
          /\ IF SameImport(r) THEN Go(r, "presign") ELSE Refuse(r, "different")
          /\ UNCHANGED faults
       \/ Fault /\ table' \in {table, stored} /\ Refuse(r, "internal")
    /\ UNCHANGED db

(* createUpload, for either operation, with the job as it was read: its    *)
(* row may have changed since, and the deadline may pass now.              *)
Presign(r) ==
    /\ call[r].stage = "presign"
    /\ \/ call[r].copy.awaits /\ Answer(r) /\ UNCHANGED faults
       \/ call[r].copy.awaits /\ Fault /\ Refuse(r, "unavailable")
       \/ Refuse(r, "closed") /\ UNCHANGED faults
    /\ UNCHANGED <<db, table>>
-----------------------------------------------------------------------------
(* Retry: the row is read outside a transaction; a repeated request is     *)
(* recognised by its key while the job still waits for the upload.         *)
GetCurrent(r) ==
    LET j == call[r].target
        row == table[j]
    IN
    /\ call[r].stage = "get"
    /\ \/ ~Exists(j) /\ Refuse(r, "not_found")
       \/ /\ Exists(j)
          /\ IF row.status = "uploading" /\ row.key = call[r].key
             THEN Goes(r, "presign", j, row)
             ELSE Go(r, "update")
    /\ Quiet

(* The row after the UPDATE of a retry.                                    *)
Retried(r, row) ==
    [row EXCEPT !.key = call[r].key, !.status = "uploading", !.open = TRUE,
                !.version = @ + 1, !.rekeyed = @ \/ call[r].key # row.key]

(* The WHERE clause of the UPDATE of a retry.                              *)
Accepts(r, j) ==
    Exists(j) /\ table[j].version = call[r].expected /\ table[j].status = "retryable"

(* Retry: the UPDATE, the event and the commit, which may fail and, the    *)
(* commit, may have been carried out.  The UPDATE waits for an INSERT of   *)
(* the key, and a key that another job has is an error of the statement,   *)
(* not a conflict.                                                         *)
Update(r) ==
    LET j == call[r].target
        updated == [table EXCEPT ![j] = Retried(r, table[j])]
    IN
    /\ call[r].stage = "update"
    /\ ~Locked(r)
    /\ \/ ~Accepts(r, j) /\ Refuse(r, "stale") /\ UNCHANGED <<table, faults>>
       \/ /\ Accepts(r, j) /\ ByKey(r) \ {j} # {}
          /\ Refuse(r, "internal") /\ UNCHANGED <<table, faults>>
       \/ /\ Accepts(r, j) /\ ByKey(r) \ {j} = {}
          /\ \/ /\ table' = updated /\ UNCHANGED faults
                /\ Goes(r, "presign", j, Retried(r, table[j]))
             \/ Fault /\ table' \in {table, updated} /\ Refuse(r, "internal")
    /\ UNCHANGED db

Moves(j, status) ==
    table' = [table EXCEPT ![j].status = status, ![j].version = @ + 1, ![j].open = FALSE]

(* Elsewhere in the service: the job leaves "uploading", fails or is       *)
(* canceled, its upload deadline passes, or the cleaner expires it.        *)
Progress(j) ==
    /\ Exists(j)
    /\ \/ table[j].status = "uploading" /\ \E s \in {"other", "retryable"} : Moves(j, s)
       \/ table[j].status = "other" /\ Moves(j, "retryable")
       \/ /\ table[j].status = "uploading" /\ table[j].open
          /\ table' = [table EXCEPT ![j].open = FALSE]
       \/ /\ \/ table[j].status = "uploading" /\ ~table[j].open
             \/ table[j].status \in {"other", "retryable"}
          /\ Moves(j, "expired")
    /\ UNCHANGED <<db, call, faults>>

(* DeleteExpiredMetadata: the row of an expired job goes, with its key.    *)
Purge(j) ==
    /\ Exists(j) /\ table[j].status = "expired"
    /\ table' = [table EXCEPT ![j] = Purged]
    /\ UNCHANGED <<db, call, faults>>
-----------------------------------------------------------------------------
Serve(r) ==
    \/ Describe(r) \/ Read(r) \/ Insert(r) \/ Reread(r) \/ Commit(r) \/ Presign(r)
    \/ GetCurrent(r) \/ Update(r)

Next ==
    \/ \E r \in Requests : Send(r) \/ Serve(r)
    \/ \E j \in Requests : Progress(j) \/ Purge(j)

Spec == Init /\ [][Next]_vars
-----------------------------------------------------------------------------
Answered(r) == call[r].stage = "over" /\ call[r].reply = "ok"

(* Whichever request created it and whatever happened to its row since,    *)
(* the job a request is answered with is one of its own scope and, for a   *)
(* create, the import it asked for; its row, while there is one, agrees.   *)
AnswerIsOwnImport ==
    \A r \in Requests : Answered(r) =>
        LET j == call[r].job
            copy == call[r].copy
        IN
        /\ copy.scope = call[r].scope
        /\ call[r].op = "create" => copy.import = call[r].import
        /\ Exists(j) => table[j].scope = copy.scope /\ table[j].import = copy.import

(* A key is given back when a retry replaces it and when the row of the    *)
(* expired job is purged.                                                  *)
Freed(j) == \/ table[j] = Purged
            \/ Exists(j) /\ table[j].rekeyed

(* Two create requests with the same key are answered with the same job,   *)
(* in whatever order they run; only a retry, which replaces the key of its *)
(* job, and the purge of an expired job, which deletes it, make the key    *)
(* available for a second one.                                             *)
OneJobPerKey ==
    \A r, q \in Requests :
        /\ Answered(r) /\ Answered(q) /\ call[r].op = "create" /\ call[q].op = "create"
        /\ call[r].scope = call[q].scope /\ call[r].key = call[q].key
        => \/ call[r].job = call[q].job
           \/ Freed(call[r].job) \/ Freed(call[q].job)

(* Where a statement sees what is committed, the second read settles the   *)
(* race: a create fails only by a fault, or when a retry or a purge has    *)
(* taken the key from the winner's job meanwhile.                          *)
RaceIsSettled ==
    \A r \in Requests :
        db = "committed" /\ call[r].op = "create" /\ call[r].reply = "internal" =>
            faults > 0 \/ \E j \in Requests : Freed(j)

(* The comment at the second read: a request that lost the race for its    *)
(* key is answered with the job of the one that won.                       *)
LoserLearnsWinner ==
    \A r \in Requests :
        faults = 0 /\ call[r].op = "create" => call[r].reply # "internal"
=============================================================================
