---------------------------- MODULE ImportSystem ----------------------------
(***************************************************************************)
(* import-service as a whole: clients, workers and cleaners of all         *)
(* replicas over one database, one object store, one message bus and one   *)
(* provider, and the passage of time.                                      *)
(***************************************************************************)
EXTENDS ImportService, ImportWorker, ImportCleaner

vars == <<row, obj, events, applied, hist, faults, view, worker, cleaner>>

TypeOK == StoreTypeOK /\ ServiceTypeOK /\ WorkerTypeOK /\ CleanerTypeOK

Init == StoreInit /\ ServiceInit /\ WorkerInit /\ CleanerInit

Requests == ServiceStep /\ UNCHANGED <<worker, cleaner>>
Work(w)  == WorkerStep(w) /\ UNCHANGED <<view, cleaner>>
Sweep(k) == CleanerStep(k) /\ UNCHANGED <<view, worker>>
Time(j)  == DeadlinePasses(j) /\ UNCHANGED <<view, worker, cleaner>>
Purging(j) == Purge(j) /\ UNCHANGED <<view, worker>>
Faults ==
    \/ \E w \in Workers : Lose(w) /\ UNCHANGED <<view, cleaner>>
    \/ \E k \in Cleaners : Abort(k) /\ UNCHANGED <<view, worker>>

Next ==
    \/ Requests
    \/ \E w \in Workers : Work(w)
    \/ \E k \in Cleaners : Sweep(k)
    \/ \E j \in Jobs : Time(j) \/ Purging(j)
    \/ Faults

Spec == Init /\ [][Next]_vars

(* Time passes, the consumers and the scheduler of a living replica keep   *)
(* running.  Nothing is assumed of clients and of faults.                  *)
Fairness ==
    /\ \A w \in Workers : WF_vars(Work(w))
    /\ \A k \in Cleaners : WF_vars(Sweep(k))
    /\ \A j \in Jobs : WF_vars(Time(j))

FairSpec == Spec /\ Fairness
-----------------------------------------------------------------------------
(* Optimistic locking: as long as the version a client read is the row's,  *)
(* nothing the client decided upon has changed, so a guarded request acts  *)
(* on the state the user saw.                                              *)
ViewIsCurrent ==
    \A c \in Clients, j \in Jobs :
        (view[c][j].version = row[j].version /\ row[j].status # "purged") =>
            /\ view[c][j].status = row[j].status
            /\ view[c][j].attempt = hist[j].attempt
            /\ view[c][j].sum = row[j].sum

(* A job that waits for a worker has its own message on the bus, whatever  *)
(* redeliveries and skipped messages of earlier attempts were acknowledged.*)
QueuedHasMessage ==
    \A j \in Jobs, kind \in EventKind :
        row[j].status = Waiting(kind) =>
            [kind |-> kind, job |-> j, ver |-> row[j].version] \in events

WorksOn(w, kind, j) ==
    /\ Busy(w)
    /\ JobOf(w) = j
    /\ worker[w].ev.kind = kind
    /\ worker[w].attempt = hist[j].attempt

(* A claimed job has a worker of its attempt on it, or that worker was     *)
(* lost: no return path of Validate or Apply leaves a job running alone.   *)
RunningHasWorker ==
    \A j \in Jobs, kind \in EventKind :
        row[j].status = Claimed(kind) =>
            \/ <<kind, hist[j].attempt>> \in hist[j].lost
            \/ \E w \in Workers : WorksOn(w, kind, j)

(* A ready job has no confirm key: no confirm request is taken for the     *)
(* repetition of one that an earlier attempt consumed.                     *)
ReadyAwaitsConfirm ==
    \A j \in Jobs : row[j].status = "ready" => row[j].conf = NoKey

(* What the user is asked to confirm, and what is then applied, is the     *)
(* fully valid source the client announced: of a job that no cancel cut    *)
(* off from its worker.  A cleaner that listed the job before it got here  *)
(* may have deleted the normalized object; no one replaced it.             *)
ReadyIsValidated ==
    \A j \in Jobs :
        (row[j].status \in {"ready", "apply_queued", "applying"} /\ ~hist[j].cut) =>
            /\ row[j].sum \in GoodFiles
            /\ \/ obj[j].norm = row[j].sum
               \/ obj[j].norm = NoFile /\ hist[j].swept

(* README step 5: only a source the user confirmed is ever written.        *)
WrittenWasConfirmed(j) ==
    \A b \in Batch : applied[j][b] # NoFile => applied[j][b] \in hist[j].confirmed

(* It holds of a job that no cancel cut off from its worker.               *)
AppliedWasConfirmed ==
    \A j \in Jobs : ~hist[j].cut => WrittenWasConfirmed(j)

(* A succeeded import has written every batch of the announced source and  *)
(* nothing else.                                                           *)
WroteItsSource(j) ==
    row[j].status = "succeeded" =>
        \A b \in Batch : applied[j][b] = IF b <= BatchesOf[row[j].sum]
                                         THEN row[j].sum ELSE NoFile

(* It holds of a job that was never retried.                               *)
SucceededAppliedSource ==
    \A j \in Jobs : hist[j].attempt = 0 => WroteItsSource(j)

(* The error report a user may download is the report on the announced     *)
(* source, and it is there unless a cleaner had listed the job before.     *)
ReportIsOfSource ==
    \A j \in Jobs :
        (ReportOffered(j) /\ ~hist[j].cut) =>
            \/ obj[j].rep = row[j].sum
            \/ obj[j].rep = NoFile /\ hist[j].swept

(* No result object outlives the expiry of its job.                        *)
ResultsGone(j) ==
    row[j].status \in {"expired", "purged"} =>
        obj[j].norm = NoFile /\ obj[j].rep = NoFile

(* It holds of a job that was never retried.                               *)
ExpiredResultsGone == \A j \in Jobs : hist[j].attempt = 0 => ResultsGone(j)

(* A job that was never retried expires only when its own deadline passed, *)
(* however old the listing is that its cleaner works through.              *)
ExpiresAfterDeadline ==
    [][\A j \in Jobs :
        (/\ row'[j].status = "expired"
         /\ row[j].status # "expired"
         /\ hist[j].attempt = 0) => j \in ListExpired]_vars

(* The service implements the documented state diagram, one edge per       *)
(* version.                                                                *)
Lifecycle == INSTANCE JobLifecycle WITH
    status <- [j \in Jobs |-> row[j].status],
    version <- [j \in Jobs |-> row[j].version]

LifecycleSpec == Lifecycle!Spec

(* Queued and running jobs settle, unless a worker was lost on the job.    *)
InFlight(j) == row[j].status \in {"queued", "apply_queued"} \cup Running

WorkSettles ==
    \A j \in Jobs : InFlight(j) ~> (~InFlight(j) \/ hist[j].lost # {})

(* A job that got a deadline does not keep it for ever: it expires or is   *)
(* taken up again.                                                         *)
Due(j) ==
    \/ row[j].status = "uploading"
    \/ row[j].status \in Retained /\ row[j].res # "null"

RetentionEnds == \A j \in Jobs : Due(j) ~> ~Due(j)
-----------------------------------------------------------------------------
(* What the documents say without the conditions above; see the findings   *)
(* in README.md.                                                           *)

(* README step 5, of every job.                                            *)
OnlyConfirmedIsWritten == \A j \in Jobs : WrittenWasConfirmed(j)

(* README steps 4 and 5: a corrected file, uploaded by a retry and         *)
(* confirmed, is what gets written.                                        *)
CorrectedFileIsWritten ==
    \A j \in Jobs : ~hist[j].cut => WroteItsSource(j)

(* worker.go on PurgeExpiredMetadata: the row goes after all result        *)
(* objects were deleted.                                                   *)
PurgedAfterResults ==
    \A j \in Jobs : (row[j].status = "purged" /\ ~hist[j].cut) => ResultsGone(j)

(* README step 6: result files are cleaned when their retention ends.      *)
ResultFilesCleaned ==
    \A j \in Jobs : obj[j].norm # NoFile ~> obj[j].norm = NoFile
=============================================================================
