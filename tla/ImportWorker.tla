---------------------------- MODULE ImportWorker ----------------------------
(***************************************************************************)
(* Validate and Apply of internal/importjob/worker.go, called by the       *)
(* JetStream consumers of internal/app/import_eventbus.go on any replica.  *)
(* A message is delivered at least once, possibly to several workers at a  *)
(* time; it is taken off events only when a handler that returned nil      *)
(* manages to acknowledge it.                                              *)
(***************************************************************************)
EXTENDS ImportStore

CONSTANT Workers

VARIABLE worker  \* what each worker is doing

Idle == [pc |-> "idle"]

(* pc is the last thing the handler did; sum is source_checksum in the     *)
(* copy of the row the handler works with, file the content it opened,     *)
(* batch the number of batches the provider acknowledged, attempt the      *)
(* retries the job had seen when it was claimed.                           *)
Opening == [pc: {"claimed", "read"}, ev: Event, sum: FileOrNo,
            file: {NoFile}, batch: {0}, attempt: 0..MaxAttempts]
Opened  == [pc: {"opened", "normalized", "reported"}, ev: Event, sum: FileOrNo,
            file: Files, batch: 0..MaxBatches, attempt: 0..MaxAttempts]
Handler == Opening \cup Opened

WorkerTypeOK == worker \in [Workers -> {Idle} \cup Handler]

WorkerInit == worker = [w \in Workers |-> Idle]

At(w, kind, pc) == worker[w].pc = pc /\ worker[w].ev.kind = kind
Busy(w) == worker[w].pc # "idle"
JobOf(w) == worker[w].ev.job
GoTo(w, h) == worker' = [worker EXCEPT ![w] = h]
-----------------------------------------------------------------------------
(* claim: the status update commits on its own, before the row is read.    *)
Claim(w, e) ==
    /\ worker[w] = Idle
    /\ SqlClaim(e.job, e.kind)
    /\ GoTo(w, [pc |-> "claimed", ev |-> e, sum |-> NoFile, file |-> NoFile,
                batch |-> 0, attempt |-> hist[e.job].attempt])
    /\ UNCHANGED <<obj, events, applied, hist, faults>>

(* Nothing to claim: the handler returns nil.                              *)
SkipDelivery(w, e) ==
    /\ worker[w] = Idle
    /\ row[e.job].status # Waiting(e.kind)
    /\ MayAck(e)
    /\ UNCHANGED <<row, obj, applied, hist, faults, worker>>

(* The second statement of claim reads the row, as it is by now.           *)
ReadClaimed(w) ==
    /\ worker[w].pc = "claimed"
    /\ row[JobOf(w)].status # "purged"
    /\ GoTo(w, [worker[w] EXCEPT !.pc = "read", !.sum = row[JobOf(w)].sum])
    /\ UNCHANGED storeVars

(* The row is gone: claim returns ErrNotFound.                             *)
ReadNothing(w) ==
    /\ worker[w].pc = "claimed"
    /\ row[JobOf(w)].status = "purged"
    /\ GoTo(w, Idle)
    /\ UNCHANGED storeVars

OpenSource(w) ==
    /\ At(w, "requested", "read")
    /\ obj[JobOf(w)].src # NoFile
    /\ GoTo(w, [worker[w] EXCEPT !.pc = "opened", !.file = obj[JobOf(w)].src])
    /\ UNCHANGED storeVars

(* Faulty variant: any file that could be opened is accepted.              *)
ChecksumIgnored(w) == worker[w].file # NoFile

(* The stream was parsed, every batch validated by the provider, and its   *)
(* checksum compared with the one in the handler's copy of the row.        *)
ChecksumMatches(w) == worker[w].file = worker[w].sum
HasInvalidRows(w) == worker[w].file \notin GoodFiles

PutNormalized(w) ==
    /\ At(w, "requested", "opened")
    /\ ChecksumMatches(w)
    /\ obj' = [obj EXCEPT ![JobOf(w)].norm = worker[w].file]
    /\ GoTo(w, [worker[w] EXCEPT !.pc = "normalized"])
    /\ UNCHANGED <<row, events, applied, hist, faults>>

PutReport(w) ==
    /\ At(w, "requested", "normalized")
    /\ HasInvalidRows(w)
    /\ obj' = [obj EXCEPT ![JobOf(w)].rep = worker[w].file]
    /\ GoTo(w, [worker[w] EXCEPT !.pc = "reported"])
    /\ UNCHANGED <<row, events, applied, hist, faults>>

(* Faulty variant: finishes without uploading the report.                  *)
ValidatedBeforeReport(w) ==
    At(w, "requested", "reported") \/ At(w, "requested", "normalized")

Validated(w) ==
    \/ At(w, "requested", "reported")
    \/ At(w, "requested", "normalized") /\ ~HasInvalidRows(w)

(* The finishing transaction.  If the status moved on, it changes nothing  *)
(* and the handler's error leaves the message for another delivery.        *)
FinishValidation(w) ==
    /\ Validated(w)
    /\ GoTo(w, Idle)
    /\ \/ SqlFinishValidation(JobOf(w), HasInvalidRows(w)) /\ MayAck(worker[w].ev)
       \/ row[JobOf(w)].status # "validating" /\ UNCHANGED <<row, events>>
    /\ UNCHANGED <<obj, applied, hist, faults>>

OpenNormalized(w) ==
    /\ At(w, "apply-requested", "read")
    /\ obj[JobOf(w)].norm # NoFile
    /\ GoTo(w, [worker[w] EXCEPT !.pc = "opened", !.file = obj[JobOf(w)].norm])
    /\ UNCHANGED storeVars

(* External: the provider keeps the first rows written under a key and     *)
(* acknowledges any further request with that key.                         *)
ProviderApply(j, b, f) ==
    applied' = [applied EXCEPT ![j][b] = IF @ = NoFile THEN f ELSE @]

(* Faulty variant: one batch too many.                                     *)
BatchLeftOrOneMore(w) == worker[w].batch <= BatchesOf[worker[w].file]
BatchLeft(w) == worker[w].batch < BatchesOf[worker[w].file]

(* One batch, under the key job.ID:batch.Number.                           *)
ApplyBatch(w) ==
    /\ At(w, "apply-requested", "opened")
    /\ BatchLeft(w)
    /\ ProviderApply(JobOf(w), worker[w].batch + 1, worker[w].file)
    /\ GoTo(w, [worker[w] EXCEPT !.batch = @ + 1])
    /\ UNCHANGED <<row, obj, events, hist, faults>>

(* Faulty variant: one batch too few.                                      *)
AllButOneApplied(w) == worker[w].batch >= BatchesOf[worker[w].file] - 1
AllApplied(w) == worker[w].batch = BatchesOf[worker[w].file]

FinishApply(w) ==
    /\ At(w, "apply-requested", "opened")
    /\ AllApplied(w)
    /\ GoTo(w, Idle)
    /\ \/ SqlFinishApply(JobOf(w)) /\ MayAck(worker[w].ev)
       \/ row[JobOf(w)].status # "applying" /\ UNCHANGED <<row, events>>
    /\ UNCHANGED <<obj, applied, hist, faults>>

(* Faulty variant: the error is returned but not persisted.                *)
FailReturnsOnly(w) ==
    /\ worker[w].pc \notin {"idle", "claimed"}
    /\ GoTo(w, Idle)
    /\ UNCHANGED storeVars

(* fail: an unavailable object, a provider or parse error, a wrong         *)
(* checksum or the timeout ends the run anywhere after the row was read.   *)
(* The handler returns the cause, so the message stays.                    *)
Fail(w) ==
    /\ worker[w].pc \notin {"idle", "claimed"}
    /\ GoTo(w, Idle)
    /\ \/ SqlFail(JobOf(w), worker[w].ev.kind)
       \/ row[JobOf(w)].status # Claimed(worker[w].ev.kind) /\ UNCHANGED row
    /\ UNCHANGED <<obj, events, applied, hist, faults>>

(* The process dies, or the statement that reads the claimed row, finishes *)
(* it or fails it gets a database error: the claim is never given back.    *)
Lose(w) ==
    /\ Busy(w)
    /\ faults < MaxFaults
    /\ faults' = faults + 1
    /\ hist' = [hist EXCEPT ![JobOf(w)].lost =
                    @ \cup {<<worker[w].ev.kind, worker[w].attempt>>}]
    /\ GoTo(w, Idle)
    /\ UNCHANGED <<row, obj, events, applied>>

(* What the handler does by itself, as opposed to being lost.              *)
WorkerStep(w) ==
    \/ \E e \in events : Claim(w, e) \/ SkipDelivery(w, e)
    \/ ReadClaimed(w) \/ ReadNothing(w)
    \/ OpenSource(w) \/ PutNormalized(w) \/ PutReport(w) \/ FinishValidation(w)
    \/ OpenNormalized(w) \/ ApplyBatch(w) \/ FinishApply(w)
    \/ Fail(w)
=============================================================================
