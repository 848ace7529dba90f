--------------------------- MODULE EventDelivery ---------------------------
(***************************************************************************)
(* How the message that wakes a worker gets from the transaction that      *)
(* queues a job to Worker.Validate or Worker.Apply: the outbox table, its  *)
(* dispatchers, the JetStream stream with its duplicate window and its     *)
(* consumers, and internal/app/import_eventbus.go, which runs one of each  *)
(* in every replica.  The outbox library and JetStream are external: they  *)
(* are modelled from the options the code gives them.                      *)
(***************************************************************************)
EXTENDS Integers, FiniteSets

CONSTANTS
    Jobs,        \* jobs, each with the message that queues it
    Foreign,     \* messages of others under the same subject
    Replicas,    \* processes that run importEventRuntime
    MaxDeliver,  \* event_bus.consumer_max_deliver
    MaxCopies,   \* bound on the copies of a job's message in the stream
    MaxFaults,   \* bound on failures
    MaxStops     \* bound on processes that stop or crash

ASSUME DeliveryAssumption ==
    /\ Jobs \cap Foreign = {}
    /\ MaxDeliver \in Nat \ {0} /\ MaxCopies \in Nat \ {0}
    /\ MaxFaults \in Nat /\ MaxStops \in Nat

Ids == Jobs \cup Foreign
Messages == (Jobs \X (1..MaxCopies)) \cup (Foreign \X {1})

VARIABLES
    job,        \* status of a job, and the replica whose worker claimed it
    told,       \* statuses of a job for which an outbox row was committed
    outbox,     \* import_outbox_events
    batch,      \* what a replica's dispatcher is doing with a row
    remembered, \* message ids inside the duplicate window
    stream,     \* copies in the stream: deliveries, outstanding or not
    flight,     \* handlers at work: the replica and the stage
    runtime,    \* replicas
    claims,     \* times a job was claimed
    faults, stops

vars == <<job, told, outbox, batch, remembered, stream, flight, runtime, claims, faults, stops>>

JobStatus == {"none", "queued", "running", "ended"}

TypeOK ==
    /\ job \in [Jobs -> JobStatus] /\ told \in [Jobs -> SUBSET JobStatus]
    /\ outbox \in [Jobs -> {"none", "due", "leased", "published", "deleted"}]
    /\ batch \in [Replicas -> [Jobs -> {"no", "taken", "sent"}]]
    /\ remembered \subseteq Ids
    /\ stream \in [Messages -> [state: {"absent", "held", "acked"}, n: 0..MaxDeliver,
                                out: BOOLEAN]]
    /\ flight \in [Messages -> [Replicas -> {"no", "handle", "run"}]]
    /\ runtime \in [Replicas -> {"running", "stopping", "stopped"}]
    /\ claims \in [Jobs -> 0..MaxDeliver * MaxCopies]
    /\ faults \in 0..MaxFaults /\ stops \in 0..MaxStops

Init ==
    /\ job = [j \in Jobs |-> "none"] /\ told = [j \in Jobs |-> {}]
    /\ outbox = [j \in Jobs |-> "none"]
    /\ batch = [p \in Replicas |-> [j \in Jobs |-> "no"]]
    /\ remembered = {}
    /\ stream = [m \in Messages |-> [state |-> "absent", n |-> 0, out |-> FALSE]]
    /\ flight = [m \in Messages |-> [p \in Replicas |-> "no"]]
    /\ runtime = [p \in Replicas |-> "stopped"]
    /\ claims = [j \in Jobs |-> 0]
    /\ faults = 0 /\ stops = 0

Fault == faults < MaxFaults /\ faults' = faults + 1
jobVars == <<job, told, claims>>
-----------------------------------------------------------------------------
(* The transaction of CompleteUpload or Confirm: the row and its event.    *)
Enqueue(j) ==
    /\ job[j] = "none"
    /\ job' = [job EXCEPT ![j] = "queued"] /\ told' = [told EXCEPT ![j] = @ \cup {"queued"}]
    /\ outbox' = [outbox EXCEPT ![j] = "due"]
    /\ UNCHANGED <<batch, remembered, stream, flight, runtime, claims, faults, stops>>

(* RunOnce, external: rows that are due are leased, ...                    *)
Lease(p, j) ==
    /\ runtime[p] = "running" /\ outbox[j] = "due" /\ batch[p][j] = "no"
    /\ outbox' = [outbox EXCEPT ![j] = "leased"]
    /\ batch' = [batch EXCEPT ![p][j] = "taken"]
    /\ UNCHANGED <<job, told, remembered, stream, flight, runtime, claims, faults, stops>>

(* A copy of a message enters the stream, unless its id is remembered.     *)
Stored(i) ==
    LET absent == {m \in Messages : m[1] = i /\ stream[m].state = "absent"} IN
    /\ remembered' = remembered \cup {i}
    /\ IF i \in remembered
       THEN UNCHANGED stream
       ELSE /\ absent # {}
            /\ stream' = [stream EXCEPT ![CHOOSE m \in absent : \A n \in absent : m[2] <= n[2]] =
                             [state |-> "held", n |-> 0, out |-> FALSE]]

(* ... published; a row whose publication fails is due again after         *)
(* dispatch_retry_delay, ...                                               *)
Publish(p, j) ==
    /\ batch[p][j] = "taken"
    /\ \/ /\ Stored(j)
          /\ batch' = [batch EXCEPT ![p][j] = "sent"]
          /\ UNCHANGED <<outbox, faults>>
       \/ /\ Fault
          /\ batch' = [batch EXCEPT ![p][j] = "no"]
          /\ outbox' = [outbox EXCEPT ![j] = IF @ = "leased" THEN "due" ELSE @]
          /\ UNCHANGED <<remembered, stream>>
    /\ UNCHANGED <<job, told, flight, runtime, claims, stops>>

(* ... and marked as published.                                            *)
Mark(p, j) ==
    /\ batch[p][j] = "sent"
    /\ batch' = [batch EXCEPT ![p][j] = "no"]
    /\ outbox' = [outbox EXCEPT ![j] = IF @ = "leased" THEN "published" ELSE @]
    /\ UNCHANGED <<job, told, remembered, stream, flight, runtime, claims, faults, stops>>

(* External: dispatch_lease is over, the row is due for every dispatcher.  *)
(* Without a fault this happens to the rows of a process that is gone.     *)
LeaseExpires(j) ==
    /\ outbox[j] = "leased"
    /\ \/ (\A p \in Replicas : batch[p][j] = "no") /\ UNCHANGED faults
       \/ (\E p \in Replicas : batch[p][j] # "no") /\ Fault
    /\ outbox' = [outbox EXCEPT ![j] = "due"]
    /\ UNCHANGED <<job, told, batch, remembered, stream, flight, runtime, claims, stops>>

(* External: the retention cleaner deletes published rows, and JetStream   *)
(* forgets message ids after duplicate_window.                             *)
Clean(j) ==
    /\ outbox[j] = "published" /\ \E p \in Replicas : runtime[p] = "running"
    /\ outbox' = [outbox EXCEPT ![j] = "deleted"]
    /\ UNCHANGED <<job, told, batch, remembered, stream, flight, runtime, claims, faults, stops>>

Forget(i) ==
    /\ i \in remembered
    /\ \E m \in Messages : m[1] = i /\ stream[m].state = "absent"
    /\ remembered' = remembered \ {i}
    /\ UNCHANGED <<job, told, outbox, batch, stream, flight, runtime, claims, faults, stops>>

(* External: a message whose payload, change type or scope handle refuses. *)
Inject(i) ==
    /\ i \notin remembered
    /\ Stored(i)
    /\ UNCHANGED <<job, told, outbox, batch, flight, runtime, claims, faults, stops>>
-----------------------------------------------------------------------------
(* External: the durable consumer hands a copy to one of its subscribers,  *)
(* at most max_deliver times.                                              *)
Deliver(p, m) ==
    /\ runtime[p] = "running" /\ flight[m][p] = "no"
    /\ stream[m].state = "held" /\ ~stream[m].out /\ stream[m].n < MaxDeliver
    /\ stream' = [stream EXCEPT ![m].n = @ + 1, ![m].out = TRUE]
    /\ flight' = [flight EXCEPT ![m][p] = "handle"]
    /\ UNCHANGED <<job, told, outbox, batch, remembered, runtime, claims, faults, stops>>

(* External: consumer_ack_wait is over.  It exceeds import.job_timeout, so *)
(* that without a fault the handler is gone or about to return.            *)
AckWaitPasses(m) ==
    /\ stream[m].state = "held" /\ stream[m].out
    /\ \/ (\A p \in Replicas : flight[m][p] = "no") /\ UNCHANGED faults
       \/ (\E p \in Replicas : flight[m][p] # "no") /\ Fault
    /\ stream' = [stream EXCEPT ![m].out = FALSE]
    /\ UNCHANGED <<job, told, outbox, batch, remembered, flight, runtime, claims, stops>>

(* The handler returns nil: an acknowledgement, which may be lost.         *)
Acked(p, m) ==
    /\ flight' = [flight EXCEPT ![m][p] = "no"]
    /\ \/ stream' = [stream EXCEPT ![m].state = "acked", ![m].out = FALSE] /\ UNCHANGED faults
       \/ Fault /\ UNCHANGED stream

(* The handler returns an error: the message is delivered again.           *)
Refused(p, m) ==
    /\ flight' = [flight EXCEPT ![m][p] = "no"]
    /\ stream' = [stream EXCEPT ![m].out = FALSE]

(* Faulty variant: a job is run whatever its status.                       *)
ClaimableAny(j) == TRUE

(* WHERE status='queued', or 'apply_queued'.                               *)
Claimable(j) == job[j] = "queued"

(* Faulty variant: an error is logged and the message acknowledged.        *)
HandleSwallows(p, m) ==
    LET j == m[1] IN
    /\ flight[m][p] = "handle"
    /\ \/ j \in Foreign /\ Acked(p, m) /\ UNCHANGED jobVars
       \/ /\ j \in Jobs /\ Fault /\ UNCHANGED jobVars
          /\ flight' = [flight EXCEPT ![m][p] = "no"]
          /\ stream' = [stream EXCEPT ![m].state = "acked", ![m].out = FALSE]
       \/ j \in Jobs /\ ~Claimable(j) /\ Acked(p, m) /\ UNCHANGED jobVars
       \/ /\ j \in Jobs /\ Claimable(j)
          /\ job' = [job EXCEPT ![j] = "running"] /\ claims' = [claims EXCEPT ![j] = @ + 1]
          /\ flight' = [flight EXCEPT ![m][p] = "run"]
          /\ UNCHANGED <<told, stream, faults>>
    /\ UNCHANGED <<outbox, batch, remembered, runtime, stops>>

(* handle up to the claim of Validate or Apply: a message it cannot        *)
(* process is an error, a job in another status is not.                    *)
Handle(p, m) ==
    LET j == m[1] IN
    /\ flight[m][p] = "handle"
    /\ \/ j \in Foreign /\ Refused(p, m) /\ UNCHANGED <<jobVars, faults>>
       \/ j \in Jobs /\ Fault /\ Refused(p, m) /\ UNCHANGED jobVars
       \/ j \in Jobs /\ ~Claimable(j) /\ Acked(p, m) /\ UNCHANGED jobVars
       \/ /\ j \in Jobs /\ Claimable(j)
          /\ job' = [job EXCEPT ![j] = "running"] /\ claims' = [claims EXCEPT ![j] = @ + 1]
          /\ flight' = [flight EXCEPT ![m][p] = "run"]
          /\ UNCHANGED <<told, stream, faults>>
    /\ UNCHANGED <<outbox, batch, remembered, runtime, stops>>

(* The worker's last transaction: the final status and its event.  A run   *)
(* that failed returns its cause although the failure is stored.  One that *)
(* a stopping process canceled stores the failure all the same.            *)
Finish(p, m) ==
    LET j == m[1] IN
    /\ flight[m][p] = "run"
    /\ job' = [job EXCEPT ![j] = "ended"] /\ told' = [told EXCEPT ![j] = @ \cup {"ended"}]
    /\ \/ Acked(p, m)
       \/ Refused(p, m) /\ UNCHANGED faults
    /\ UNCHANGED <<outbox, batch, remembered, runtime, claims, stops>>
-----------------------------------------------------------------------------
(* start: the dispatcher, the cleaner and the two consumers.               *)
Start(p) ==
    /\ runtime[p] = "stopped"
    /\ runtime' = [runtime EXCEPT ![p] = "running"]
    /\ UNCHANGED <<job, told, outbox, batch, remembered, stream, flight, claims, faults, stops>>

(* stop: cancel ...                                                        *)
Cancel(p) ==
    /\ runtime[p] = "running" /\ stops < MaxStops
    /\ stops' = stops + 1
    /\ runtime' = [runtime EXCEPT ![p] = "stopping"]
    /\ UNCHANGED <<job, told, outbox, batch, remembered, stream, flight, claims, faults>>

Idle(p) ==
    /\ \A j \in Jobs : batch[p][j] = "no"
    /\ \A m \in Messages : flight[m][p] = "no"

(* Faulty variant: stop does not wait for the goroutines.                  *)
WaitNot(p) ==
    /\ runtime[p] = "stopping"
    /\ runtime' = [runtime EXCEPT ![p] = "stopped"]
    /\ UNCHANGED <<job, told, outbox, batch, remembered, stream, flight, claims, faults, stops>>

(* ... and wg.Wait.                                                        *)
Wait(p) ==
    /\ runtime[p] = "stopping" /\ Idle(p)
    /\ runtime' = [runtime EXCEPT ![p] = "stopped"]
    /\ UNCHANGED <<job, told, outbox, batch, remembered, stream, flight, claims, faults, stops>>

(* A process dies: a job it was running stays as it is.                    *)
Crash(p) ==
    /\ runtime[p] # "stopped" /\ stops < MaxStops
    /\ stops' = stops + 1
    /\ runtime' = [runtime EXCEPT ![p] = "stopped"]
    /\ batch' = [batch EXCEPT ![p] = [j \in Jobs |-> "no"]]
    /\ flight' = [m \in Messages |-> [flight[m] EXCEPT ![p] = "no"]]
    /\ UNCHANGED <<job, told, outbox, remembered, stream, claims, faults>>

Next ==
    \/ \E j \in Jobs : Enqueue(j) \/ LeaseExpires(j) \/ Clean(j)
    \/ \E i \in Ids : Forget(i)
    \/ \E i \in Foreign : Inject(i)
    \/ \E m \in Messages : AckWaitPasses(m)
    \/ \E p \in Replicas, j \in Jobs : Lease(p, j) \/ Publish(p, j) \/ Mark(p, j)
    \/ \E p \in Replicas, m \in Messages : Deliver(p, m) \/ Handle(p, m) \/ Finish(p, m)
    \/ \E p \in Replicas : Start(p) \/ Cancel(p) \/ Wait(p) \/ Crash(p)

Spec == Init /\ [][Next]_vars

(* The dispatcher ticks, JetStream delivers, a handler returns, waits end, *)
(* and a process that stopped is started again.                            *)
FairSpec ==
    /\ Spec
    /\ \A j \in Jobs : WF_vars(LeaseExpires(j))
    /\ \A m \in Messages : WF_vars(AckWaitPasses(m))
    /\ \A p \in Replicas :
        /\ WF_vars(Start(p)) /\ WF_vars(Wait(p))
        /\ \A j \in Jobs : WF_vars(Lease(p, j)) /\ WF_vars(Publish(p, j)) /\ WF_vars(Mark(p, j))
        /\ \A m \in Messages : /\ WF_vars(Deliver(p, m)) /\ WF_vars(Handle(p, m))
                               /\ WF_vars(Finish(p, m))
-----------------------------------------------------------------------------
Copies(j) == {<<j, c>> : c \in 1..MaxCopies}
Exhausted(j) == \E m \in Copies(j) : stream[m].state = "held" /\ stream[m].n = MaxDeliver

(* The message of a job is in the outbox, due or leased, or in the stream. *)
MessageKept(j) == outbox[j] \in {"due", "leased"} \/ \E m \in Copies(j) : stream[m].state = "held"

(* Republished, redelivered or handled twice at once, a message makes      *)
(* exactly one worker run the job; and until one does, no crash, expired   *)
(* lease, forgotten id or deleted row has lost the last copy of it.        *)
ClaimedOnce ==
    \A j \in Jobs :
        /\ claims[j] <= 1
        /\ job[j] \in {"running", "ended"} => claims[j] = 1
        /\ job[j] = "queued" => MessageKept(j)

(* Once stop has returned, nothing of the process is at work: no message   *)
(* is handled against a database that is about to be closed.               *)
StoppedIsQuiet == \A p \in Replicas : runtime[p] = "stopped" => Idle(p)

(* A queued job is claimed, unless every delivery of its message failed:   *)
(* JetStream then gives up and nothing else wakes the job.                 *)
JobWakes == \A j \in Jobs : job[j] = "queued" ~> job[j] # "queued" \/ Exhausted(j)

(* README.md: every change of status is published through the outbox.      *)
EveryChangeIsPublished == \A j \in Jobs : job[j] # "none" => job[j] \in told[j]
=============================================================================
