--------------------------- MODULE ImportCleaner ---------------------------
(***************************************************************************)
(* CleanupExpired and PurgeExpiredMetadata of internal/importjob/worker.go,*)
(* which the scheduler of every replica runs on a timetable of its own.  A *)
(* run that is still going makes the scheduler skip the next one.          *)
(***************************************************************************)
EXTENDS ImportStore

CONSTANTS
    Cleaners,     \* replicas that run the scheduled cleanup
    CleanupLimit  \* bound on the jobs one run lists

ASSUME CleanerAssumption == CleanupLimit \in Nat \ {0}

VARIABLE cleaner  \* where each replica's cleanup run is

(* todo holds the listed jobs that are still to be handled, each with the  *)
(* status it was listed in; job is the one whose objects are being deleted *)
(* and seen the status it was listed in.                                   *)
Listable == {"uploading"} \cup Retained
Listing  == SUBSET (Jobs \X Listable)
Resting  == [pc |-> "rest"]
Picking  == [pc: {"pick"}, todo: Listing]
Sweeping == [pc: {"norm", "rep", "expire"}, todo: Listing,
             job: Jobs, seen: Listable]

CleanerTypeOK == cleaner \in [Cleaners -> {Resting} \cup Picking \cup Sweeping]

CleanerInit == cleaner = [k \in Cleaners |-> Resting]

CleanerTo(k, s) == cleaner' = [cleaner EXCEPT ![k] = s]
-----------------------------------------------------------------------------
(* The listing is a snapshot.  Which jobs come first when there are more   *)
(* than the limit is left open.                                            *)
List(k) ==
    /\ cleaner[k] = Resting
    /\ \E S \in SUBSET ListExpired :
        /\ S # {}
        /\ Cardinality(S) <= CleanupLimit
        /\ S = ListExpired \/ Cardinality(S) = CleanupLimit
        /\ CleanerTo(k, [pc |-> "pick",
                         todo |-> {<<j, row[j].status>> : j \in S}])
    /\ UNCHANGED storeVars

(* The keys of the listing are those of the live job: a retry reuses them. *)
DeleteSource(k, p) ==
    /\ cleaner[k].pc = "pick"
    /\ obj' = [obj EXCEPT ![p[1]].src = NoFile]
    /\ CleanerTo(k, [pc |-> "norm", todo |-> cleaner[k].todo \ {p},
                     job |-> p[1], seen |-> p[2]])
    /\ hist' = [hist EXCEPT ![p[1]].swept = TRUE]
    /\ UNCHANGED <<row, events, applied, faults>>

DeleteNormalized(k) ==
    /\ cleaner[k].pc = "norm"
    /\ obj' = [obj EXCEPT ![cleaner[k].job].norm = NoFile]
    /\ CleanerTo(k, [cleaner[k] EXCEPT !.pc = "rep"])
    /\ UNCHANGED <<row, events, applied, hist, faults>>

(* Faulty variant: the report is not among the keys.                       *)
DeleteReportSkipped(k) ==
    /\ cleaner[k].pc = "rep"
    /\ CleanerTo(k, [cleaner[k] EXCEPT !.pc = "expire"])
    /\ UNCHANGED storeVars

DeleteReport(k) ==
    /\ cleaner[k].pc = "rep"
    /\ obj' = [obj EXCEPT ![cleaner[k].job].rep = NoFile]
    /\ CleanerTo(k, [cleaner[k] EXCEPT !.pc = "expire"])
    /\ UNCHANGED <<row, events, applied, hist, faults>>

(* The transaction, or ErrStaleVersion and on to the next job.             *)
Expire(k) ==
    LET todo == cleaner[k].todo IN
    /\ cleaner[k].pc = "expire"
    /\ \/ SqlExpire(cleaner[k].job, cleaner[k].seen)
       \/ row[cleaner[k].job].status # cleaner[k].seen /\ UNCHANGED row
    /\ CleanerTo(k, IF todo = {} THEN Resting
                                 ELSE [pc |-> "pick", todo |-> todo])
    /\ UNCHANGED <<obj, events, applied, hist, faults>>

(* An error of the object store or the database, or the end of the         *)
(* process, gives up the rest of the run.                                  *)
Abort(k) ==
    /\ cleaner[k] # Resting
    /\ faults < MaxFaults
    /\ faults' = faults + 1
    /\ CleanerTo(k, Resting)
    /\ UNCHANGED <<row, obj, events, applied, hist>>

(* PurgeExpiredMetadata, some time after the row expired.                  *)
Purge(j) ==
    /\ SqlDeleteExpired(j)
    /\ UNCHANGED <<obj, events, applied, hist, faults, cleaner>>

CleanerStep(k) ==
    \/ List(k)
    \/ cleaner[k].pc = "pick" /\ \E p \in cleaner[k].todo : DeleteSource(k, p)
    \/ DeleteNormalized(k) \/ DeleteReport(k)
    \/ Expire(k)
=============================================================================
