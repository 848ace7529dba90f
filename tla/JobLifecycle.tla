---------------------------- MODULE JobLifecycle ----------------------------
(***************************************************************************)
(* The promise the service makes to everyone who holds a job's version: a  *)
(* job moves along the edges of the documented state diagram only, one     *)
(* edge per version, and a version once read names one status for ever.    *)
(***************************************************************************)
EXTENDS Naturals

CONSTANT Jobs

VARIABLES status, version

lifecycleVars == <<status, version>>

(* The state diagram of README.md, with the edges from and to the absence  *)
(* of a row.  Retry is the edge back to uploading.                         *)
Successors == [
    none              |-> {"uploading"},
    uploading         |-> {"queued", "canceled", "expired"},
    queued            |-> {"validating", "canceled"},
    validating        |-> {"validation_failed", "ready", "failed", "canceled"},
    validation_failed |-> {"uploading", "canceled", "expired"},
    ready             |-> {"apply_queued", "canceled"},
    apply_queued      |-> {"applying", "canceled"},
    applying          |-> {"succeeded", "failed", "canceled"},
    succeeded         |-> {"expired"},
    failed            |-> {"uploading", "canceled", "expired"},
    canceled          |-> {"uploading", "expired"},
    expired           |-> {},
    purged            |-> {}]

Init ==
    /\ status = [j \in Jobs |-> "none"]
    /\ version = [j \in Jobs |-> 0]

Advance(j) ==
    /\ \E s \in Successors[status[j]] : status' = [status EXCEPT ![j] = s]
    /\ version' = [version EXCEPT ![j] = @ + 1]

Forget(j) ==
    /\ status[j] = "expired"
    /\ status' = [status EXCEPT ![j] = "purged"]
    /\ UNCHANGED version

Next == \E j \in Jobs : Advance(j) \/ Forget(j)

Spec == Init /\ [][Next]_lifecycleVars
=============================================================================
