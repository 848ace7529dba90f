--------------------------- MODULE BatchExchange ---------------------------
(***************************************************************************)
(* What the worker relies on when it sends the batches of a file to a data *)
(* provider, whatever happens to streams and instances: batches are        *)
(* acknowledged in order, an acknowledged batch was written, and at most   *)
(* the batch in hand may have been written without acknowledgement.        *)
(***************************************************************************)
EXTENDS Naturals

CONSTANTS Sessions, Batches

VARIABLES
    acked,  \* number of batches acknowledged to the worker
    wrote,  \* batches the provider has written
    over    \* the session reported an error, or was closed

exchangeVars == <<acked, wrote, over>>

Init ==
    /\ acked = [s \in Sessions |-> 0]
    /\ wrote = [s \in Sessions |-> {}]
    /\ over = [s \in Sessions |-> FALSE]

(* A repetition of a batch is written again to no effect.                  *)
Write(s) ==
    /\ acked[s] + 1 \in Batches
    /\ wrote' = [wrote EXCEPT ![s] = @ \cup {acked[s] + 1}]
    /\ UNCHANGED <<acked, over>>

Acknowledge(s) ==
    /\ ~over[s]
    /\ acked[s] + 1 \in wrote[s]
    /\ acked' = [acked EXCEPT ![s] = @ + 1]
    /\ UNCHANGED <<wrote, over>>

End(s) ==
    /\ ~over[s]
    /\ over' = [over EXCEPT ![s] = TRUE]
    /\ UNCHANGED <<acked, wrote>>

Next == \E s \in Sessions : Write(s) \/ Acknowledge(s) \/ End(s)

Spec == Init /\ [][Next]_exchangeVars
=============================================================================
