-------------------------- MODULE MCOutboundCall ---------------------------
(* Small instances of OutboundCall for TLC.                                *)
EXTENDS OutboundCall, TLC

CallInputs == {[safe |-> FALSE, keyed |-> FALSE], [safe |-> TRUE, keyed |-> FALSE],
               [safe |-> FALSE, keyed |-> TRUE]}

Interchangeable == Permutations(Calls)
=============================================================================
