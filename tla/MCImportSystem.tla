--------------------------- MODULE MCImportSystem ---------------------------
(* Small instances of ImportSystem for TLC.                                *)
EXTENDS ImportSystem, TLC

(* All files have the same size, so that Stat cannot tell them apart.      *)
MCSizeOf == [f \in Files |-> 1]

(* Every file fills all batches.                                           *)
MCBatchesOf == [f \in Files |-> MaxBatches]

(* Workers, clients and cleaners run the same program.                     *)
Replicas == Permutations(Workers) \cup Permutations(Clients)
                \cup Permutations(Cleaners)
=============================================================================
