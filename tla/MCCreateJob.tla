---------------------------- MODULE MCCreateJob ----------------------------
(* Small instances of CreateJob for TLC.                                   *)
EXTENDS CreateJob, TLC

Interchangeable ==
    Permutations(Requests) \cup Permutations(Scopes) \cup Permutations(Keys)
        \cup Permutations(Imports)
=============================================================================
