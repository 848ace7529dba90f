------------------------- MODULE MCProviderSession -------------------------
(* Small instances of ProviderSession for TLC.                             *)
EXTENDS ProviderSession, TLC

CONSTANTS s1, s2, t1, t2

(* A session of two batches beside one of an empty file, which opens and   *)
(* closes a stream and may replace the connection meanwhile.               *)
TwoAndNone == (s1 :> 2) @@ (s2 :> 0)
=============================================================================
