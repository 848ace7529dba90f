------------------------- MODULE MCRequestPipeline -------------------------
(* Small instances of RequestPipeline for TLC.                             *)
EXTENDS RequestPipeline, TLC

CONSTANTS u1, m1, t1, t2, k1, b1, b2

MCTenantOf == (u1 :> t1) @@ (m1 :> NoOne)

Http(route, cred, tenant, key, body) ==
    [transport |-> "http", route |-> route, cred |-> cred, tenant |-> tenant,
     key |-> key, body |-> body, wellFormed |-> TRUE]

(* A key that one caller holds and others want: repetitions, another body  *)
(* for another tenant, another subject, which is a service account of no   *)
(* tenant, another transport; no credential, a forged one and the          *)
(* pre-shared key; exempted and open routes; a request that is refused at  *)
(* the edge.                                                               *)
SomeInputs ==
    {Http("confirm", u1, t1, k1, b1), Http("confirm", u1, t2, k1, b2),
     Http("confirm", m1, t1, k1, b1)}
        \cup {Http("retry", c, t2, NoKey, b1) : c \in {"forged", "psk"}}
        \cup {[Http("confirm", u1, t1, k1, b1) EXCEPT !.transport = "grpc"],
              [Http("cancel", NoOne, t1, k1, b1) EXCEPT !.transport = "grpc"],
              [Http("version", u1, t1, NoKey, b1) EXCEPT !.transport = "stream"],
              [Http("confirm", u1, t1, k1, b1) EXCEPT !.wellFormed = FALSE]}

Interchangeable == Permutations(Requests)
=============================================================================
