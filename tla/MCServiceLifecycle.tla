------------------------- MODULE MCServiceLifecycle -------------------------
(* A small instance of ServiceLifecycle for TLC.                           *)
EXTENDS ServiceLifecycle, TLC

CONSTANTS request, rpc, job, sweep

(* One piece of work of every server.                                      *)
Servants == (request :> "http") @@ (rpc :> "grpc") @@ (job :> "events")
                @@ (sweep :> "scheduler")

Quiet == [present |-> TRUE, auth |-> "none", tls |-> FALSE, allow |-> FALSE,
          cert |-> "none", policy |-> TRUE]
Secured == [present |-> TRUE, auth |-> "token", tls |-> TRUE, allow |-> FALSE,
            cert |-> "pair", policy |-> TRUE]

(* config-production.yaml with its secrets injected, all features on.      *)
Production ==
    [fileEnv |-> "production", explicit |-> None, required |-> TRUE, unparsed |-> "none",
     grpc |-> "tls", reflection |-> FALSE, database |-> "on", autoUp |-> "on",
     redis |-> "on", redisAuth |-> TRUE, busTLS |-> TRUE, databaseTLS |-> TRUE,
     rateLimit |-> "on", cors |-> "on", observed |-> "on",
     swagger |-> "auth", jwks |-> TRUE, authorization |-> TRUE, secret |-> TRUE,
     psk |-> "on", idempotency |-> "on", bus |-> "on", ackWaitExceedsJob |-> TRUE,
     cron |-> "on", storage |-> "tls", presign |-> "tls",
     registry |-> "on", registryTLS |-> TRUE, registryAllow |-> FALSE,
     registryCert |-> "pair",
     providerTLS |-> TRUE, providerAllow |-> FALSE, providerPolicy |-> TRUE,
     http |-> Secured, httpScheme |-> "https", application |-> Secured, authz |-> Secured]

(* config-development.yaml: everything optional is off.                    *)
Development ==
    [fileEnv |-> "development", explicit |-> None, required |-> TRUE, unparsed |-> "none",
     grpc |-> "plain", reflection |-> TRUE, database |-> "off", autoUp |-> "off",
     redis |-> "off", redisAuth |-> FALSE, busTLS |-> FALSE, databaseTLS |-> FALSE,
     rateLimit |-> "off", cors |-> "off", observed |-> "off",
     swagger |-> "open", jwks |-> FALSE, authorization |-> FALSE, secret |-> TRUE,
     psk |-> "off", idempotency |-> "off", bus |-> "off", ackWaitExceedsJob |-> TRUE,
     cron |-> "on", storage |-> "off", presign |-> "none",
     registry |-> "off", registryTLS |-> FALSE, registryAllow |-> FALSE,
     registryCert |-> "none",
     providerTLS |-> FALSE, providerAllow |-> FALSE, providerPolicy |-> TRUE,
     http |-> Quiet, httpScheme |-> "http", application |-> Quiet, authz |-> Quiet]

(* The same with discovery, a store and a bus, in the clear by consent.    *)
Insecure ==
    [Development EXCEPT !.registry = "on", !.registryAllow = TRUE, !.providerAllow = TRUE,
                        !.storage = "plain", !.database = "on", !.bus = "on",
                        !.redis = "on"]

Bases == {Production, Development, Insecure}
Upstreams == {"http", "application", "authz"}
Varied(s) == IF s \in Upstreams THEN {u \in Upstream : u.present => u.policy} ELSE Values[s]

(* A base with one setting changed, under each profile.                    *)
OneChange ==
    UNION {{[[c EXCEPT ![s] = v] EXCEPT !.explicit = x] :
               v \in Varied(s), x \in Values.explicit} : c \in Bases, s \in Settings}
=============================================================================
