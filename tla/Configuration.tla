---------------------------- MODULE Configuration ----------------------------
(***************************************************************************)
(* The configuration of a process: Validate decides whether it is accepted *)
(* under a profile, the constructors decide once more, each by its own     *)
(* rules, and the clients they build connect with or without TLS.          *)
(* ServiceLifecycle takes the decisions.  A setting is reduced to the      *)
(* answers of the checks on it.                                            *)
(***************************************************************************)
EXTENDS Naturals, FiniteSets

CONSTANTS
    Given,   \* the configurations of files, profile file and environment
    None     \* no profile

Halves == {"cert only", "key only"}

(* A feature is off, on, or enabled and incomplete or out of range.        *)
Switch == {"off", "on", "bad"}

(* auth: type and token; tls, allow: tls.enabled and tls.allow_insecure;   *)
(* cert: cert_file and key_file; policy: target, timeout, retry, breaker.  *)
Upstream ==
    [present: BOOLEAN, auth: {"none", "token", "bad"}, tls: BOOLEAN, allow: BOOLEAN,
     cert: {"none", "pair"} \cup Halves, policy: BOOLEAN]

(* The values of each setting.  required: names, addresses, timeouts, path *)
(* patterns and limits that no flag switches off.  unparsed: the component *)
(* whose constructor cannot parse a value that Validate does not look      *)
(* into: log.level, a DSN or migration URL, NATS, base, registry, store or *)
(* JWKS addresses, the time zone or a spec of cron.  redisAuth, busTLS and *)
(* databaseTLS: what the password, the URLs and the DSN say.               *)
Values ==
    [fileEnv |-> {"production", "development"},
     explicit |-> {"production", "development", None},
     required |-> BOOLEAN,
     unparsed |-> {"none", "logging", "migration", "database", "bus", "outbound", "provider",
                   "events", "scheduler", "auth"},
     grpc |-> {"off", "plain", "tls", "bad"}, reflection |-> BOOLEAN,
     database |-> Switch, autoUp |-> Switch, redis |-> Switch,
     redisAuth |-> BOOLEAN, busTLS |-> BOOLEAN, databaseTLS |-> BOOLEAN,
     rateLimit |-> Switch, cors |-> Switch, observed |-> Switch,
     swagger |-> {"off", "auth", "open"},
     jwks |-> BOOLEAN, authorization |-> BOOLEAN, secret |-> BOOLEAN,
     psk |-> Switch, idempotency |-> Switch,
     bus |-> Switch, ackWaitExceedsJob |-> BOOLEAN, cron |-> Switch,
     storage |-> {"off", "plain", "tls", "bad"},
     presign |-> {"none", "plain", "tls", "no region"},
     registry |-> Switch, registryTLS |-> BOOLEAN, registryAllow |-> BOOLEAN,
     registryCert |-> {"none", "pair"} \cup Halves,
     providerTLS |-> BOOLEAN, providerAllow |-> BOOLEAN, providerPolicy |-> BOOLEAN,
     http |-> Upstream, httpScheme |-> {"http", "https"},
     application |-> Upstream, authz |-> Upstream]
Settings == DOMAIN Values
IsConfig(c) == DOMAIN c = Settings /\ \A s \in Settings : c[s] \in Values[s]

ASSUME ConfigurationAssumption ==
    /\ \A c \in Given : IsConfig(c)
    /\ None \notin {"production", "development"}

VARIABLES
    cfg,     \* the settings
    profile  \* runtime.active_profile, once they are loaded
-----------------------------------------------------------------------------
(* Validate, in the order of its clauses.  p: the profile is production.   *)
On(s) == cfg[s] # "off"

ValidServers(p) ==
    /\ cfg.required
    /\ cfg.grpc # "bad"
    /\ p => cfg.grpc # "plain" /\ ~cfg.reflection

ValidData ==
    /\ cfg.database # "bad" /\ cfg.redis # "bad" /\ cfg.autoUp # "bad"
    /\ On("database") => cfg.application.present
    /\ On("autoUp") => On("database")

ValidEdge(p) ==
    /\ cfg.rateLimit # "bad" /\ cfg.cors # "bad" /\ cfg.observed # "bad"
    /\ On("rateLimit") => On("redis")
    /\ p => cfg.swagger # "open"

ValidAuth(p) ==
    /\ p => cfg.jwks /\ cfg.authorization
    /\ cfg.authorization => cfg.authz.present
    /\ cfg.secret /\ cfg.psk # "bad"

ValidWork ==
    /\ cfg.idempotency # "bad" /\ cfg.bus # "bad" /\ cfg.cron # "bad"
    /\ On("idempotency") => On("redis")
    /\ On("bus") => cfg.ackWaitExceedsJob

(* validateObjectStoragePolicy.                                            *)
ValidStorage(p) ==
    On("storage") =>
        /\ cfg.storage # "bad" /\ cfg.presign # "no region"
        /\ p => cfg.storage = "tls" /\ cfg.presign # "plain"

(* Faulty variant: TLS and allow_insecure of one upstream are not compared *)
(* with its credentials.                                                   *)
ValidClientLax(u, p) ==
    u.present =>
        /\ u.policy /\ u.auth # "bad"
        /\ u.tls => ~u.allow /\ u.cert \notin Halves

(* validateClientPolicy, with the checks on the target and the timeout.    *)
ValidClient(u, p) ==
    u.present =>
        /\ u.policy /\ u.auth # "bad"
        /\ u.auth # "none" => u.tls \/ (u.allow /\ ~p)
        /\ u.tls => ~u.allow /\ u.cert \notin Halves

ValidDiscovery(p) ==
    /\ cfg.providerPolicy
    /\ On("registry") =>
        /\ cfg.registry # "bad"
        /\ p => cfg.registryTLS /\ cfg.providerTLS /\ ~cfg.registryAllow /\ ~cfg.providerAllow
        /\ (cfg.registryTLS \/ cfg.registryAllow) /\ (cfg.providerTLS \/ cfg.providerAllow)

Validate(p) ==
    /\ ValidServers(p) /\ ValidData /\ ValidEdge(p) /\ ValidAuth(p) /\ ValidWork
    /\ ValidStorage(p) /\ ValidDiscovery(p)
    /\ \A u \in {cfg.http, cfg.application, cfg.authz} : ValidClient(u, p)
-----------------------------------------------------------------------------
(* NewHTTPClient and httpTransport.                                        *)
BuildsHTTP(u) == u.present => (u.auth # "none" => u.tls) /\ u.cert # "cert only"

(* Dial and transportCredentials.                                          *)
BuildsGRPC(u) ==
    u.present => (u.auth # "none" => u.tls \/ u.allow) /\ (u.tls => u.cert \notin Halves)

(* NewProvider dials the registry: the one certificate whose two halves     *)
(* Validate does not compare.                                              *)
BuildsDiscovery ==
    On("registry") =>
        /\ cfg.registryTLS \/ cfg.registryAllow
        /\ cfg.registryTLS => cfg.registryCert \notin Halves

(* newApplicationVerifier, which the servers need.                         *)
BuildsVerifier == On("database") => cfg.application.present

(* Constructors that read their values only if a switch says so.  The      *)
(* store is built for the event runtime, the others read them always: the  *)
(* scheduler parses its specs even where cron is disabled.                 *)
ReadIf ==
    [migration |-> On("autoUp"), database |-> On("database"), bus |-> On("bus"),
     provider |-> On("registry"), events |-> On("storage"),
     outbound |-> \E u \in {cfg.http, cfg.application, cfg.authz} : u.present]
Parses(component) ==
    cfg.unparsed = component => component \in DOMAIN ReadIf /\ ~ReadIf[component]

(* What the constructor of a component asks of the settings.               *)
BuiltFrom(component) ==
    /\ Parses(component)
    /\ component = "outbound" =>
        BuildsHTTP(cfg.http) /\ BuildsGRPC(cfg.application) /\ BuildsGRPC(cfg.authz)
    /\ component = "provider" => BuildsDiscovery
    /\ component = "grpc" => BuildsVerifier
-----------------------------------------------------------------------------
Connection(client, encrypted, credential) ==
    [client |-> client, encrypted |-> encrypted, credential |-> credential]

(* HTTPClient.Do: the scheme of base_url decides, whatever tls.enabled is. *)
CallsHTTP ==
    IF ~cfg.http.present THEN {}
    ELSE {Connection("http", cfg.httpScheme = "https", cfg.http.auth # "none")}

(* Calls on the connections of the registry of clients.                    *)
CallsGRPC ==
    {Connection(c, cfg[c].tls, cfg[c].auth # "none") :
        c \in {u \in {"application", "authz"} : cfg[u].present}}

(* client in provider_grpc.go: Dial refuses the key without TLS, unless    *)
(* provider_client.allow_insecure is set.                                  *)
ProviderDials == cfg.providerTLS \/ cfg.providerAllow

(* The registry and the instances it lists are called with a PSK.          *)
Discovers ==
    IF ~On("registry") THEN {}
    ELSE {Connection("registry", cfg.registryTLS, TRUE)}
            \cup IF ProviderDials THEN {Connection("provider", cfg.providerTLS, TRUE)} ELSE {}

(* New in objectstorage: URLs are signed for presign_endpoint, or for the  *)
(* store's own address where there is none.                                *)
PresignTLS == IF cfg.presign = "none" THEN cfg.storage = "tls" ELSE cfg.presign = "tls"

(* The store is called with its keys, and clients upload to, and download  *)
(* from, a URL that carries a signature.                                   *)
Stores ==
    IF ~On("storage") THEN {}
    ELSE {Connection("storage", cfg.storage = "tls", TRUE), Connection("presign", PresignTLS, TRUE)}

(* cache.Open never uses TLS.  The bus and the database have in their      *)
(* addresses whether they do, and their credentials.                       *)
Backends ==
    (IF On("redis") THEN {Connection("redis", FALSE, cfg.redisAuth)} ELSE {})
        \cup (IF On("bus") THEN {Connection("bus", cfg.busTLS, TRUE)} ELSE {})
        \cup (IF On("database") THEN {Connection("database", cfg.databaseTLS, TRUE)} ELSE {})

(* serverCredentials: clients call with their tokens, over HTTP always in  *)
(* the clear.                                                              *)
Serves ==
    {Connection("http server", FALSE, TRUE)}
        \cup IF On("grpc") THEN {Connection("grpc", cfg.grpc = "tls", TRUE)} ELSE {}

(* The kinds of connection of a process that runs.                         *)
Connections == CallsHTTP \cup CallsGRPC \cup Discovers \cup Stores \cup Backends \cup Serves

(* Connections whose encryption no check looks at.                         *)
Unchecked == {"http", "http server", "redis", "bus", "database"}

(* Whether the operator said that a client may go without encryption.      *)
Consented(client) ==
    CASE client \in {"http", "application", "authz"} -> cfg[client].allow
      [] client = "registry" -> cfg.registryAllow
      [] client = "provider" -> cfg.providerAllow
      [] OTHER -> TRUE
=============================================================================
