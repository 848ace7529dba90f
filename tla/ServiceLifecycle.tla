-------------------------- MODULE ServiceLifecycle --------------------------
(***************************************************************************)
(* The life of one process: the configuration is loaded, app.New builds    *)
(* the components it asks for in dependency order, OnStart hooks run in    *)
(* that order and OnStop hooks in reverse, under a timeout, while          *)
(* requests, jobs and cron runs are in progress.                           *)
(***************************************************************************)
EXTENDS Configuration, Sequences, SequencesExt

CONSTANTS
    Work,      \* pieces of work: requests, event handlers, cron runs
    ServerOf   \* the component that accepts a piece of work

VARIABLES
    phase,
    built,      \* components built so far, in the order of Hooks
    started,    \* hooks whose OnStart has run
    open,       \* components whose connections or goroutines are there
    accepting,  \* servers that take on work
    active,     \* work in progress
    outcome     \* how the process ended

vars == <<cfg, profile, phase, built, started, open, accepting, active, outcome>>

Servers == {"events", "scheduler", "grpc", "http"}

(* Faulty variant: the event runtime is built before the provider client.  *)
HooksEventsFirst ==
    <<"logging", "migration", "database", "redis", "bus", "outbound", "events", "provider",
      "scheduler", "auth", "grpc", "http">>

(* The order in which fx calls the constructors: the invocations of the    *)
(* modules in app.New, each after what its constructor needs.              *)
Hooks ==
    <<"logging", "migration", "database", "redis", "bus", "outbound", "provider", "events",
      "scheduler", "auth", "grpc", "http">>
Components == Range(Hooks)

ASSUME LifecycleAssumption == ServerOf \in [Work -> Servers]

(* The components the configuration enables.                               *)
Enabled ==
    Components \ ({c \in {"database", "redis", "bus", "grpc"} : ~On(c)}
        \cup (IF On("autoUp") THEN {} ELSE {"migration"})
        \cup (IF On("cron") THEN {} ELSE {"scheduler"}))

(* What a piece of work uses: the schema and the connections.              *)
Needs(w) ==
    CASE ServerOf[w] = "events" ->
            {"logging", "migration", "database", "bus", "outbound", "provider"}
      [] ServerOf[w] = "scheduler" -> {"logging", "migration", "database"}
      [] OTHER -> {"logging", "migration", "database", "redis", "outbound", "provider", "auth"}

TypeOK ==
    /\ IsConfig(cfg)
    /\ profile \in {"production", "development", None}
    /\ phase \in {"load", "build", "start", "run", "stop", "exited"}
    /\ profile = None => phase \in {"load", "exited"}
    /\ built \in 0..Len(Hooks) /\ started \in 0..built
    /\ open \subseteq Enabled /\ accepting \subseteq open \cap Servers
    /\ active \subseteq Work
    /\ outcome \in {"none", "invalid", "refused", "failed", "unstartable", "rolled back",
                      "stopped", "timed out"}

Init ==
    /\ cfg \in Given /\ profile = None
    /\ phase = "load" /\ built = 0 /\ started = 0
    /\ open = {} /\ accepting = {} /\ active = {}
    /\ outcome = "none"
-----------------------------------------------------------------------------
Profile == IF cfg.explicit = None THEN cfg.fileEnv ELSE cfg.explicit

(* Faulty variant: the checks look at app.env as the files have it.        *)
LoadFileEnv ==
    /\ phase = "load"
    /\ \/ phase' = "exited" /\ outcome' = "invalid" /\ UNCHANGED profile
       \/ /\ Validate(cfg.fileEnv = "production")
          /\ phase' = "build" /\ profile' = Profile
          /\ UNCHANGED outcome
    /\ UNCHANGED <<cfg, built, started, open, accepting, active>>

(* LoadWithProfile: the profile of the command line replaces app.env for   *)
(* the checks and at run time.  A file may be unreadable.                  *)
Load ==
    /\ phase = "load"
    /\ \/ phase' = "exited" /\ outcome' = "invalid" /\ UNCHANGED profile
       \/ /\ Validate(Profile = "production")
          /\ phase' = "build" /\ profile' = Profile
          /\ UNCHANGED outcome
    /\ UNCHANGED <<cfg, built, started, open, accepting, active>>

(* One constructor: the migration runs, a connection is made, or app.New   *)
(* ends with an error, and the process with it: because of the settings,   *)
(* or of a file, a service or a database the component depends on.         *)
Build ==
    LET h == Hooks[built + 1] IN
    /\ phase = "build" /\ built < Len(Hooks)
    /\ \/ /\ BuiltFrom(h)
          /\ built' = built + 1
          /\ open' = open \cup ({h} \cap Enabled)
          /\ phase' = IF built' = Len(Hooks) THEN "start" ELSE phase
          /\ UNCHANGED outcome
       \/ /\ ~BuiltFrom(h) \/ h \in Enabled
          /\ phase' = "exited"
          /\ outcome' = IF BuiltFrom(h) THEN "failed" ELSE "refused"
          /\ UNCHANGED <<built, open>>
    /\ UNCHANGED <<cfg, profile, started, accepting, active>>

(* The event runtime wants its outbox; a server wants its address.         *)
Starts(h) == h = "events" /\ "bus" \in Enabled => "database" \in Enabled
MayFail(h) == h \in {"grpc", "http"} \cap Enabled

(* One OnStart hook.  The event runtime consumes only if the bus is there. *)
Start ==
    LET h == Hooks[started + 1]
        serves == h \in Servers \cap Enabled /\ (h = "events" => "bus" \in Enabled) IN
    /\ phase = "start" /\ started < Len(Hooks)
    /\ \/ /\ Starts(h)
          /\ started' = started + 1
          /\ accepting' = accepting \cup (IF serves THEN {h} ELSE {})
          /\ phase' = IF started' = Len(Hooks) THEN "run" ELSE phase
          /\ UNCHANGED outcome
       \/ /\ ~Starts(h) \/ MayFail(h)
          /\ phase' = "stop"
          /\ outcome' = IF Starts(h) THEN "rolled back" ELSE "unstartable"
          /\ UNCHANGED <<started, accepting>>
    /\ UNCHANGED <<cfg, profile, built, open, active>>

(* A request arrives, a message is delivered, the cron spec fires.         *)
Accept(w) ==
    /\ w \notin active /\ ServerOf[w] \in accepting
    /\ active' = active \cup {w}
    /\ UNCHANGED <<cfg, profile, phase, built, started, open, accepting, outcome>>

(* Work ends.  An HTTP request, a job and a cron run have a timeout; a     *)
(* call of the gRPC server has only what deadline its client gave it.      *)
Finish(w) ==
    /\ w \in active
    /\ active' = active \ {w}
    /\ UNCHANGED <<cfg, profile, phase, built, started, open, accepting, outcome>>

Signal ==
    /\ phase = "run"
    /\ phase' = "stop" /\ outcome' = "stopped"
    /\ UNCHANGED <<cfg, profile, built, started, open, accepting, active>>
-----------------------------------------------------------------------------
Stopping == Hooks[started]

(* A stopping server waits for the work it took on.                        *)
Drained(h) == \A w \in active : ServerOf[w] # h

(* Faulty variant: a server goes on taking on work until it is idle.       *)
CloseListenerIdle ==
    /\ phase = "stop" /\ started > 0
    /\ Stopping \in accepting /\ Drained(Stopping)
    /\ accepting' = accepting \ {Stopping}
    /\ UNCHANGED <<cfg, profile, phase, built, started, open, active, outcome>>

(* Shutdown, GracefulStop, cancel and runner.Stop take on no more work.     *)
CloseListener ==
    /\ phase = "stop" /\ started > 0
    /\ Stopping \in accepting
    /\ accepting' = accepting \ {Stopping}
    /\ UNCHANGED <<cfg, profile, phase, built, started, open, active, outcome>>

(* An OnStop hook has done its work.                                       *)
Stop ==
    /\ phase = "stop" /\ started > 0
    /\ Stopping \notin accepting /\ Drained(Stopping)
    /\ started' = started - 1
    /\ open' = open \ {Stopping}
    /\ UNCHANGED <<cfg, profile, phase, built, accepting, active, outcome>>

Exit ==
    /\ phase = "stop" /\ started = 0
    /\ phase' = "exited"
    /\ UNCHANGED <<cfg, profile, built, started, open, accepting, active, outcome>>

(* shutdown_timeout is over, at start or at stop: fx runs no further hook, *)
(* the gRPC server is stopped the hard way, and whatever is in progress    *)
(* ends with the process.                                                  *)
TimeOut ==
    /\ phase \in {"start", "stop"}
    /\ phase' = "exited" /\ outcome' = "timed out"
    /\ active' = {} /\ accepting' = {}
    /\ UNCHANGED <<cfg, profile, built, started, open>>

StopStep == CloseListener \/ Stop \/ Exit

Next ==
    \/ Load \/ Build \/ Start \/ Signal \/ StopStep \/ TimeOut
    \/ \E w \in Work : Accept(w) \/ Finish(w)

Spec == Init /\ [][Next]_vars

(* Work that nothing but its client bounds.                                *)
Unbounded == {w \in Work : ServerOf[w] = "grpc"}

(* Stopping goes on, and work with a timeout ends.  That of the stop is    *)
(* not relied upon.                                                        *)
FairSpec ==
    Spec /\ WF_vars(StopStep) /\ \A w \in Work \ Unbounded : WF_vars(Finish(w))
-----------------------------------------------------------------------------
(* From the first request to the last one, while starting, running, rolled *)
(* back after a failed start or stopped, work that is in progress finds    *)
(* every connection it uses open and the schema migrated.                  *)
WorkHasResources == \A w \in active : Needs(w) \cap Enabled \subseteq open

(* Stopping and rolling back come to an end by themselves: each server     *)
(* stops taking on work before it waits, so that what it waits for ends,   *)
(* unless a gRPC call goes on for ever, which only the timeout ends.       *)
StopEnds ==
    (phase = "stop" ~> phase = "exited") \/ <>[](active \cap Unbounded # {})

(* Of the connections whose encryption Validate decides on, none carries a *)
(* credential in the clear in production, whichever setting named the      *)
(* profile, and elsewhere only where allow_insecure of that very client    *)
(* says so; the store and the gRPC server need no consent there.  The      *)
(* others are named in Unchecked: an HTTP upstream, where                  *)
(* the scheme of base_url decides and no check compares it with            *)
(* tls.enabled, the HTTP server, Redis, the bus and the database.          *)
ClearNeedsConsent ==
    phase = "run" =>
        \A c \in Connections : c.credential /\ ~c.encrypted /\ c.client \notin Unchecked
            => profile # "production" /\ Consented(c.client)

(* What Validate and the hooks tie together is there in a process that     *)
(* runs.  Nothing ties cron or the import routes to a database, or the bus *)
(* to a store: those are accepted, and run, without.                       *)
FeaturesHaveBackends ==
    phase = "run" =>
        /\ On("rateLimit") \/ On("idempotency") => "redis" \in open
        /\ On("bus") \/ On("autoUp") => "database" \in open
        /\ "database" \in open => cfg.application.present
        /\ cfg.authorization => cfg.authz.present
        /\ profile = "production" => cfg.authorization /\ cfg.jwks

HalfRegistryKey == On("registry") /\ cfg.registryTLS /\ cfg.registryCert \in Halves

(* A configuration that was accepted, and whose values parse, is refused   *)
(* by no constructor but that of an HTTP upstream, which wants TLS for     *)
(* credentials and a key for a certificate even without TLS, and that of   *)
(* the registry's connection, which wants both halves of its certificate,  *)
(* and by no hook but that of a bus without a database; and when it runs,  *)
(* the features that were checked against each other have what they need.  *)
AcceptedRuns ==
    /\ outcome \in {"refused", "unstartable"} /\ cfg.unparsed = "none" =>
        ~BuildsHTTP(cfg.http) \/ HalfRegistryKey \/ (On("bus") /\ ~On("database"))
    /\ FeaturesHaveBackends

(* An HTTP upstream may have credentials without TLS if allow_insecure is  *)
(* set: the constructors refuse no such configuration for its credentials. *)
(* Validate says so, NewHTTPClient does not keep it.                       *)
ConsentSuffices ==
    outcome = "refused" /\ cfg.unparsed = "none" /\ cfg.http.cert # "cert only"
            /\ ~HalfRegistryKey
        => cfg.http.auth = "none"
=============================================================================
