----------------------- MODULE ServiceLifecycleProofs -----------------------
(***************************************************************************)
(* Proofs about the life of a process, for every configuration and every   *)
(* set of work.                                                            *)
(***************************************************************************)
EXTENDS ServiceLifecycle, TLAPS

(* The hooks by their place.                                               *)
LEMMA HookPlaces ==
    /\ Len(Hooks) = 12
    /\ Hooks[1] = "logging" /\ Hooks[2] = "migration" /\ Hooks[3] = "database"
    /\ Hooks[4] = "redis" /\ Hooks[5] = "bus" /\ Hooks[6] = "outbound"
    /\ Hooks[7] = "provider" /\ Hooks[8] = "events" /\ Hooks[9] = "scheduler"
    /\ Hooks[10] = "auth" /\ Hooks[11] = "grpc" /\ Hooks[12] = "http"
  BY DEF Hooks

(* No component has two hooks.                                             *)
LEMMA HooksDiffer ==
    \A i, j \in 1..12 : Hooks[i] = Hooks[j] => i = j
<1> SUFFICES ASSUME NEW i \in 1..12, NEW j \in 1..12, Hooks[i] = Hooks[j] PROVE i = j
  OBVIOUS
<1>1. QED
  BY HookPlaces

(* A component is what a hook stands for.                                  *)
LEMMA ComponentPlaces ==
    /\ Components = {Hooks[i] : i \in 1..12}
    /\ Components = {"logging", "migration", "database", "redis", "bus", "outbound", "provider",
                     "events", "scheduler", "auth", "grpc", "http"}
<1>1. DOMAIN Hooks = 1..12
  BY DEF Hooks
<1>2. Components = {Hooks[i] : i \in 1..12}
  BY <1>1 DEF Components, Range
<1>3. QED
  BY <1>2, HookPlaces

(* What a configuration enables.                                           *)
LEMMA EnabledIff ==
    /\ Enabled \subseteq Components
    /\ "database" \in Enabled <=> On("database")
    /\ "redis" \in Enabled <=> On("redis")
    /\ "bus" \in Enabled <=> On("bus")
  BY ComponentPlaces DEF Enabled

(* The settings a proof looks into have the values Values lists.           *)
LEMMA ConfigValues ==
    ASSUME IsConfig(cfg)
    PROVE  /\ cfg.fileEnv \in {"production", "development"}
           /\ cfg.explicit \in {"production", "development", None}
           /\ cfg.http \in Upstream /\ cfg.application \in Upstream /\ cfg.authz \in Upstream
           /\ cfg.registryTLS \in BOOLEAN /\ cfg.registryAllow \in BOOLEAN
           /\ cfg.providerTLS \in BOOLEAN /\ cfg.providerAllow \in BOOLEAN
           /\ cfg.grpc \in {"off", "plain", "tls", "bad"}
           /\ cfg.presign \in {"none", "plain", "tls", "no region"}
<1>1. ASSUME NEW s \in Settings PROVE cfg[s] \in Values[s]
  BY DEF IsConfig
<1>2. {"fileEnv", "explicit", "http", "application", "authz", "registryTLS", "registryAllow",
       "providerTLS", "providerAllow", "grpc", "presign"} \subseteq Settings
  BY DEF Settings, Values
<1>3. /\ Values.fileEnv = {"production", "development"}
      /\ Values.explicit = {"production", "development", None}
      /\ Values.http = Upstream /\ Values.application = Upstream /\ Values.authz = Upstream
      /\ Values.registryTLS = BOOLEAN /\ Values.registryAllow = BOOLEAN
      /\ Values.providerTLS = BOOLEAN /\ Values.providerAllow = BOOLEAN
      /\ Values.grpc = {"off", "plain", "tls", "bad"}
      /\ Values.presign = {"none", "plain", "tls", "no region"}
  BY DEF Values
<1>4. QED
  BY <1>1, <1>2, <1>3
-----------------------------------------------------------------------------
(* The checks of the configuration hold for the profile the process has.   *)
Accepted == profile # None /\ Validate(profile = "production")

(* What is built is open; from the first OnStart hook on, so is everything *)
(* enabled, and while hooks are stopped everything whose hook has not run. *)
(* The eighth hook, that of the event runtime, wants its outbox.          *)
OpenInv ==
    /\ phase \in {"load", "build"} =>
           started = 0 /\ open = {Hooks[i] : i \in 1..built} \cap Enabled
    /\ phase \in {"start", "run"} => built = 12 /\ open = Enabled
    /\ phase = "run" => started = 12
    /\ started >= 8 /\ "bus" \in Enabled => "database" \in Enabled
    /\ phase = "stop" => \A i \in 1..started : Hooks[i] \in Enabled => Hooks[i] \in open

(* Only servers whose hook is started have work.                           *)
ServeInv ==
    /\ phase \in {"load", "build", "exited"} => active = {} /\ accepting = {}
    /\ accepting \subseteq {Hooks[i] : i \in 1..started}
    /\ \A w \in active : \E i \in 1..started : ServerOf[w] = Hooks[i]

Explained ==
    outcome \in {"refused", "unstartable"} /\ cfg.unparsed = "none" =>
        ~BuildsHTTP(cfg.http) \/ HalfRegistryKey \/ (On("bus") /\ ~On("database"))

LifecycleInv ==
    /\ TypeOK
    /\ OpenInv
    /\ ServeInv
    /\ phase \in {"build", "start", "run", "stop"} => Accepted
    /\ Explained

(* The checks come to the same as long as the settings and the profile do. *)
LEMMA ValidStays ==
    ASSUME cfg' = cfg, NEW e, profile' = e, Validate(e = "production")
    PROVE  Validate(profile = "production")'
<1>1. ValidServers(profile = "production")' /\ ValidData'
  BY DEF Validate, ValidServers, ValidData, On
<1>2. ValidEdge(profile = "production")'
  BY DEF Validate, ValidEdge, On
<1>3. ValidAuth(profile = "production")'
  BY DEF Validate, ValidAuth
<1>4. ValidWork'
  BY DEF Validate, ValidWork, On
<1>5. ValidStorage(profile = "production")'
  BY DEF Validate, ValidStorage, On
<1>6. ValidDiscovery(profile = "production")'
  BY DEF Validate, ValidDiscovery, On
<1>7. \A u \in {cfg'.http, cfg'.application, cfg'.authz} :
          ValidClient(u, profile' = "production")
  BY DEF Validate, ValidClient
<1>8. QED
  BY <1>1, <1>2, <1>3, <1>4, <1>5, <1>6, <1>7, Zenon DEF Validate

(* The settings are read once.                                             *)
LEMMA ConfigStays ==
    ASSUME cfg' = cfg
    PROVE  /\ Enabled' = Enabled
           /\ IsConfig(cfg) => IsConfig(cfg)'
           /\ profile' = profile => (Accepted => Accepted')
           /\ outcome' = outcome \/ outcome' \notin {"refused", "unstartable"}
                => (Explained => Explained')
<1>1. Enabled' = Enabled
  BY DEF Enabled, On
<1>2. IsConfig(cfg) => IsConfig(cfg)'
  OBVIOUS
<1>3. profile' = profile => (Accepted => Accepted')
  <2> SUFFICES ASSUME profile' = profile, Accepted PROVE Accepted'
    OBVIOUS
  <2>1. PICK e : e = profile
    OBVIOUS
  <2>2. Validate(profile = "production")'
    BY <2>1, ValidStays DEF Accepted
  <2>3. QED
    BY <2>2 DEF Accepted
<1>4. outcome' = outcome \/ outcome' \notin {"refused", "unstartable"}
        => (Explained => Explained')
  BY DEF Explained, On, BuildsHTTP, HalfRegistryKey
<1>5. QED
  BY <1>1, <1>2, <1>3, <1>4

(* The configuration is loaded, or refused.                                *)
LEMMA LoadKeeps ==
    ASSUME LifecycleInv, Load
    PROVE  LifecycleInv'
<1>1. /\ phase = "load" /\ UNCHANGED <<cfg, built, started, open, accepting, active>>
      /\ \/ phase' = "exited" /\ outcome' = "invalid" /\ profile' = profile
         \/ /\ Validate(Profile = "production") /\ phase' = "build" /\ profile' = Profile
            /\ outcome' = outcome
  BY DEF Load
<1>2. IsConfig(cfg) /\ Profile \in {"production", "development"}
  BY ConfigValues DEF LifecycleInv, TypeOK, Profile
<1>3. Profile # None
  BY <1>2, ConfigurationAssumption
<1>4. Enabled' = Enabled /\ IsConfig(cfg)' /\ Explained'
  BY <1>1, <1>2, ConfigStays DEF LifecycleInv
<1>5. TypeOK'
  BY <1>1, <1>2, <1>3, <1>4 DEF LifecycleInv, TypeOK
<1>6. OpenInv' /\ ServeInv'
  BY <1>1, <1>4 DEF LifecycleInv, OpenInv, ServeInv
<1>7. phase' = "build" => Accepted'
  <2> SUFFICES ASSUME phase' = "build" PROVE Accepted'
    OBVIOUS
  <2>1. PICK e : e = Profile
    OBVIOUS
  <2>2. e # None /\ Validate(e = "production") /\ profile' = e /\ cfg' = cfg
    BY <1>1, <1>3, <2>1
  <2>3. QED
    BY <2>2, ValidStays DEF Accepted
<1>8. QED
  BY <1>1, <1>4, <1>5, <1>6, <1>7 DEF LifecycleInv

(* A configuration that was accepted has a constructor against it only     *)
(* where the HTTP upstream or the registry's certificate is concerned.     *)
LEMMA RefusedWhy ==
    ASSUME IsConfig(cfg), Accepted, NEW h \in Components, ~BuiltFrom(h), cfg.unparsed = "none"
    PROVE  ~BuildsHTTP(cfg.http) \/ HalfRegistryKey
<1>1. h # "none"
  BY ComponentPlaces
<1>2. ASSUME NEW u \in {cfg.application, cfg.authz} PROVE BuildsGRPC(u)
  BY DEF Accepted, Validate, ValidClient, BuildsGRPC
<1>3. BuildsDiscovery \/ HalfRegistryKey
  BY DEF Accepted, Validate, ValidDiscovery, BuildsDiscovery, HalfRegistryKey
<1>4. BuildsVerifier
  BY DEF Accepted, Validate, ValidData, BuildsVerifier
<1>5. Parses(h)
  BY <1>1 DEF Parses
<1>6. QED
  BY <1>2, <1>3, <1>4, <1>5 DEF BuiltFrom

(* A constructor returns, or refuses.                                      *)
LEMMA BuildKeeps ==
    ASSUME LifecycleInv, Build
    PROVE  LifecycleInv'
<1> DEFINE h == Hooks[built + 1]
<1>1. /\ phase = "build" /\ built < 12 /\ UNCHANGED <<cfg, profile, started, accepting, active>>
      /\ built \in 0..12 /\ started = 0 /\ active = {} /\ accepting = {} /\ Accepted
      /\ open = {Hooks[i] : i \in 1..built} \cap Enabled /\ IsConfig(cfg)
  BY HookPlaces DEF LifecycleInv, TypeOK, OpenInv, ServeInv, Build
<1>2. Enabled' = Enabled /\ IsConfig(cfg)' /\ Accepted' /\ Enabled \subseteq Components
  BY <1>1, ConfigStays, EnabledIff
<1>3. h \in Components /\ profile # None
  BY <1>1, ComponentPlaces DEF Accepted
<1>4. CASE /\ built' = built + 1 /\ open' = open \cup ({h} \cap Enabled)
           /\ phase' = (IF built' = Len(Hooks) THEN "start" ELSE phase)
           /\ outcome' = outcome
  <2>1. open' = {Hooks[i] : i \in 1..built'} \cap Enabled
    BY <1>1, <1>4
  <2>2. built' = 12 => open' = Enabled
    BY <1>2, <2>1, ComponentPlaces
  <2>3. phase' = (IF built' = 12 THEN "start" ELSE "build") /\ built' \in 0..12
    BY <1>1, <1>4, HookPlaces
  <2>4. TypeOK'
    <3>1. /\ built' \in 0..Len(Hooks) /\ started' \in 0..built'
          /\ phase' \in {"load", "build", "start", "run", "stop", "exited"}
      BY <1>1, <2>3, HookPlaces
    <3>2. open' \subseteq Enabled' /\ accepting' \subseteq open' \cap Servers
      BY <1>1, <1>2, <2>1
    <3>3. QED
      BY <1>1, <1>2, <1>3, <1>4, <3>1, <3>2 DEF LifecycleInv, TypeOK
  <2>5. OpenInv' /\ ServeInv'
    BY <1>1, <1>2, <2>1, <2>2, <2>3 DEF LifecycleInv, OpenInv, ServeInv
  <2>6. Explained'
    BY <1>1, <1>4, ConfigStays DEF LifecycleInv
  <2>7. QED
    BY <1>2, <2>4, <2>5, <2>6 DEF LifecycleInv
<1>5. CASE /\ phase' = "exited" /\ UNCHANGED <<built, open>>
           /\ outcome' = (IF BuiltFrom(h) THEN "failed" ELSE "refused")
  <2>1. TypeOK'
    BY <1>1, <1>2, <1>5 DEF LifecycleInv, TypeOK
  <2>2. OpenInv' /\ ServeInv'
    BY <1>1, <1>5 DEF LifecycleInv, OpenInv, ServeInv
  <2>3. Explained'
    <3>1. CASE BuiltFrom(h)
      BY <1>1, <1>5, <3>1, ConfigStays DEF LifecycleInv
    <3>2. CASE ~BuiltFrom(h)
      <4>1. cfg.unparsed = "none" => ~BuildsHTTP(cfg.http) \/ HalfRegistryKey
        BY <1>1, <1>3, <3>2, RefusedWhy
      <4>2. QED
        BY <1>1, <4>1 DEF Explained, BuildsHTTP, HalfRegistryKey, On
    <3>3. QED
      BY <3>1, <3>2
  <2>4. QED
    BY <1>5, <2>1, <2>2, <2>3 DEF LifecycleInv
<1>6. QED
  BY <1>4, <1>5 DEF Build

(* An OnStart hook has run, or failed.                                     *)
LEMMA StartKeeps ==
    ASSUME LifecycleInv, Start
    PROVE  LifecycleInv'
<1> DEFINE h == Hooks[started + 1]
<1>1. /\ phase = "start" /\ started < 12 /\ UNCHANGED <<cfg, profile, built, open, active>>
      /\ started \in 0..12 /\ built = 12 /\ open = Enabled /\ Accepted /\ IsConfig(cfg)
  BY HookPlaces DEF LifecycleInv, TypeOK, OpenInv, Start
<1>2. Enabled' = Enabled /\ IsConfig(cfg)' /\ Accepted'
  BY <1>1, ConfigStays
<1>3. profile # None
  BY <1>1 DEF Accepted
<1>4. CASE /\ started' = started + 1 /\ Starts(h)
           /\ \E S : S \subseteq {h} \cap Servers \cap Enabled /\ accepting' = accepting \cup S
           /\ phase' = (IF started' = Len(Hooks) THEN "run" ELSE phase)
           /\ outcome' = outcome
  <2>1. started' \in 0..12 /\ phase' \in {"start", "run"}
    BY <1>1, <1>4
  <2>2. accepting' \subseteq open' \cap Servers /\ accepting' \subseteq accepting \cup {h}
    BY <1>1, <1>4 DEF LifecycleInv, TypeOK
  <2>3. TypeOK'
    BY <1>1, <1>2, <1>3, <1>4, <2>1, <2>2 DEF LifecycleInv, TypeOK
  <2>4. OpenInv'
    <3>1. started' >= 8 /\ "bus" \in Enabled => "database" \in Enabled
      <4>1. CASE started = 7
        BY <1>4, <4>1, HookPlaces DEF Starts
      <4>2. CASE started # 7
        BY <1>1, <1>4, <4>2 DEF LifecycleInv, OpenInv
      <4>3. QED
        BY <4>1, <4>2
    <3>2. phase' = "run" => started' = 12
      BY <1>1, <1>4, HookPlaces
    <3>3. QED
      BY <1>1, <1>2, <2>1, <3>1, <3>2 DEF OpenInv
  <2>5. ServeInv'
    <3>1. \A i \in 1..started : i \in 1..started'
      BY <1>1, <1>4
    <3>2. h \in {Hooks[i] : i \in 1..started'}
      BY <1>1, <1>4
    <3>3. accepting' \subseteq {Hooks[i] : i \in 1..started'}
      BY <2>2, <3>1, <3>2 DEF LifecycleInv, ServeInv
    <3>4. \A w \in active' : \E i \in 1..started' : ServerOf[w] = Hooks[i]
      BY <1>1, <3>1 DEF LifecycleInv, ServeInv
    <3>5. QED
      BY <2>1, <3>3, <3>4 DEF ServeInv
  <2>6. Explained'
    BY <1>1, <1>4, ConfigStays DEF LifecycleInv
  <2>7. QED
    BY <1>2, <2>3, <2>4, <2>5, <2>6 DEF LifecycleInv
<1>5. CASE /\ phase' = "stop" /\ UNCHANGED <<started, accepting>>
           /\ outcome' = (IF Starts(h) THEN "rolled back" ELSE "unstartable")
  <2>1. TypeOK'
    BY <1>1, <1>2, <1>3, <1>5 DEF LifecycleInv, TypeOK
  <2>2. OpenInv' /\ ServeInv'
    BY <1>1, <1>2, <1>5 DEF LifecycleInv, OpenInv, ServeInv
  <2>3. Explained'
    <3>1. CASE Starts(h)
      BY <1>1, <1>5, <3>1, ConfigStays DEF LifecycleInv
    <3>2. CASE ~Starts(h)
      <4>1. On("bus") /\ ~On("database")
        BY <3>2, EnabledIff DEF Starts
      <4>2. QED
        BY <1>1, <4>1 DEF Explained, On
    <3>3. QED
      BY <3>1, <3>2
  <2>4. QED
    BY <1>2, <2>1, <2>2, <2>3 DEF LifecycleInv
<1>6. QED
  BY <1>4, <1>5, Zenon DEF Start

(* Work is taken on by a server that is started, and ends.                 *)
LEMMA WorkKeeps ==
    ASSUME LifecycleInv, NEW w \in Work, Accept(w) \/ Finish(w)
    PROVE  LifecycleInv'
<1>1. UNCHANGED <<cfg, profile, phase, built, started, open, accepting, outcome>>
  BY DEF Accept, Finish
<1>2. Enabled' = Enabled /\ (Accepted => Accepted') /\ Explained' /\ IsConfig(cfg)'
  BY <1>1, ConfigStays DEF LifecycleInv, TypeOK
<1>3. active' \subseteq Work
  BY DEF Accept, Finish, LifecycleInv, TypeOK
<1>4. TypeOK'
  BY <1>1, <1>2, <1>3 DEF LifecycleInv, TypeOK
<1>5. OpenInv'
  BY <1>1, <1>2 DEF LifecycleInv, OpenInv
<1>6. ServeInv'
  BY <1>1 DEF LifecycleInv, ServeInv, Accept, Finish
<1>7. QED
  BY <1>1, <1>2, <1>4, <1>5, <1>6 DEF LifecycleInv

(* The signal, a closed listener, the end of the last hook, the timeout.   *)
LEMMA EndKeeps ==
    ASSUME LifecycleInv, Signal \/ CloseListener \/ Exit \/ TimeOut
    PROVE  LifecycleInv'
<1>1. /\ UNCHANGED <<cfg, profile, built, started, open>>
      /\ accepting' \subseteq accepting /\ active' \subseteq active
      /\ phase \in {"run", "start", "stop"} /\ phase' \in {"stop", "exited"}
      /\ phase' = "exited" => active' = {} /\ accepting' = {}
  <2>1. CASE Exit
    <3>1. accepting = {} /\ active = {}
      BY <2>1 DEF Exit, LifecycleInv, ServeInv
    <3>2. QED
      BY <2>1, <3>1 DEF Exit
  <2>2. QED
    BY <2>1 DEF Signal, CloseListener, TimeOut
<1>2. outcome' \in {outcome, "stopped", "timed out"}
  BY DEF Signal, CloseListener, Exit, TimeOut
<1>3. Enabled' = Enabled /\ (Accepted => Accepted') /\ Explained' /\ IsConfig(cfg)'
  BY <1>1, <1>2, ConfigStays DEF LifecycleInv, TypeOK
<1>4. TypeOK'
  BY <1>1, <1>2, <1>3 DEF LifecycleInv, TypeOK
<1>5. OpenInv'
  BY <1>1, <1>3, HookPlaces DEF LifecycleInv, OpenInv, TypeOK
<1>6. ServeInv'
  BY <1>1 DEF LifecycleInv, ServeInv
<1>7. QED
  BY <1>1, <1>3, <1>4, <1>5, <1>6 DEF LifecycleInv

(* A hook has stopped: nothing that is in progress came through it, and    *)
(* what the others need is stopped later.                                  *)
LEMMA StopKeeps ==
    ASSUME LifecycleInv, Stop
    PROVE  LifecycleInv'
<1>0. built \in 0..12 /\ started \in 0..built
  BY HookPlaces DEF LifecycleInv, TypeOK
<1>1. /\ phase = "stop" /\ started > 0
      /\ Hooks[started] \notin accepting /\ Drained(Hooks[started])
      /\ started' = started - 1 /\ open' = open \ {Hooks[started]}
      /\ UNCHANGED <<cfg, profile, phase, built, accepting, active, outcome>>
  BY DEF Stop, Stopping
<1>2. Enabled' = Enabled /\ (Accepted => Accepted') /\ Explained' /\ IsConfig(cfg)'
  BY <1>1, ConfigStays DEF LifecycleInv, TypeOK
<1>3. \A i \in 1..started : i # started => i \in 1..started' /\ Hooks[i] # Hooks[started]
  BY <1>0, <1>1, HooksDiffer
<1>4. \A i \in 1..started' : i \in 1..started /\ i # started
  BY <1>0, <1>1
<1>5. TypeOK'
  <2>1. started' \in 0..built'
    BY <1>0, <1>1
  <2>2. open' \subseteq Enabled' /\ accepting' \subseteq open' \cap Servers
    BY <1>1, <1>2 DEF LifecycleInv, TypeOK
  <2>3. QED
    BY <1>1, <1>2, <2>1, <2>2 DEF LifecycleInv, TypeOK
<1>6. OpenInv'
  <2>1. started' >= 8 => started >= 8
    BY <1>0, <1>1
  <2>2. QED
    BY <1>1, <1>2, <1>3, <1>4, <2>1 DEF LifecycleInv, OpenInv
<1>7. ServeInv'
  <2>1. accepting' \subseteq {Hooks[i] : i \in 1..started'}
    BY <1>1, <1>3 DEF LifecycleInv, ServeInv
  <2>2. ASSUME NEW w \in active' PROVE \E i \in 1..started' : ServerOf[w] = Hooks[i]
    <3>1. PICK i \in 1..started : ServerOf[w] = Hooks[i]
      BY <1>1, <2>2 DEF LifecycleInv, ServeInv
    <3>2. i # started
      BY <1>1, <2>2, <3>1 DEF Drained
    <3>3. QED
      BY <1>3, <3>1, <3>2
  <2>3. QED
    BY <1>1, <2>1, <2>2 DEF ServeInv
<1>8. QED
  BY <1>1, <1>2, <1>5, <1>6, <1>7 DEF LifecycleInv

(* Nothing is built before the configuration is loaded.                    *)
LEMMA InitLifecycle == Init => LifecycleInv
<1> SUFFICES ASSUME Init PROVE LifecycleInv
  OBVIOUS
<1>1. IsConfig(cfg)
  BY ConfigurationAssumption DEF Init
<1>2. TypeOK
  BY <1>1, HookPlaces DEF Init, TypeOK
<1>3. OpenInv /\ ServeInv /\ Explained
  BY DEF Init, OpenInv, ServeInv, Explained
<1>4. QED
  BY <1>2, <1>3 DEF LifecycleInv, Init

(* Every step keeps the invariant.                                         *)
LEMMA NextLifecycle == LifecycleInv /\ [Next]_vars => LifecycleInv'
<1> SUFFICES ASSUME LifecycleInv, [Next]_vars PROVE LifecycleInv'
  OBVIOUS
<1>1. CASE UNCHANGED vars
  <2>1. UNCHANGED <<cfg, profile, phase, built, started, open, accepting, active, outcome>>
    BY <1>1 DEF vars
  <2>2. Enabled' = Enabled /\ (Accepted => Accepted') /\ Explained' /\ IsConfig(cfg)'
    BY <2>1, ConfigStays DEF LifecycleInv, TypeOK
  <2>3. TypeOK'
    BY <2>1, <2>2 DEF LifecycleInv, TypeOK
  <2>4. OpenInv'
    BY <2>1, <2>2 DEF LifecycleInv, OpenInv
  <2>5. ServeInv'
    BY <2>1 DEF LifecycleInv, ServeInv
  <2>6. QED
    BY <2>1, <2>2, <2>3, <2>4, <2>5 DEF LifecycleInv
<1>2. QED
  BY <1>1, LoadKeeps, BuildKeeps, StartKeeps, WorkKeeps, EndKeeps, StopKeeps DEF Next, StopStep
-----------------------------------------------------------------------------
(* Phase, hooks, open components, servers, work, profile and settings of a *)
(* process agree from its first step to its last.                          *)
THEOREM LifecycleIsConsistent == Spec => []LifecycleInv
  BY InitLifecycle, NextLifecycle, PTL DEF Spec

(* What a server's work needs has its hook before that of the server.      *)
LEMMA NeedsComeFirst ==
    ASSUME LifecycleInv, NEW w \in active
    PROVE  Needs(w) \cap Enabled \subseteq open
<1>0. built \in 0..12 /\ started \in 0..built
  BY HookPlaces DEF LifecycleInv, TypeOK
<1>1. w \in Work /\ phase \in {"start", "run", "stop"}
  BY DEF LifecycleInv, TypeOK, ServeInv
<1>2. PICK i \in 1..12 : i <= started /\ ServerOf[w] = Hooks[i]
  BY <1>0 DEF LifecycleInv, ServeInv
<1>3. \A j \in 1..i : Hooks[j] \in Enabled => Hooks[j] \in open
  BY <1>0, <1>1, <1>2 DEF LifecycleInv, OpenInv
<1>4. ServerOf[w] \in {"events", "scheduler", "grpc", "http"}
  BY <1>1, LifecycleAssumption DEF Servers
<1>5. CASE ServerOf[w] = "events"
  <2>1. i = 8
    <3>1. Hooks[i] = Hooks[8]
      BY <1>2, <1>5, HookPlaces
    <3>2. QED
      BY <3>1, HooksDiffer
  <2>2. Needs(w) = {"logging", "migration", "database", "bus", "outbound", "provider"}
    BY <1>5, Zenon DEF Needs
  <2>3. QED
    BY <1>3, <2>1, <2>2, HookPlaces
<1>6. CASE ServerOf[w] = "scheduler"
  <2>1. i = 9
    <3>1. Hooks[i] = Hooks[9]
      BY <1>2, <1>6, HookPlaces
    <3>2. QED
      BY <3>1, HooksDiffer
  <2>2. Needs(w) = {"logging", "migration", "database"}
    BY <1>6, Zenon DEF Needs
  <2>3. QED
    BY <1>3, <2>1, <2>2, HookPlaces
<1>7. CASE ServerOf[w] \in {"grpc", "http"}
  <2>1. i \in 11..12
    BY <1>2, <1>7, HookPlaces, HooksDiffer
  <2>2. ServerOf[w] # "events" /\ ServerOf[w] # "scheduler"
    BY <1>7
  <2>3. Needs(w)
          = {"logging", "migration", "database", "redis", "outbound", "provider", "auth"}
    BY <2>2, Zenon DEF Needs
  <2>4. QED
    BY <1>3, <2>1, <2>3, HookPlaces
<1>8. QED
  BY <1>4, <1>5, <1>6, <1>7

(* Work in progress finds open what it needs.                              *)
THEOREM WorkIsProvidedFor == Spec => []WorkHasResources
<1>1. LifecycleInv => WorkHasResources
  BY NeedsComeFirst DEF WorkHasResources
<1>2. QED
  BY <1>1, LifecycleIsConsistent, PTL

(* An accepted configuration is refused later only for the reasons named,  *)
(* the half certificate of the registry among them, and a process that     *)
(* runs has what its settings were checked against.                        *)
THEOREM AcceptedIsRun == Spec => []AcceptedRuns
<1>1. LifecycleInv => AcceptedRuns
  <2> SUFFICES ASSUME LifecycleInv PROVE FeaturesHaveBackends
    BY DEF LifecycleInv, Explained, AcceptedRuns
  <2> SUFFICES ASSUME phase = "run"
               PROVE  /\ On("rateLimit") \/ On("idempotency") => "redis" \in open
                      /\ On("bus") \/ On("autoUp") => "database" \in open
                      /\ "database" \in open => cfg.application.present
                      /\ cfg.authorization => cfg.authz.present
                      /\ profile = "production" => cfg.authorization /\ cfg.jwks
    BY DEF FeaturesHaveBackends
  <2>1. open = Enabled /\ Accepted /\ (On("bus") => On("database"))
    BY EnabledIff DEF LifecycleInv, OpenInv
  <2>2. ValidData /\ ValidEdge(profile = "production") /\ ValidAuth(profile = "production")
        /\ ValidWork
    BY <2>1 DEF Accepted, Validate
  <2>3. QED
    BY <2>1, <2>2, EnabledIff DEF ValidData, ValidEdge, ValidAuth, ValidWork
<1>2. QED
  BY <1>1, LifecycleIsConsistent, PTL

(* The consent of each client.                                             *)
LEMMA ConsentOf ==
    /\ Consented("application") = cfg["application"].allow
    /\ Consented("authz") = cfg["authz"].allow
    /\ Consented("registry") = cfg.registryAllow
    /\ Consented("provider") = cfg.providerAllow
    /\ Consented("storage") /\ Consented("presign") /\ Consented("grpc")
<1>1. "application" \in {"http", "application", "authz"} /\ "authz" \in {"http", "application", "authz"}
      /\ "registry" \notin {"http", "application", "authz"}
      /\ "provider" \notin {"http", "application", "authz"}
      /\ "storage" \notin {"http", "application", "authz"}
      /\ "presign" \notin {"http", "application", "authz"}
      /\ "grpc" \notin {"http", "application", "authz"}
  OBVIOUS
<1>2. /\ "provider" # "registry" /\ "presign" # "registry" /\ "grpc" # "registry"
      /\ "presign" # "provider" /\ "grpc" # "provider"
      /\ "storage" # "registry" /\ "storage" # "provider"
  OBVIOUS
<1>3. QED
  BY <1>1, <1>2, Zenon DEF Consented

(* A connection of an accepted configuration that carries a credential in  *)
(* the clear has the operator's word, and is not one of production.        *)
LEMMA ClearHasConsent ==
    ASSUME IsConfig(cfg), Accepted, NEW c \in Connections,
           c.credential, ~c.encrypted, c.client \notin Unchecked
    PROVE  profile # "production" /\ Consented(c.client)
<1>1. CASE c \in CallsHTTP
  <2>1. c = Connection("http", cfg.httpScheme = "https", cfg.http.auth # "none")
    BY <1>1 DEF CallsHTTP
  <2>2. c.client = "http"
    BY <2>1, Zenon DEF Connection
  <2>3. QED
    BY <2>2 DEF Unchecked
<1>2. CASE c \in CallsGRPC
  <2>1. PICK u \in {"application", "authz"} :
           cfg[u].present /\ c = Connection(u, cfg[u].tls, cfg[u].auth # "none")
    BY <1>2 DEF CallsGRPC
  <2>2. c.client = u /\ ~cfg[u].tls /\ cfg[u].auth # "none"
    BY <2>1, Zenon DEF Connection
  <2>3. cfg[u] \in {cfg.http, cfg.application, cfg.authz}
    BY <2>1
  <2>4. ValidClient(cfg[u], profile = "production")
    BY <2>3 DEF Accepted, Validate
  <2>5. cfg[u].allow /\ profile # "production"
    BY <2>1, <2>2, <2>4 DEF ValidClient
  <2>6. QED
    BY <2>1, <2>2, <2>5, ConsentOf
<1>3. CASE c \in Discovers
  <2>1. On("registry") /\ ValidDiscovery(profile = "production")
    BY <1>3 DEF Discovers, Accepted, Validate
  <2>2. CASE c = Connection("registry", cfg.registryTLS, TRUE)
    <3>1. c.client = "registry" /\ ~cfg.registryTLS
      BY <2>2, Zenon DEF Connection
    <3>2. QED
      BY <2>1, <3>1, ConsentOf DEF ValidDiscovery
  <2>3. CASE c = Connection("provider", cfg.providerTLS, TRUE)
    <3>1. c.client = "provider" /\ ~cfg.providerTLS
      BY <2>3, Zenon DEF Connection
    <3>2. QED
      BY <2>1, <3>1, ConsentOf DEF ValidDiscovery
  <2>4. QED
    BY <1>3, <2>2, <2>3 DEF Discovers
<1>4. CASE c \in Stores
  <2>1. /\ On("storage") /\ c.client \in {"storage", "presign"}
        /\ cfg.storage # "tls" \/ ~PresignTLS
    <3>1. CASE c = Connection("storage", cfg.storage = "tls", TRUE)
      <4>1. c.client = "storage" /\ cfg.storage # "tls"
        BY <3>1, Zenon DEF Connection
      <4>2. QED
        BY <1>4, <4>1 DEF Stores
    <3>2. CASE c = Connection("presign", PresignTLS, TRUE)
      <4>1. c.client = "presign" /\ ~PresignTLS
        BY <3>2, Zenon DEF Connection
      <4>2. QED
        BY <1>4, <4>1 DEF Stores
    <3>3. QED
      BY <1>4, <3>1, <3>2 DEF Stores
  <2>2. ValidStorage(profile = "production") /\ cfg.presign \in {"none", "plain", "tls", "no region"}
    BY ConfigValues DEF Accepted, Validate
  <2>3. profile # "production"
    BY <2>1, <2>2 DEF ValidStorage, PresignTLS
  <2>4. QED
    BY <2>1, <2>3, ConsentOf
<1>5. CASE c \in Serves
  <2>0. c # Connection("http server", FALSE, TRUE)
    <3>1. Connection("http server", FALSE, TRUE).client = "http server"
      BY Zenon DEF Connection
    <3>2. QED
      BY <3>1 DEF Unchecked
  <2>1. On("grpc") /\ c = Connection("grpc", cfg.grpc = "tls", TRUE)
    BY <1>5, <2>0 DEF Serves
  <2>2. c.client = "grpc" /\ cfg.grpc # "tls"
    BY <2>1, Zenon DEF Connection
  <2>3. ValidServers(profile = "production") /\ cfg.grpc \in {"off", "plain", "tls", "bad"}
    BY ConfigValues DEF Accepted, Validate
  <2>4. profile # "production"
    BY <2>1, <2>2, <2>3 DEF ValidServers, On
  <2>5. QED
    BY <2>2, <2>4, ConsentOf
<1>6. CASE c \in Backends
  <2>1. \/ c = Connection("redis", FALSE, cfg.redisAuth)
        \/ c = Connection("bus", cfg.busTLS, TRUE)
        \/ c = Connection("database", cfg.databaseTLS, TRUE)
    BY <1>6 DEF Backends
  <2>2. c.client \in {"redis", "bus", "database"}
    <3>1. CASE c = Connection("redis", FALSE, cfg.redisAuth)
      <4>1. c.client = "redis"
        BY <3>1, Zenon DEF Connection
      <4>2. QED
        BY <4>1
    <3>2. CASE c = Connection("bus", cfg.busTLS, TRUE)
      <4>1. c.client = "bus"
        BY <3>2, Zenon DEF Connection
      <4>2. QED
        BY <4>1
    <3>3. CASE c = Connection("database", cfg.databaseTLS, TRUE)
      <4>1. c.client = "database"
        BY <3>3, Zenon DEF Connection
      <4>2. QED
        BY <4>1
    <3>4. QED
      BY <2>1, <3>1, <3>2, <3>3
  <2>3. QED
    BY <2>2 DEF Unchecked
<1>7. QED
  BY <1>1, <1>2, <1>3, <1>4, <1>5, <1>6 DEF Connections

(* On the connections whose encryption is checked, no credential goes out  *)
(* in the clear in production, whichever setting named the profile, and    *)
(* elsewhere only where its client's consent is.                           *)
THEOREM ClearIsConsented == Spec => []ClearNeedsConsent
<1>1. LifecycleInv => ClearNeedsConsent
  BY ClearHasConsent DEF LifecycleInv, TypeOK, ClearNeedsConsent
<1>2. QED
  BY <1>1, LifecycleIsConsistent, PTL
=============================================================================
