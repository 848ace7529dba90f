-------------------------- MODULE RequestPipeline --------------------------
(***************************************************************************)
(* What a request passes before it may change a job: the middleware of     *)
(* internal/transport/http, the interceptors of internal/transport/grpc,   *)
(* the tenant check of the job service, and the idempotency records that   *)
(* all replicas share in Redis.  One step per middleware that calls out.   *)
(***************************************************************************)
EXTENDS Integers, Sequences, FiniteSets

CONSTANTS
    Requests,    \* requests in flight, on any replica
    Inputs,      \* what a request may carry: see Input
    Users,       \* subjects of bearer tokens
    Tenants,     \* tenants
    Machines,    \* those whose token has the type of a service account or of the system
    TenantOf,    \* the tenant a token names, or NoOne
    Keys,        \* Idempotency-Key values
    Bodies,      \* request bodies: job and expected version
    Routes,      \* routes or methods
    Protected,   \* routes with an authorization requirement: all but version
    Mutating,    \* those of them that change a job
    Idempotent,  \* idempotency.http_paths, idempotency.grpc_methods
    SkipRoutes,  \* auth.skip_http_paths, auth.skip_grpc_methods
    PskRoutes,   \* auth.psk.http_paths, auth.psk.grpc_methods
    Enforced,    \* authorization.enabled
    FailOpen,    \* rate_limit.fail_open
    MaxExpiries, \* bound on records that expire
    MaxLosses,   \* bound on crashes, panics and results that are not stored
    NoKey, NoOne

(* cred is what the Authorization header holds, wellFormed whether the     *)
(* key, the content type and the origin pass the checks at the edge.       *)
Input == [transport: {"http", "grpc", "stream"}, route: Routes,
          cred: Users \cup {"psk", "forged", NoOne}, tenant: Tenants,
          key: Keys \cup {NoKey}, body: Bodies, wellFormed: BOOLEAN]

ASSUME PipelineAssumption ==
    /\ Inputs \subseteq Input
    /\ Machines \subseteq Users
    /\ TenantOf \in [Users -> Tenants \cup {NoOne}] /\ NoOne \notin Tenants
    /\ Mutating \subseteq Protected /\ Protected \subseteq Routes
    /\ Idempotent \subseteq Routes /\ {Enforced, FailOpen} \subseteq BOOLEAN
    /\ MaxExpiries \in Nat /\ MaxLosses \in Nat
    /\ NoKey \notin Keys /\ NoOne \notin Users \cup {"psk"}

Status == {"none", "ok", "invalid", "unauthorized", "forbidden", "limited",
           "unavailable", "in_progress", "key_conflict", "stale", "internal"}

VARIABLES
    req,      \* per request: its input, subject, next stage, reply
    store,    \* idempotency records in Redis
    granted,  \* users the authorization service grants the permission
    changed,  \* operations that were committed: [tenant, body, subject]
    expiries, losses

vars == <<req, store, granted, changed, expiries, losses>>

Stages == {"edge", "limit", "auth", "authz", "user", "begin", "handle", "persist",
           "over", "lost"}
Subjects == Users \cup {"psk", NoOne}
Fingerprints == Subjects \X {"http", "grpc"} \X Routes \X Tenants \X Bodies
Record == [state: {"processing", "completed", "failed"}, fp: Fingerprints,
           owner: Requests, reply: Status]
NoRecord == [state |-> "absent"]

TypeOK ==
    /\ \A r \in Requests :
        /\ req[r].stage \in Stages \cup {"idle"}
        /\ req[r].subject \in Subjects /\ req[r].reply \in Status
        /\ req[r].acquired \in BOOLEAN /\ req[r].replayed \in BOOLEAN
        /\ req[r].stage # "idle" => req[r].in \in Inputs
    /\ store \in [Keys -> Record \cup {NoRecord}]
    /\ granted \subseteq Users
    /\ changed \subseteq [tenant: Tenants, body: Bodies, subject: Subjects]
    /\ expiries \in 0..MaxExpiries /\ losses \in 0..MaxLosses

Idle == [stage |-> "idle", subject |-> NoOne, reply |-> "none",
         acquired |-> FALSE, replayed |-> FALSE]

Init ==
    /\ req = [r \in Requests |-> Idle]
    /\ store = [k \in Keys |-> NoRecord]
    /\ granted = Users
    /\ changed = {}
    /\ expiries = 0 /\ losses = 0
-----------------------------------------------------------------------------
(* The order in which NewServer installs middleware and interceptors.      *)
Chain(t) ==
    CASE t = "http" -> <<"edge", "limit", "auth", "authz", "user", "begin", "handle">>
      [] t = "grpc" -> <<"edge", "auth", "authz", "begin", "handle">>
      [] t = "stream" -> <<"edge", "auth", "handle">>

In(r) == req[r].in
After(r) ==
    LET c == Chain(In(r).transport)
        i == CHOOSE k \in 1..Len(c) : c[k] = req[r].stage
    IN  c[i + 1]

Set(r, q) == req' = [req EXCEPT ![r] = q]
Pass(r) == Set(r, [req[r] EXCEPT !.stage = After(r)])
Answer(r, status) == Set(r, [req[r] EXCEPT !.stage = "over", !.reply = status])
Shared == <<store, granted, changed, expiries, losses>>

Arrive(r, in) ==
    /\ req[r].stage = "idle"
    /\ Set(r, [stage |-> "edge", subject |-> NoOne, reply |-> "none",
               acquired |-> FALSE, replayed |-> FALSE, in |-> in])
    /\ UNCHANGED Shared

(* IdempotencyKey, CORS, MaxBody and RequireJSON, or idempotencyInterceptor *)
Edge(r) ==
    /\ req[r].stage = "edge"
    /\ IF In(r).wellFormed THEN Pass(r) ELSE Answer(r, "invalid")
    /\ UNCHANGED Shared

(* RateLimit by address and route, and by subject once that is known.  The *)
(* counters are external; when they cannot be read, fail_open decides.     *)
Limit(r) ==
    /\ req[r].stage \in {"limit", "user"}
    /\ \/ Pass(r)
       \/ /\ req[r].stage = "user" => req[r].subject # NoOne
          /\ Answer(r, "limited") \/ (~FailOpen /\ Answer(r, "unavailable"))
    /\ UNCHANGED Shared

(* Authentication: the pre-shared key where it is configured, else nobody  *)
(* where authentication is skipped, else the subject of the token.         *)
SubjectOf(in) ==
    CASE in.route \in PskRoutes -> IF in.cred = "psk" THEN "psk" ELSE "refused"
      [] in.route \in SkipRoutes \ PskRoutes -> NoOne
      [] OTHER -> IF in.cred \in Users THEN in.cred ELSE "refused"

Authenticate(r) ==
    LET subject == SubjectOf(In(r)) IN
    /\ req[r].stage = "auth"
    /\ IF subject = "refused"
       THEN Answer(r, "unauthorized")
       ELSE Set(r, [req[r] EXCEPT !.stage = After(r), !.subject = subject])
    /\ UNCHANGED Shared

(* External: what the authorization service answers for a subject.         *)
Decides(subject) == subject = "psk" \/ subject \in granted

Authorize(r) ==
    LET required == Enforced /\ In(r).route \in Protected IN
    /\ req[r].stage = "authz"
    /\ \/ (~required \/ Decides(req[r].subject)) /\ Pass(r)
       \/ required /\ ~Decides(req[r].subject) /\ Answer(r, "forbidden")
       \/ required /\ Answer(r, "unavailable")
    /\ UNCHANGED Shared

Revoke(u) ==
    /\ u \in granted
    /\ granted' = granted \ {u}
    /\ UNCHANGED <<req, store, changed, expiries, losses>>
-----------------------------------------------------------------------------
(* Faulty variant: the same body from another subject is the same request. *)
FingerprintNoSubject(r) == <<NoOne, In(r).transport, In(r).route, In(r).tenant, In(r).body>>

(* idempotencyFingerprint.                                                 *)
Fingerprint(r) ==
    <<req[r].subject, In(r).transport, In(r).route, In(r).tenant, In(r).body>>

Bypasses(r) == In(r).key = NoKey \/ In(r).route \notin Idempotent

Replay(r, rec) ==
    Set(r, [req[r] EXCEPT !.stage = "over", !.reply = rec.reply, !.replayed = TRUE])

(* Faulty variant: only a result that is stored stops a second execution.  *)
HoldsResultOnly(r) == store[In(r).key] # NoRecord /\ store[In(r).key].state # "processing"

(* There is a record: in progress, of another request, or with a result.   *)
Holds(r) == store[In(r).key] # NoRecord

(* IdempotencyExecution up to c.Next; what Begin decides is external.      *)
Begin(r) ==
    LET k == In(r).key IN
    /\ req[r].stage = "begin"
    /\ \/ Bypasses(r) /\ Pass(r) /\ UNCHANGED store
       \/ /\ ~Bypasses(r) /\ UNCHANGED store
          /\ Answer(r, "invalid") \/ Answer(r, "unavailable")
       \/ /\ ~Bypasses(r) /\ ~Holds(r)
          /\ store' = [store EXCEPT ![k] = [state |-> "processing", fp |-> Fingerprint(r),
                                            owner |-> r, reply |-> "none"]]
          /\ Set(r, [req[r] EXCEPT !.stage = After(r), !.acquired = TRUE])
       \/ /\ ~Bypasses(r) /\ Holds(r)
          /\ UNCHANGED store
          /\ IF store[k].fp # Fingerprint(r) THEN Answer(r, "key_conflict")
             ELSE IF store[k].state = "processing" THEN Answer(r, "in_progress")
             ELSE Replay(r, store[k])
    /\ UNCHANGED <<granted, changed, expiries, losses>>

(* Faulty variant: any authenticated actor may name any tenant.            *)
MayActNoTenant(r) == req[r].subject # NoOne

(* authorize in the service: an actor must be known; a service account or  *)
(* the system, which the pre-shared key passes for and whose type a token  *)
(* may state, acts for any tenant, and any other for its own.              *)
MayAct(r) ==
    \/ req[r].subject \in {"psk"} \cup Machines
    \/ req[r].subject \in Users /\ TenantOf[req[r].subject] = In(r).tenant

Operation(r) == [tenant |-> In(r).tenant, body |-> In(r).body, subject |-> req[r].subject]
IsDone(r) == \E o \in changed : o.tenant = In(r).tenant /\ o.body = In(r).body
Changes(r) == In(r).route \in Mutating /\ MayAct(r) /\ ~IsDone(r)

(* What is left to do for a request that acquired a record.                *)
Reply(r, status, stage) ==
    Set(r, [req[r] EXCEPT !.reply = status,
                          !.stage = IF req[r].acquired THEN stage ELSE "over"])

(* The handler: bind, call the service, answer.  The version in the body   *)
(* makes a second execution stale.                                         *)
Handle(r) ==
    LET open == In(r).route \notin Protected
        changing == In(r).route \in Mutating
    IN
    /\ req[r].stage = "handle"
    /\ \/ ~open /\ ~MayAct(r) /\ UNCHANGED changed
          /\ Reply(r, IF req[r].subject = NoOne THEN "unauthorized" ELSE "forbidden", "persist")
       \/ (open \/ (MayAct(r) /\ ~changing))
          /\ Reply(r, "ok", "persist") /\ UNCHANGED changed
       \/ changing /\ MayAct(r) /\ IsDone(r)
          /\ Reply(r, "stale", "persist") /\ UNCHANGED changed
       \/ Changes(r)
          /\ Reply(r, "ok", "persist") /\ changed' = changed \cup {Operation(r)}
       \/ ~open /\ UNCHANGED changed
          /\ \/ Reply(r, "invalid", "persist")
             \/ MayAct(r) /\ \E refusal \in {"forbidden", "unavailable"} :
                                Reply(r, refusal, "persist")
    /\ UNCHANGED <<store, granted, expiries, losses>>

(* The handler fails before or after the commit: an error is answered and  *)
(* stored, a panic is answered by Recovery and not stored.                 *)
HandlerFails(r) ==
    /\ req[r].stage = "handle"
    /\ losses < MaxLosses
    /\ losses' = losses + 1
    /\ \E stage \in {"persist", "over"} : Reply(r, "internal", stage)
    /\ \/ UNCHANGED changed
       \/ Changes(r) /\ changed' = changed \cup {Operation(r)}
    /\ UNCHANGED <<store, granted, expiries>>

(* Faulty variant: the result goes to whoever holds the key now.           *)
OwnedByAnyone(r) == store[In(r).key] # NoRecord

Owned(r) == store[In(r).key] # NoRecord /\ store[In(r).key].owner = r

(* IdempotencyExecution after c.Next: Complete or Fail, with the owner     *)
(* that Begin returned; an error is logged only.                           *)
Persist(r) ==
    LET k == In(r).key IN
    /\ req[r].stage = "persist"
    /\ Set(r, [req[r] EXCEPT !.stage = "over"])
    /\ \/ /\ Owned(r)
          /\ store' = [store EXCEPT ![k].reply = req[r].reply,
                           ![k].state = IF req[r].reply = "ok" THEN "completed" ELSE "failed"]
          /\ UNCHANGED losses
       \/ ~Owned(r) /\ UNCHANGED <<store, losses>>
       \/ losses < MaxLosses /\ losses' = losses + 1 /\ UNCHANGED store
    /\ UNCHANGED <<granted, changed, expiries>>

(* The process dies: the client gets no answer, the record stays.          *)
Crash(r) ==
    /\ req[r].stage \notin {"idle", "over", "lost"}
    /\ losses < MaxLosses
    /\ losses' = losses + 1
    /\ Set(r, [req[r] EXCEPT !.stage = "lost"])
    /\ UNCHANGED <<store, granted, changed, expiries>>

(* External: Redis drops a record when its time to live is over: the       *)
(* processing_ttl does not ask whether its owner is still at work.         *)
Expire(k) ==
    /\ store[k] # NoRecord
    /\ expiries < MaxExpiries
    /\ expiries' = expiries + 1
    /\ store' = [store EXCEPT ![k] = NoRecord]
    /\ UNCHANGED <<req, granted, changed, losses>>
-----------------------------------------------------------------------------
Step(r) ==
    \/ Edge(r) \/ Limit(r) \/ Authenticate(r) \/ Authorize(r)
    \/ Begin(r) \/ Handle(r) \/ HandlerFails(r) \/ Persist(r)

Next ==
    \/ \E r \in Requests, in \in Inputs : Arrive(r, in)
    \/ \E r \in Requests : Step(r) \/ Crash(r)
    \/ \E u \in Users : Revoke(u)
    \/ \E k \in Keys : Expire(k)

Spec == Init /\ [][Next]_vars
-----------------------------------------------------------------------------
(* A job changes only at the word of an authenticated actor: the           *)
(* pre-shared key, a service account or the system for any tenant, every   *)
(* other for its own, whatever routes are exempt from authentication.      *)
ChangesAreAuthorized ==
    \A o \in changed :
        \/ o.subject \in {"psk"} \cup Machines
        \/ o.subject \in Users \ Machines /\ TenantOf[o.subject] = o.tenant

(* A record belongs to a request that was admitted, one that is refused    *)
(* takes no key away from the request that is entitled to it; and a stored *)
(* result is that of the owner, which may have outlived its own record     *)
(* while another request took the key.                                     *)
RecordIsOwners ==
    \A k \in Keys : store[k] # NoRecord =>
        LET r == store[k].owner IN
        /\ req[r].acquired
        /\ req[r].stage \in {"handle", "persist", "over", "lost"}
        /\ store[k].fp = Fingerprint(r) /\ In(r).key = k
        /\ store[k].state # "processing" => store[k].reply = req[r].reply

(* A replayed answer is the answer to the same request: same subject, same *)
(* route, same body.                                                       *)
ReplayIsOwn ==
    \A r \in Requests : req[r].replayed =>
        \E o \in Requests :
            /\ req[o].acquired /\ ~req[o].replayed
            /\ In(o).key = In(r).key /\ In(o).body = In(r).body /\ In(o).tenant = In(r).tenant
            /\ req[o].subject = req[r].subject
            /\ req[o].reply = req[r].reply

(* A key is acquired once, and once more for each record that expired: a   *)
(* repeated request never runs beside the first while the record lives,    *)
(* and never again after it, whatever was lost in between.                 *)
AcquiredOnce ==
    \A k \in Keys :
        Cardinality({r \in Requests : req[r].acquired /\ In(r).key = k}) <= 1 + expiries
=============================================================================
