----------------------- MODULE RequestPipelineProofs -----------------------
(***************************************************************************)
(* Proofs about the request pipeline, for every set of requests, keys and  *)
(* routes, every configuration of the exempted routes, and every number of *)
(* records that expire and results that are lost.                          *)
(***************************************************************************)
EXTENDS RequestPipeline, FiniteSetTheorems, TLAPS

Running ==
    [stage: Stages, subject: Subjects, reply: Status, acquired: BOOLEAN,
     replayed: BOOLEAN, in: Inputs]

(* The stages of a transport, as a set.                                    *)
Path(t) ==
    IF t = "http" THEN {"edge", "limit", "auth", "authz", "user", "begin", "handle"}
    ELSE IF t = "grpc" THEN {"edge", "auth", "authz", "begin", "handle"}
    ELSE {"edge", "auth", "handle"}

(* A request is on the path of its transport; it acquires a key at "begin" *)
(* and no request that did has its answer from a record.                   *)
RequestInv(r) ==
    \/ req[r] = Idle
    \/ /\ req[r] \in Running
       /\ req[r].stage \in Path(In(r).transport) \/ req[r].stage \in {"persist", "over", "lost"}
       /\ req[r].acquired => /\ req[r].stage \in {"handle", "persist", "over", "lost"}
                             /\ In(r).key \in Keys
       /\ req[r].stage = "persist" => req[r].acquired
       /\ req[r].replayed => req[r].stage = "over" /\ ~req[r].acquired

(* Record k is that of its owner, which is over once the result is stored. *)
RecordInv(k) ==
    LET o == store[k].owner IN
    store[k] # NoRecord =>
        /\ o \in Requests
        /\ req[o].acquired
        /\ req[o].stage \in {"handle", "persist", "over", "lost"}
        /\ store[k].fp = Fingerprint(o) /\ In(o).key = k
        /\ store[k].state # "processing" =>
               store[k].reply = req[o].reply /\ req[o].stage = "over"

(* Request o executed what r was answered with; nothing changes an o that  *)
(* is over.                                                                *)
Repeats(r, o) ==
    /\ req[o].acquired /\ ~req[o].replayed /\ req[o].stage = "over"
    /\ In(o).key = In(r).key /\ In(o).body = In(r).body /\ In(o).tenant = In(r).tenant
    /\ req[o].subject = req[r].subject
    /\ req[o].reply = req[r].reply

Acquirers(k) == {r \in Requests : req[r].acquired /\ In(r).key = k}

(* A key was acquired once per record that expired, and once for the       *)
(* record that is there.                                                   *)
AcquiredInv(k) ==
    /\ IsFiniteSet(Acquirers(k))
    /\ store[k] = NoRecord => Cardinality(Acquirers(k)) <= expiries
    /\ Cardinality(Acquirers(k)) <= expiries + 1

StateOK ==
    /\ req \in [Requests -> Running \cup {Idle}]
    /\ store \in [Keys -> Record \cup {NoRecord}]
    /\ granted \subseteq Users
    /\ changed \subseteq [tenant: Tenants, body: Bodies, subject: Subjects]
    /\ expiries \in 0..MaxExpiries /\ losses \in 0..MaxLosses

PipelineInv ==
    /\ StateOK
    /\ \A r \in Requests : RequestInv(r)
    /\ \A k \in Keys : RecordInv(k)
    /\ \A r \in Requests : req[r].replayed => \E o \in Requests : Repeats(r, o)
    /\ \A k \in Keys : AcquiredInv(k)
    /\ ChangesAreAuthorized
-----------------------------------------------------------------------------
(* The next stage is on the path, and "handle" follows "begin".            *)
LEMMA AfterStage ==
    ASSUME NEW r \in Requests, In(r).transport \in {"http", "grpc", "stream"},
           req[r].stage \in Path(In(r).transport), req[r].stage # "handle"
    PROVE  /\ After(r) \in Path(In(r).transport)
           /\ req[r].stage = "begin" => After(r) = "handle"
<1> DEFINE t == In(r).transport
           c == Chain(t)
           s == req[r].stage
           n == IF t = "http" THEN 7 ELSE IF t = "grpc" THEN 5 ELSE 3
<1>1. Len(c) = n /\ n \in Nat
  BY DEF Chain
<1>2. \E k \in 1..Len(c) : c[k] = s
  <2>1. CASE t = "http"
    <3>1. c = <<"edge", "limit", "auth", "authz", "user", "begin", "handle">>
      BY <2>1 DEF Chain
    <3>2. c[1] = "edge" /\ c[2] = "limit" /\ c[3] = "auth" /\ c[4] = "authz"
          /\ c[5] = "user" /\ c[6] = "begin" /\ c[7] = "handle"
      BY <3>1
    <3>3. QED
      BY <1>1, <2>1, <3>2 DEF Path
  <2>2. CASE t = "grpc"
    <3>1. c = <<"edge", "auth", "authz", "begin", "handle">>
      BY <2>2 DEF Chain
    <3>2. c[1] = "edge" /\ c[2] = "auth" /\ c[3] = "authz" /\ c[4] = "begin" /\ c[5] = "handle"
      BY <3>1
    <3>3. QED
      BY <1>1, <2>2, <3>2 DEF Path
  <2>3. CASE t = "stream"
    <3>1. c = <<"edge", "auth", "handle">>
      BY <2>3 DEF Chain
    <3>2. c[1] = "edge" /\ c[2] = "auth" /\ c[3] = "handle"
      BY <3>1
    <3>3. QED
      BY <1>1, <2>3, <3>2 DEF Path
  <2>4. QED
    BY <2>1, <2>2, <2>3
<1>3. PICK i \in 1..Len(c) : c[i] = s /\ After(r) = c[i + 1]
  <2>1. PICK i \in 1..Len(c) : i = (CHOOSE k \in 1..Len(c) : c[k] = s) /\ c[i] = s
    BY <1>2, Zenon
  <2>2. After(r) = c[i + 1]
    BY <2>1, Zenon DEF After
  <2>3. c[i] = s
    BY <2>1, Zenon
  <2>4. QED
    BY <2>2, <2>3
<1>4. QED
  <2>1. CASE t = "http"
    <3>1. c = <<"edge", "limit", "auth", "authz", "user", "begin", "handle">>
      BY <2>1 DEF Chain
    <3>2. c[1] = "edge" /\ c[2] = "limit" /\ c[3] = "auth" /\ c[4] = "authz"
          /\ c[5] = "user" /\ c[6] = "begin" /\ c[7] = "handle"
      BY <3>1
    <3>3. i \in 1..6
      BY <1>1, <1>3, <2>1, <3>2
    <3>4. QED
      BY <1>3, <2>1, <3>2, <3>3 DEF Path
  <2>2. CASE t = "grpc"
    <3>1. c = <<"edge", "auth", "authz", "begin", "handle">>
      BY <2>2 DEF Chain
    <3>2. c[1] = "edge" /\ c[2] = "auth" /\ c[3] = "authz" /\ c[4] = "begin" /\ c[5] = "handle"
      BY <3>1
    <3>3. i \in 1..4
      BY <1>1, <1>3, <2>2, <3>2
    <3>4. QED
      BY <1>3, <2>2, <3>2, <3>3 DEF Path
  <2>3. CASE t = "stream"
    <3>1. c = <<"edge", "auth", "handle">>
      BY <2>3 DEF Chain
    <3>2. c[1] = "edge" /\ c[2] = "auth" /\ c[3] = "handle"
      BY <3>1
    <3>3. i \in 1..2
      BY <1>1, <1>3, <2>3, <3>2
    <3>4. QED
      BY <1>3, <2>3, <3>2, <3>3 DEF Path
  <2>4. QED
    BY <2>1, <2>2, <2>3

(* Request r becomes q, which is about the same input.                     *)
Moves(r, q) ==
    /\ Set(r, q) /\ q \in Running
    /\ req' \in [Requests -> Running \cup {Idle}]
    /\ req'[r] = q
    /\ \A o \in Requests \ {r} : req'[o] = req[o]

(* Replacing a request keeps the type of all of them.                      *)
LEMMA SetMoves ==
    ASSUME StateOK, NEW r \in Requests, NEW q \in Running, Set(r, q)
    PROVE  Moves(r, q)
  BY DEF StateOK, Set, Moves

(* A request that is not idle is a record with an input.                   *)
LEMMA IsRunning ==
    ASSUME StateOK, NEW r \in Requests, req[r].stage # "idle"
    PROVE  /\ req[r] \in Running /\ req[r] # Idle /\ In(r) \in Inputs
           /\ In(r).transport \in {"http", "grpc", "stream"}
           /\ In(r).route \in Routes /\ In(r).tenant \in Tenants /\ In(r).body \in Bodies
           /\ In(r).key \in Keys \cup {NoKey}
           /\ req[r].stage \in Stages /\ req[r].subject \in Subjects
<1>1. req[r] # Idle
  BY DEF Idle
<1>2. req[r] \in Running
  BY <1>1 DEF StateOK
<1>3. In(r) \in Inputs /\ In(r) \in Input
  BY <1>2, PipelineAssumption DEF Running, In
<1>4. QED
  BY <1>1, <1>2, <1>3 DEF Input, Running

(* The next middleware.                                                    *)
LEMMA StageMoves ==
    ASSUME StateOK, NEW r \in Requests, req[r] \in Running, NEW s \in Stages,
           Set(r, [req[r] EXCEPT !.stage = s])
    PROVE  \E q : /\ Moves(r, q) /\ q.stage = s /\ q.subject = req[r].subject
                  /\ q.reply = req[r].reply /\ q.acquired = req[r].acquired
                  /\ q.replayed = req[r].replayed /\ q.in = req[r].in
<1> DEFINE q == [req[r] EXCEPT !.stage = s]
<1>1. q \in Running
  BY Zenon DEF Running
<1>2. /\ q.stage = s /\ q.subject = req[r].subject
      /\ q.reply = req[r].reply /\ q.acquired = req[r].acquired
      /\ q.replayed = req[r].replayed /\ q.in = req[r].in
  BY DEF Running
<1>3. Moves(r, q)
  BY <1>1, SetMoves
<1>4. QED
  BY <1>2, <1>3

Answers(r, s, y) == Set(r, [req[r] EXCEPT !.stage = s, !.reply = y])

(* An answer, at once or after the result is stored.                       *)
LEMMA ReplyMoves ==
    ASSUME StateOK, NEW r \in Requests, req[r] \in Running, NEW s \in Stages, NEW y \in Status,
           Answers(r, s, y)
    PROVE  \E q : /\ Moves(r, q) /\ q.stage = s /\ q.subject = req[r].subject
                  /\ q.reply = y /\ q.acquired = req[r].acquired
                  /\ q.replayed = req[r].replayed /\ q.in = req[r].in
<1> DEFINE q == [req[r] EXCEPT !.stage = s, !.reply = y]
<1>1. q \in Running
  BY Zenon DEF Running
<1>2. /\ q.stage = s /\ q.subject = req[r].subject
      /\ q.reply = y /\ q.acquired = req[r].acquired
      /\ q.replayed = req[r].replayed /\ q.in = req[r].in
  BY DEF Running
<1>3. Moves(r, q)
  BY <1>1, SetMoves DEF Answers
<1>4. QED
  BY <1>2, <1>3

(* A request that acquires nothing and is not over moves on: no replayed   *)
(* answer and no count is touched.                                         *)
LEMMA RequestFrame ==
    ASSUME PipelineInv, NEW r \in Requests, NEW q, Moves(r, q),
           req[r].stage \notin {"over", "lost"},
           q.acquired <=> req[r].acquired,
           req[r].acquired => q.in = req[r].in /\ q.subject = req[r].subject,
           RequestInv(r)',
           q.replayed => \E o \in Requests \ {r} : Repeats(r, o)'
    PROVE  /\ \A o \in Requests : RequestInv(o)'
           /\ \A o \in Requests : req[o].acquired =>
                 /\ req'[o].acquired
                 /\ In(o)' = In(o) /\ Fingerprint(o)' = Fingerprint(o)
           /\ \A p \in Requests : req'[p].replayed => \E o \in Requests : Repeats(p, o)'
           /\ \A k \in Keys : Acquirers(k)' = Acquirers(k)
<1>1. ASSUME NEW o \in Requests PROVE RequestInv(o)'
  <2>1. CASE o # r
    BY <2>1 DEF PipelineInv, RequestInv, Moves, In
  <2>2. QED
    BY <2>1
<1>2. \A o \in Requests : req'[o].acquired <=> req[o].acquired
  BY DEF Moves
<1>3. \A o \in Requests : req[o].acquired =>
          /\ In(o)' = In(o) /\ req'[o].subject = req[o].subject /\ Fingerprint(o)' = Fingerprint(o)
  BY DEF Moves, In, Fingerprint
<1>4. ASSUME NEW p \in Requests, req'[p].replayed PROVE \E o \in Requests : Repeats(p, o)'
  <2>1. CASE p = r
    BY <1>4, <2>1 DEF Moves
  <2>2. CASE p # r
    <3>1. PICK o \in Requests : Repeats(p, o)
      BY <1>4, <2>2 DEF PipelineInv, Moves
    <3>2. o # r
      BY <3>1 DEF Repeats
    <3>3. QED
      BY <2>2, <3>1, <3>2 DEF Repeats, Moves, In
  <2>3. QED
    BY <2>1, <2>2
<1>5. \A k \in Keys : Acquirers(k)' = Acquirers(k)
  BY <1>2, <1>3 DEF Acquirers
<1>6. QED
  BY <1>1, <1>2, <1>3, <1>4, <1>5

(* The same where no record changes either.                                *)
LEMMA StepFrame ==
    ASSUME PipelineInv, NEW r \in Requests, NEW q, Moves(r, q),
           req[r].stage \notin {"over", "lost"},
           q.acquired <=> req[r].acquired,
           req[r].acquired => q.in = req[r].in /\ q.subject = req[r].subject,
           RequestInv(r)',
           q.replayed => \E o \in Requests \ {r} : Repeats(r, o)',
           UNCHANGED <<store, granted, expiries>>, losses' \in 0..MaxLosses,
           changed' \subseteq [tenant: Tenants, body: Bodies, subject: Subjects],
           ChangesAreAuthorized'
    PROVE  PipelineInv'
<1>1. StateOK'
  BY DEF PipelineInv, StateOK, Moves
<1>2. /\ \A o \in Requests : RequestInv(o)'
      /\ \A o \in Requests : req[o].acquired =>
            /\ req'[o].acquired
            /\ In(o)' = In(o) /\ Fingerprint(o)' = Fingerprint(o)
      /\ \A p \in Requests : req'[p].replayed => \E o \in Requests : Repeats(p, o)'
      /\ \A k \in Keys : Acquirers(k)' = Acquirers(k)
  BY RequestFrame
<1>3. ASSUME NEW k \in Keys PROVE RecordInv(k)'
  <2> DEFINE o == store[k].owner
  <2> SUFFICES ASSUME store[k] # NoRecord
               PROVE  /\ o \in Requests
                      /\ req'[o].acquired
                      /\ req'[o].stage \in {"handle", "persist", "over", "lost"}
                      /\ store[k].fp = Fingerprint(o)' /\ In(o)'.key = k
                      /\ store[k].state # "processing" =>
                             store[k].reply = req'[o].reply /\ req'[o].stage = "over"
    BY DEF RecordInv, Fingerprint, In
  <2>1. RecordInv(k)
    BY DEF PipelineInv
  <2>2. o \in Requests /\ req[o].acquired
    BY <2>1 DEF RecordInv
  <2>3. CASE o # r
    BY <1>2, <2>1, <2>2, <2>3 DEF RecordInv, Moves
  <2>4. CASE o = r
    <3>1. req'[r].acquired /\ req'[r] # Idle
      BY <1>2, <2>2, <2>4 DEF Idle
    <3>2. req'[r].stage \in {"handle", "persist", "over", "lost"}
      BY <3>1 DEF RequestInv
    <3>3. QED
      BY <1>2, <2>1, <2>2, <2>4, <3>1, <3>2 DEF RecordInv
  <2>5. QED
    BY <2>3, <2>4
<1>4. ASSUME NEW k \in Keys PROVE AcquiredInv(k)'
  BY <1>2 DEF PipelineInv, AcquiredInv
<1>5. QED
  BY <1>1, <1>2, <1>3, <1>4 DEF PipelineInv
-----------------------------------------------------------------------------
(* A request that has not reached its handler holds nothing.               *)
LEMMA BeforeHandle ==
    ASSUME PipelineInv, NEW r \in Requests,
           req[r].stage \in {"edge", "limit", "auth", "authz", "user", "begin"}
    PROVE  /\ StateOK /\ req[r] \in Running /\ req[r].stage \in Path(In(r).transport)
           /\ ~req[r].acquired /\ ~req[r].replayed
           /\ After(r) \in Path(In(r).transport) /\ After(r) \in Stages
           /\ req[r].stage = "begin" => After(r) = "handle"
<1>1. StateOK /\ RequestInv(r)
  BY DEF PipelineInv
<1>2. /\ req[r] \in Running /\ req[r] # Idle
      /\ In(r).transport \in {"http", "grpc", "stream"}
  BY <1>1, IsRunning
<1>3. req[r].stage \in Path(In(r).transport) /\ ~req[r].acquired /\ ~req[r].replayed
  BY <1>1, <1>2 DEF RequestInv
<1>4. /\ After(r) \in Path(In(r).transport)
      /\ req[r].stage = "begin" => After(r) = "handle"
  BY <1>2, <1>3, AfterStage
<1>5. QED
  BY <1>1, <1>2, <1>3, <1>4 DEF Path, Stages

(* What stays when nothing is committed.                                   *)
LEMMA SharedStays ==
    ASSUME PipelineInv, UNCHANGED Shared
    PROVE  /\ UNCHANGED <<store, granted, expiries>> /\ losses' \in 0..MaxLosses
           /\ changed' \subseteq [tenant: Tenants, body: Bodies, subject: Subjects]
           /\ ChangesAreAuthorized'
  BY DEF PipelineInv, StateOK, Shared, ChangesAreAuthorized

(* A middleware lets the request pass.                                     *)
LEMMA PassKeeps ==
    ASSUME PipelineInv, NEW r \in Requests, Pass(r), UNCHANGED Shared,
           req[r].stage \in {"edge", "limit", "auth", "authz", "user", "begin"}
    PROVE  PipelineInv'
<1>1. /\ StateOK /\ req[r] \in Running /\ ~req[r].acquired /\ ~req[r].replayed
      /\ After(r) \in Path(In(r).transport) /\ After(r) \in Stages
  BY BeforeHandle
<1>2. PICK q : /\ Moves(r, q) /\ q.stage = After(r)
               /\ q.acquired = req[r].acquired /\ q.replayed = req[r].replayed
               /\ q.in = req[r].in
  BY <1>1, StageMoves DEF Pass
<1>3. q.stage # "persist"
  BY <1>1, <1>2 DEF Path
<1>4. RequestInv(r)'
  BY <1>1, <1>2, <1>3 DEF RequestInv, Moves, In
<1>5. QED
  BY <1>1, <1>2, <1>4, SharedStays, StepFrame

(* A middleware answers.                                                   *)
LEMMA AnswerKeeps ==
    ASSUME PipelineInv, NEW r \in Requests, NEW y \in Status, Answer(r, y), UNCHANGED Shared,
           req[r].stage \in {"edge", "limit", "auth", "authz", "user", "begin"}
    PROVE  PipelineInv'
<1>1. StateOK /\ req[r] \in Running /\ ~req[r].acquired /\ ~req[r].replayed
  BY BeforeHandle
<1>2. PICK q : /\ Moves(r, q) /\ q.stage = "over"
               /\ q.acquired = req[r].acquired /\ q.replayed = req[r].replayed
               /\ q.in = req[r].in
  <2>1. Answers(r, "over", y) /\ "over" \in Stages
    BY DEF Answer, Answers, Stages
  <2>2. QED
    BY <1>1, <2>1, ReplyMoves
<1>3. RequestInv(r)'
  BY <1>1, <1>2 DEF RequestInv, Moves, In
<1>4. QED
  BY <1>1, <1>2, <1>3, SharedStays, StepFrame

(* A request arrives, with any input.                                      *)
LEMMA ArriveKeeps ==
    ASSUME PipelineInv, NEW r \in Requests, NEW in \in Inputs, Arrive(r, in)
    PROVE  PipelineInv'
<1> DEFINE q == [stage |-> "edge", subject |-> NoOne, reply |-> "none",
                 acquired |-> FALSE, replayed |-> FALSE, in |-> in]
<1>1. StateOK /\ RequestInv(r) /\ req[r].stage = "idle"
  BY DEF PipelineInv, Arrive
<1>2. ~req[r].acquired
  <2>1. req[r] \notin Running
    BY <1>1 DEF Running, Stages
  <2>2. QED
    BY <1>1, <2>1 DEF RequestInv, Idle
<1>3. q \in Running
  BY DEF Running, Stages, Subjects, Status
<1>4. Moves(r, q)
  BY <1>1, <1>3, SetMoves DEF Arrive
<1>5. q.stage = "edge" /\ ~q.acquired /\ ~q.replayed
  OBVIOUS
<1> HIDE DEF q
<1>6. RequestInv(r)'
  BY <1>4, <1>5 DEF RequestInv, Moves, Path, In
<1>7. UNCHANGED Shared
  BY DEF Arrive
<1>8. QED
  BY <1>1, <1>2, <1>4, <1>5, <1>6, <1>7, SharedStays, StepFrame

(* The checks at the edge, the rate limits and the authorization.          *)
LEMMA FrontKeeps ==
    ASSUME PipelineInv, NEW r \in Requests, Edge(r) \/ Limit(r) \/ Authorize(r)
    PROVE  PipelineInv'
<1>1. req[r].stage \in {"edge", "limit", "user", "authz"} /\ UNCHANGED Shared
  BY DEF Edge, Limit, Authorize
<1>2. Pass(r) \/ \E y \in Status : Answer(r, y)
  BY DEF Edge, Limit, Authorize, Status
<1>3. QED
  BY <1>1, <1>2, PassKeeps, AnswerKeeps

(* The subject becomes known; before that no record can name it.           *)
LEMMA AuthenticateKeeps ==
    ASSUME PipelineInv, NEW r \in Requests, Authenticate(r)
    PROVE  PipelineInv'
<1> DEFINE u == SubjectOf(In(r))
           q == [req[r] EXCEPT !.stage = After(r), !.subject = u]
<1>1. req[r].stage = "auth" /\ UNCHANGED Shared
  BY DEF Authenticate
<1>2. /\ StateOK /\ req[r] \in Running /\ ~req[r].acquired /\ ~req[r].replayed
      /\ After(r) \in Path(In(r).transport) /\ After(r) \in Stages
  BY <1>1, BeforeHandle
<1>3. CASE Answer(r, "unauthorized")
  BY <1>1, <1>3, AnswerKeeps DEF Status
<1>4. CASE u # "refused" /\ Set(r, q)
  <2>1. u \in Subjects
    <3>1. \/ u = IF In(r).cred = "psk" THEN "psk" ELSE "refused"
          \/ u = NoOne
          \/ u = IF In(r).cred \in Users THEN In(r).cred ELSE "refused"
      BY Zenon DEF SubjectOf
    <3>2. QED
      BY <1>4, <3>1 DEF Subjects
  <2>2. q \in Running
    BY <1>2, <2>1, Zenon DEF Running
  <2>3. Moves(r, q)
    BY <1>2, <1>4, <2>2, SetMoves
  <2>4. /\ q.stage = After(r) /\ q.acquired = req[r].acquired
        /\ q.replayed = req[r].replayed /\ q.in = req[r].in
    BY <1>2 DEF Running
  <2> HIDE DEF q
  <2>5. q.stage # "persist"
    BY <1>2, <2>4 DEF Path
  <2>6. RequestInv(r)'
    BY <1>2, <2>3, <2>4, <2>5 DEF RequestInv, Moves, In
  <2>7. QED
    BY <1>1, <1>2, <2>3, <2>4, <2>6, SharedStays, StepFrame
<1>5. QED
  BY <1>3, <1>4, Zenon DEF Authenticate

(* A request acquires its key: there was no record, so none of its rivals  *)
(* holds one that lives.                                                   *)
LEMMA AcquireKeeps ==
    ASSUME PipelineInv, NEW r \in Requests, req[r].stage = "begin", ~Bypasses(r), ~Holds(r),
           store' = [store EXCEPT ![In(r).key] =
                        [state |-> "processing", fp |-> Fingerprint(r),
                         owner |-> r, reply |-> "none"]],
           Set(r, [req[r] EXCEPT !.stage = After(r), !.acquired = TRUE]),
           UNCHANGED <<granted, changed, expiries, losses>>
    PROVE  PipelineInv'
<1>0. PICK k : k = In(r).key
  OBVIOUS
<1>1. /\ StateOK /\ req[r] \in Running /\ ~req[r].acquired /\ ~req[r].replayed
      /\ req[r].stage \in Path(In(r).transport) /\ After(r) = "handle"
  BY BeforeHandle
<1>2. /\ In(r).transport \in {"http", "grpc"} /\ k \in Keys /\ store[k] = NoRecord
      /\ req[r].subject \in Subjects /\ In(r).route \in Routes
      /\ In(r).tenant \in Tenants /\ In(r).body \in Bodies
  BY <1>0, <1>1, IsRunning DEF Path, Bypasses, Holds
<1> DEFINE rec == [state |-> "processing", fp |-> Fingerprint(r), owner |-> r, reply |-> "none"]
           q == [req[r] EXCEPT !.stage = After(r), !.acquired = TRUE]
<1>3. rec \in Record
  <2>1. Fingerprint(r) \in Fingerprints
    BY <1>2 DEF Fingerprint, Fingerprints
  <2>2. "none" \in Status
    BY DEF Status
  <2>3. QED
    BY <2>1, <2>2 DEF Record
<1>4. rec # NoRecord
  BY DEF NoRecord
<1>5. /\ store' \in [Keys -> Record \cup {NoRecord}] /\ store'[k] = rec
      /\ \A l \in Keys \ {k} : store'[l] = store[l]
  BY <1>0, <1>1, <1>2, <1>3 DEF StateOK
<1>6. q \in Running
  <2>1. After(r) \in Stages
    BY <1>1 DEF Stages
  <2>2. QED
    BY <1>1, <2>1, Zenon DEF Running
<1>7. Moves(r, q)
  BY <1>1, <1>6, SetMoves
<1>8. /\ q.stage = "handle" /\ q.acquired /\ q.replayed = req[r].replayed
      /\ q.in = req[r].in /\ q.subject = req[r].subject
  BY <1>1 DEF Running
<1> HIDE DEF q
<1>9. In(r)' = In(r) /\ Fingerprint(r)' = Fingerprint(r)
  BY <1>7, <1>8 DEF Moves, In, Fingerprint
<1>10. StateOK'
  BY <1>1, <1>5, <1>7 DEF StateOK, Moves
<1>11. ASSUME NEW o \in Requests PROVE RequestInv(o)'
  <2>1. CASE o # r
    BY <1>7, <2>1 DEF PipelineInv, RequestInv, Moves, In
  <2>2. RequestInv(r)'
    <3>1. "handle" \in Path(In(r).transport)
      BY DEF Path
    <3>2. QED
      BY <1>0, <1>1, <1>2, <1>6, <1>7, <1>8, <1>9, <3>1 DEF RequestInv, Moves
  <2>3. QED
    BY <2>1, <2>2
<1>12. ASSUME NEW l \in Keys PROVE RecordInv(l)'
  <2>1. CASE l = k
    <3>1. /\ rec.owner = r /\ rec.state = "processing" /\ rec.fp = Fingerprint(r)
      OBVIOUS
    <3>2. /\ req'[r].acquired /\ req'[r].stage = "handle" /\ In(r)'.key = k
          /\ Fingerprint(r)' = Fingerprint(r)
      BY <1>0, <1>7, <1>8, <1>9 DEF Moves
    <3> HIDE DEF rec
    <3>3. QED
      BY <1>2, <1>5, <2>1, <3>1, <3>2 DEF RecordInv, Fingerprint, In
  <2>2. CASE l # k /\ store[l] # NoRecord
    <3>1. PICK o : o = store[l].owner
      OBVIOUS
    <3>2. o \in Requests /\ req[o].acquired /\ RecordInv(l)
      BY <2>2, <3>1 DEF PipelineInv, RecordInv
    <3>3. req'[o] = req[o]
      BY <1>1, <1>7, <3>2 DEF Moves
    <3>4. store'[l] = store[l] /\ In(o)' = In(o) /\ Fingerprint(o)' = Fingerprint(o)
      BY <1>5, <2>2, <3>3 DEF Fingerprint, In
    <3>5. QED
      BY <2>2, <3>1, <3>2, <3>3, <3>4 DEF RecordInv
  <2>3. CASE l # k /\ store[l] = NoRecord
    BY <1>5, <2>3 DEF RecordInv
  <2>4. QED
    BY <2>1, <2>2, <2>3
<1>13. ASSUME NEW p \in Requests, req'[p].replayed PROVE \E o \in Requests : Repeats(p, o)'
  <2>1. p # r
    BY <1>1, <1>7, <1>8, <1>13 DEF Moves
  <2>2. PICK o \in Requests : Repeats(p, o)
    BY <1>7, <1>13, <2>1 DEF PipelineInv, Moves
  <2>3. o # r
    BY <1>1, <2>2 DEF Repeats
  <2>4. QED
    BY <1>7, <2>1, <2>2, <2>3 DEF Repeats, Moves, In
<1>14. ASSUME NEW l \in Keys PROVE AcquiredInv(l)'
  <2>0. AcquiredInv(l) /\ expiries \in Nat /\ expiries' = expiries
    BY <1>1, PipelineAssumption DEF PipelineInv, StateOK
  <2>1. CASE l = k
    <3>1. Acquirers(l)' = Acquirers(l) \cup {r} /\ r \notin Acquirers(l)
      BY <1>0, <1>1, <1>7, <1>8, <1>9, <2>1 DEF Acquirers, Moves, In
    <3>2. IsFiniteSet(Acquirers(l)) /\ Cardinality(Acquirers(l)) <= expiries
      BY <1>2, <2>0, <2>1 DEF AcquiredInv
    <3>3. /\ IsFiniteSet(Acquirers(l)')
          /\ Cardinality(Acquirers(l)') = Cardinality(Acquirers(l)) + 1
      BY <3>1, <3>2, FS_AddElement
    <3>4. Cardinality(Acquirers(l)) \in Nat
      BY <3>2, FS_CardinalityType
    <3>5. store'[l] # NoRecord
      BY <1>4, <1>5, <2>1
    <3>6. QED
      BY <2>0, <3>2, <3>3, <3>4, <3>5 DEF AcquiredInv
  <2>2. CASE l # k
    <3>1. Acquirers(l)' = Acquirers(l)
      BY <1>0, <1>1, <1>7, <1>8, <1>9, <2>2 DEF Acquirers, Moves, In
    <3>2. store'[l] = store[l]
      BY <1>5, <2>2
    <3>3. QED
      BY <2>0, <3>1, <3>2 DEF AcquiredInv
  <2>3. QED
    BY <2>1, <2>2
<1>15. ChangesAreAuthorized'
  BY DEF PipelineInv, ChangesAreAuthorized
<1>16. QED
  BY <1>10, <1>11, <1>12, <1>13, <1>14, <1>15 DEF PipelineInv

(* A stored result is replayed: record, owner and request agree.           *)
LEMMA ReplayKeeps ==
    ASSUME PipelineInv, NEW r \in Requests, req[r].stage = "begin", ~Bypasses(r), Holds(r),
           store[In(r).key].fp = Fingerprint(r), store[In(r).key].state # "processing",
           Replay(r, store[In(r).key]), UNCHANGED Shared
    PROVE  PipelineInv'
<1>0. PICK k : k = In(r).key
  OBVIOUS
<1>1. StateOK /\ req[r] \in Running /\ ~req[r].acquired /\ ~req[r].replayed
  BY BeforeHandle
<1>2. k \in Keys /\ store[k] # NoRecord
  BY <1>0, <1>1, IsRunning DEF Bypasses, Holds
<1>3. store[k] \in Record /\ store[k].reply \in Status
  BY <1>1, <1>2 DEF StateOK, Record
<1>4. PICK o : o = store[k].owner
  OBVIOUS
<1>5. /\ o \in Requests /\ req[o].acquired /\ req[o].stage = "over"
      /\ Fingerprint(o) = Fingerprint(r) /\ In(o).key = k /\ store[k].reply = req[o].reply
  BY <1>0, <1>2, <1>4 DEF PipelineInv, RecordInv
<1>6. /\ req[o].subject = req[r].subject /\ In(o).tenant = In(r).tenant
      /\ In(o).body = In(r).body
  BY <1>5 DEF Fingerprint
<1>7. o # r /\ ~req[o].replayed
  <2>1. RequestInv(o) /\ req[o] # Idle
    BY <1>5 DEF PipelineInv, Idle
  <2>2. QED
    BY <1>1, <1>5, <2>1 DEF RequestInv
<1> DEFINE q == [req[r] EXCEPT !.stage = "over", !.reply = store[k].reply, !.replayed = TRUE]
<1>8. q \in Running
  <2>1. "over" \in Stages
    BY DEF Stages
  <2>2. QED
    BY <1>1, <1>3, <2>1, Zenon DEF Running
<1>9. Moves(r, q)
  BY <1>0, <1>1, <1>8, SetMoves DEF Replay
<1>10. /\ q.stage = "over" /\ q.reply = store[k].reply /\ q.acquired = req[r].acquired
       /\ q.in = req[r].in /\ q.subject = req[r].subject
  BY <1>1 DEF Running
<1> HIDE DEF q
<1>11. Repeats(r, o)'
  BY <1>0, <1>5, <1>6, <1>7, <1>9, <1>10 DEF Repeats, Moves, In
<1>12. RequestInv(r)'
  BY <1>1, <1>9, <1>10 DEF RequestInv, Moves, In
<1>13. QED
  BY <1>1, <1>5, <1>7, <1>9, <1>10, <1>11, <1>12, SharedStays, StepFrame

(* Begin: bypassed, refused, acquired, in conflict or replayed.            *)
LEMMA BeginKeeps ==
    ASSUME PipelineInv, NEW r \in Requests, Begin(r)
    PROVE  PipelineInv'
<1>1. req[r].stage = "begin" /\ UNCHANGED <<granted, changed, expiries, losses>>
  BY DEF Begin
<1>2. CASE store' = store /\ (Pass(r) \/ \E y \in Status : Answer(r, y))
  BY <1>1, <1>2, PassKeeps, AnswerKeeps DEF Shared
<1>3. CASE store' = store /\ ~Bypasses(r) /\ Holds(r)
           /\ store[In(r).key].fp = Fingerprint(r) /\ store[In(r).key].state # "processing"
           /\ Replay(r, store[In(r).key])
  BY <1>1, <1>3, ReplayKeeps DEF Shared
<1>4. CASE /\ ~Bypasses(r) /\ ~Holds(r)
           /\ store' = [store EXCEPT ![In(r).key] =
                          [state |-> "processing", fp |-> Fingerprint(r),
                           owner |-> r, reply |-> "none"]]
           /\ Set(r, [req[r] EXCEPT !.stage = After(r), !.acquired = TRUE])
  BY <1>1, <1>4, AcquireKeeps, Zenon
<1>5. {"invalid", "unavailable", "key_conflict", "in_progress"} \subseteq Status
  BY DEF Status
<1>6. QED
  BY <1>2, <1>3, <1>4, <1>5, Zenon DEF Begin
-----------------------------------------------------------------------------
(* The handler answers, having committed what the actor may change, or     *)
(* nothing.                                                                *)
LEMMA HandlerKeeps ==
    ASSUME PipelineInv, NEW r \in Requests, req[r].stage = "handle",
           NEW y \in Status, NEW s \in {"persist", "over"}, Reply(r, y, s),
           UNCHANGED <<store, granted, expiries>>, losses' \in 0..MaxLosses,
           changed' = changed \/ (Changes(r) /\ changed' = changed \cup {Operation(r)})
    PROVE  PipelineInv'
<1>1. StateOK /\ RequestInv(r) /\ req[r] \in Running /\ req[r] # Idle
  BY IsRunning DEF PipelineInv
<1>2. ~req[r].replayed /\ (req[r].acquired => In(r).key \in Keys)
  BY <1>1 DEF RequestInv
<1>3. PICK z \in Stages : /\ z = (IF req[r].acquired THEN s ELSE "over")
                          /\ z = "over" \/ (z = "persist" /\ req[r].acquired)
  BY DEF Stages
<1>4. Answers(r, z, y)
  BY <1>1, <1>3, Zenon DEF Reply, Answers
<1>5. PICK q : /\ Moves(r, q) /\ q.stage = z /\ q.subject = req[r].subject
               /\ q.reply = y /\ q.acquired = req[r].acquired
               /\ q.replayed = req[r].replayed /\ q.in = req[r].in
  BY <1>1, <1>4, ReplyMoves
<1>6. RequestInv(r)'
  BY <1>1, <1>2, <1>3, <1>5 DEF RequestInv, Moves, In
<1>7. /\ changed' \subseteq [tenant: Tenants, body: Bodies, subject: Subjects]
      /\ ChangesAreAuthorized'
  <2>1. CASE changed' = changed
    BY <1>1, <2>1 DEF PipelineInv, StateOK, ChangesAreAuthorized
  <2>2. CASE Changes(r) /\ changed' = changed \cup {Operation(r)}
    <3>1. In(r).tenant \in Tenants /\ In(r).body \in Bodies /\ req[r].subject \in Subjects
      BY <1>1, IsRunning
    <3>2. Operation(r) \in [tenant: Tenants, body: Bodies, subject: Subjects]
      BY <3>1 DEF Operation
    <3>3. /\ Operation(r).subject = req[r].subject /\ Operation(r).tenant = In(r).tenant
      BY DEF Operation
    <3>4. MayAct(r)
      BY <2>2 DEF Changes
    <3>5. QED
      BY <1>1, <2>2, <3>2, <3>3, <3>4 DEF PipelineInv, StateOK, ChangesAreAuthorized, MayAct
  <2>3. QED
    BY <2>1, <2>2
<1>8. QED
  BY <1>2, <1>5, <1>6, <1>7, StepFrame

(* The handler, and one that fails before or after the commit.             *)
LEMMA HandleKeeps ==
    ASSUME PipelineInv, NEW r \in Requests, Handle(r) \/ HandlerFails(r)
    PROVE  PipelineInv'
<1>1. req[r].stage = "handle" /\ UNCHANGED <<store, granted, expiries>>
  BY DEF Handle, HandlerFails
<1>2. losses' \in 0..MaxLosses
  BY PipelineAssumption DEF Handle, HandlerFails, PipelineInv, StateOK
<1>3. changed' = changed \/ (Changes(r) /\ changed' = changed \cup {Operation(r)})
  BY Zenon DEF Handle, HandlerFails
<1>4. {"unauthorized", "forbidden", "ok", "stale", "invalid", "unavailable", "internal"}
        \subseteq Status
  BY DEF Status
<1>5. \E y \in Status, s \in {"persist", "over"} : Reply(r, y, s)
  <2>1. CASE Handle(r)
    <3>1. \E y \in Status : Reply(r, y, "persist")
      BY <1>4, <2>1 DEF Handle
    <3>2. QED
      BY <3>1
  <2>2. CASE HandlerFails(r)
    BY <1>4, <2>2 DEF HandlerFails
  <2>3. QED
    BY <2>1, <2>2
<1>6. QED
  BY <1>1, <1>2, <1>3, <1>5, HandlerKeeps

(* The result is stored, if the record is still the request's own.         *)
LEMMA PersistKeeps ==
    ASSUME PipelineInv, NEW r \in Requests, Persist(r)
    PROVE  PipelineInv'
<1>0. PICK k : k = In(r).key
  OBVIOUS
<1>1. StateOK /\ RequestInv(r) /\ req[r] \in Running /\ req[r] # Idle /\ req[r].stage = "persist"
  BY IsRunning DEF PipelineInv, Persist
<1>2. ~req[r].replayed /\ req[r].acquired /\ k \in Keys
  BY <1>0, <1>1 DEF RequestInv
<1>3. PICK q : /\ Moves(r, q) /\ q.stage = "over" /\ q.subject = req[r].subject
               /\ q.reply = req[r].reply /\ q.acquired = req[r].acquired
               /\ q.replayed = req[r].replayed /\ q.in = req[r].in
  BY <1>1, StageMoves DEF Persist, Stages
<1>4. RequestInv(r)'
  BY <1>0, <1>1, <1>2, <1>3 DEF RequestInv, Moves, In
<1>5. UNCHANGED <<granted, changed, expiries>> /\ losses' \in 0..MaxLosses
  BY <1>1, PipelineAssumption DEF Persist, StateOK
<1>6. ChangesAreAuthorized'
      /\ changed' \subseteq [tenant: Tenants, body: Bodies, subject: Subjects]
  BY <1>1, <1>5 DEF PipelineInv, StateOK, ChangesAreAuthorized
<1>7. CASE store' = store
  BY <1>1, <1>2, <1>3, <1>4, <1>5, <1>6, <1>7, StepFrame
<1>8. CASE Owned(r) /\ store' = [store EXCEPT ![k].reply = req[r].reply,
                ![k].state = IF req[r].reply = "ok" THEN "completed" ELSE "failed"]
  <2>1. store[k] # NoRecord /\ store[k].owner = r /\ store[k] \in Record /\ req[r].reply \in Status
    BY <1>0, <1>1, <1>2, <1>8 DEF Owned, StateOK, Running
  <2>2. PICK z \in {"completed", "failed"} : z = IF req[r].reply = "ok" THEN "completed" ELSE "failed"
    OBVIOUS
  <2> DEFINE rec == [store[k] EXCEPT !.reply = req[r].reply, !.state = z]
  <2>3. rec \in Record
    BY <2>1, <2>2, Zenon DEF Record
  <2>4. store' = [store EXCEPT ![k] = rec]
    BY <1>1, <1>2, <1>8, <2>2 DEF StateOK
  <2>5. /\ rec.reply = req[r].reply /\ rec.state = z /\ rec.owner = r /\ rec.fp = store[k].fp
    BY <2>1 DEF Record
  <2>6. rec # NoRecord
    BY <2>2, <2>5 DEF NoRecord
  <2>7. /\ store' \in [Keys -> Record \cup {NoRecord}] /\ store'[k] = rec
        /\ \A l \in Keys \ {k} : store'[l] = store[l]
    BY <1>1, <1>2, <2>3, <2>4 DEF StateOK
  <2> HIDE DEF rec
  <2>8. /\ \A o \in Requests : RequestInv(o)'
        /\ \A o \in Requests : req[o].acquired =>
              /\ req'[o].acquired
              /\ In(o)' = In(o) /\ Fingerprint(o)' = Fingerprint(o)
        /\ \A p \in Requests : req'[p].replayed => \E o \in Requests : Repeats(p, o)'
        /\ \A l \in Keys : Acquirers(l)' = Acquirers(l)
    BY <1>1, <1>2, <1>3, <1>4, RequestFrame
  <2>9. ASSUME NEW l \in Keys PROVE RecordInv(l)'
    <3>1. CASE l = k
      <4>1. store[k].fp = Fingerprint(r) /\ In(r).key = k
        BY <1>0, <1>2, <2>1 DEF PipelineInv, RecordInv
      <4>2. rec.fp = Fingerprint(r)' /\ In(r)'.key = k /\ req'[r].acquired
        BY <1>2, <2>5, <2>8, <4>1
      <4>3. req'[r].stage = "over" /\ req'[r].reply = rec.reply
        BY <1>3, <2>5 DEF Moves
      <4>4. QED
        BY <2>5, <2>7, <3>1, <4>2, <4>3 DEF RecordInv, Fingerprint, In
    <3>2. CASE l # k /\ store[l] # NoRecord
      <4>1. PICK o : o = store[l].owner
        OBVIOUS
      <4>2. o \in Requests /\ req[o].acquired /\ RecordInv(l) /\ In(o).key = l
        BY <3>2, <4>1 DEF PipelineInv, RecordInv
      <4>3. req'[o] = req[o]
        BY <1>0, <1>3, <3>2, <4>2 DEF Moves
      <4>4. QED
        BY <2>7, <3>2, <4>1, <4>2, <4>3 DEF RecordInv, Fingerprint, In
    <3>3. CASE l # k /\ store[l] = NoRecord
      BY <2>7, <3>3 DEF RecordInv
    <3>4. QED
      BY <3>1, <3>2, <3>3
  <2>10. ASSUME NEW l \in Keys PROVE AcquiredInv(l)'
    <3>1. store'[l] = NoRecord => store[l] = NoRecord
      BY <2>6, <2>7
    <3>2. QED
      BY <1>5, <2>8, <3>1 DEF PipelineInv, AcquiredInv
  <2>11. StateOK'
    BY <1>1, <1>3, <1>5, <2>7 DEF StateOK, Moves
  <2>12. QED
    BY <1>6, <2>8, <2>9, <2>10, <2>11 DEF PipelineInv
<1>9. QED
  BY <1>0, <1>7, <1>8, Zenon DEF Persist

(* A request is lost with its process.                                     *)
LEMMA CrashKeeps ==
    ASSUME PipelineInv, NEW r \in Requests, Crash(r)
    PROVE  PipelineInv'
<1>1. /\ StateOK /\ RequestInv(r) /\ req[r] \in Running /\ req[r] # Idle
      /\ req[r].stage \notin {"over", "lost"}
  BY IsRunning DEF PipelineInv, Crash
<1>2. ~req[r].replayed /\ (req[r].acquired => In(r).key \in Keys)
  BY <1>1 DEF RequestInv
<1>3. PICK q : /\ Moves(r, q) /\ q.stage = "lost" /\ q.subject = req[r].subject
               /\ q.acquired = req[r].acquired
               /\ q.replayed = req[r].replayed /\ q.in = req[r].in
  <2>1. "lost" \in Stages /\ Set(r, [req[r] EXCEPT !.stage = "lost"])
    BY DEF Crash, Stages
  <2>2. QED
    BY <1>1, <2>1, StageMoves
<1>4. RequestInv(r)'
  BY <1>1, <1>2, <1>3 DEF RequestInv, Moves, In
<1>5. UNCHANGED <<store, granted, changed, expiries>> /\ losses' \in 0..MaxLosses
  BY <1>1, PipelineAssumption DEF Crash, StateOK
<1>6. ChangesAreAuthorized'
      /\ changed' \subseteq [tenant: Tenants, body: Bodies, subject: Subjects]
  BY <1>1, <1>5 DEF PipelineInv, StateOK, ChangesAreAuthorized
<1>7. QED
  BY <1>1, <1>2, <1>3, <1>4, <1>5, <1>6, StepFrame

(* A record expires: the key may be acquired once more.                    *)
LEMMA ExpireKeeps ==
    ASSUME PipelineInv, NEW k \in Keys, Expire(k)
    PROVE  PipelineInv'
<1>1. /\ StateOK /\ UNCHANGED <<req, granted, changed, losses>>
      /\ store' = [store EXCEPT ![k] = NoRecord] /\ expiries' = expiries + 1
  BY DEF PipelineInv, Expire
<1>2. expiries' \in 0..MaxExpiries /\ expiries \in Nat
  BY <1>1, PipelineAssumption DEF Expire, StateOK
<1>3. /\ store' \in [Keys -> Record \cup {NoRecord}] /\ store'[k] = NoRecord
      /\ \A l \in Keys \ {k} : store'[l] = store[l]
  BY <1>1 DEF StateOK
<1>4. StateOK'
  BY <1>1, <1>2, <1>3 DEF StateOK
<1>5. \A r \in Requests : RequestInv(r)'
  BY <1>1 DEF PipelineInv, RequestInv, In
<1>6. \A r \in Requests : req'[r].replayed => \E o \in Requests : Repeats(r, o)'
  BY <1>1 DEF PipelineInv, Repeats, In
<1>7. ASSUME NEW l \in Keys PROVE RecordInv(l)'
  BY <1>1, <1>3 DEF PipelineInv, RecordInv, Fingerprint, In
<1>8. ASSUME NEW l \in Keys PROVE AcquiredInv(l)'
  <2>1. Acquirers(l)' = Acquirers(l)
    BY <1>1 DEF Acquirers, In
  <2>2. AcquiredInv(l)
    BY DEF PipelineInv
  <2>3. Cardinality(Acquirers(l)) \in Nat
    BY <2>2, FS_CardinalityType DEF AcquiredInv
  <2>4. QED
    BY <1>1, <1>2, <1>3, <2>1, <2>2, <2>3 DEF AcquiredInv
<1>9. ChangesAreAuthorized'
  BY <1>1 DEF PipelineInv, ChangesAreAuthorized
<1>10. QED
  BY <1>4, <1>5, <1>6, <1>7, <1>8, <1>9 DEF PipelineInv

(* A permission is revoked, or nothing happens.                            *)
LEMMA RevokeKeeps ==
    ASSUME PipelineInv, granted' \subseteq Users, UNCHANGED <<req, store, changed, expiries, losses>>
    PROVE  PipelineInv'
<1>1. StateOK'
  BY DEF PipelineInv, StateOK
<1>2. \A r \in Requests : RequestInv(r)'
  BY DEF PipelineInv, RequestInv, In
<1>3. \A r \in Requests : req'[r].replayed => \E o \in Requests : Repeats(r, o)'
  BY DEF PipelineInv, Repeats, In
<1>4. \A k \in Keys : RecordInv(k)'
  BY DEF PipelineInv, RecordInv, Fingerprint, In
<1>5. \A k \in Keys : AcquiredInv(k)'
  BY DEF PipelineInv, AcquiredInv, Acquirers, In
<1>6. ChangesAreAuthorized'
  BY DEF PipelineInv, ChangesAreAuthorized
<1>7. QED
  BY <1>1, <1>2, <1>3, <1>4, <1>5, <1>6 DEF PipelineInv
-----------------------------------------------------------------------------
(* The invariant holds before the first request.                           *)
LEMMA InitPipeline == Init => PipelineInv
<1> SUFFICES ASSUME Init PROVE PipelineInv
  OBVIOUS
<1>1. /\ \A r \in Requests : req[r] = Idle
      /\ \A k \in Keys : store[k] = NoRecord
      /\ changed = {} /\ expiries = 0
  BY DEF Init
<1>2. StateOK
  BY PipelineAssumption DEF Init, StateOK
<1>3. ~Idle.acquired /\ ~Idle.replayed
  BY DEF Idle
<1>4. ASSUME NEW k \in Keys PROVE AcquiredInv(k)
  <2>1. Acquirers(k) = {}
    BY <1>1, <1>3 DEF Acquirers
  <2>2. IsFiniteSet(Acquirers(k)) /\ Cardinality(Acquirers(k)) = 0
    BY <2>1, FS_EmptySet
  <2>3. QED
    BY <1>1, <2>2 DEF AcquiredInv
<1>5. (\A r \in Requests : RequestInv(r)) /\ (\A k \in Keys : RecordInv(k))
  BY <1>1 DEF RequestInv, RecordInv
<1>6. QED
  BY <1>1, <1>2, <1>3, <1>4, <1>5 DEF PipelineInv, ChangesAreAuthorized

(* Every step keeps the invariant.                                         *)
LEMMA NextPipeline == PipelineInv /\ [Next]_vars => PipelineInv'
<1> SUFFICES ASSUME PipelineInv, [Next]_vars PROVE PipelineInv'
  OBVIOUS
<1>1. CASE UNCHANGED vars
  BY <1>1, RevokeKeeps DEF vars, PipelineInv, StateOK
<1>2. ASSUME NEW u \in Users, Revoke(u) PROVE PipelineInv'
  BY <1>2, RevokeKeeps DEF Revoke, PipelineInv, StateOK
<1>3. ASSUME NEW r \in Requests, Step(r) \/ Crash(r) PROVE PipelineInv'
  BY <1>3, FrontKeeps, AuthenticateKeeps, BeginKeeps, HandleKeeps, PersistKeeps, CrashKeeps
     DEF Step
<1>4. QED
  BY <1>1, <1>2, <1>3, ArriveKeeps, ExpireKeeps DEF Next

(* A request, its record, its replayed answers and the number of times its *)
(* key was acquired agree in every reachable state.                        *)
THEOREM PipelineIsConsistent == Spec => []PipelineInv
  BY InitPipeline, NextPipeline, PTL DEF Spec

(* No job changes but at the word of an actor who may act for its tenant:  *)
(* the pre-shared key, a service account or the system, or a user of the   *)
(* tenant, whatever the lists of exempted routes say.                      *)
THEOREM OnlyActorsChangeJobs == Spec => []ChangesAreAuthorized
<1>1. PipelineInv => ChangesAreAuthorized
  BY DEF PipelineInv
<1>2. QED
  BY <1>1, PipelineIsConsistent, PTL

(* A record is that of the admitted request that owns it, and its result   *)
(* is the owner's.                                                         *)
THEOREM RecordsAreOwned == Spec => []RecordIsOwners
<1>1. PipelineInv => RecordIsOwners
  BY DEF PipelineInv, RecordInv, RecordIsOwners
<1>2. QED
  BY <1>1, PipelineIsConsistent, PTL

(* A replayed answer is the answer to the same request of the same actor.  *)
THEOREM ReplaysAreOwn == Spec => []ReplayIsOwn
<1>1. PipelineInv => ReplayIsOwn
  BY DEF PipelineInv, Repeats, ReplayIsOwn
<1>2. QED
  BY <1>1, PipelineIsConsistent, PTL

(* A key is executed once, and once more for each record that expired.     *)
THEOREM KeysAreAcquiredOnce == Spec => []AcquiredOnce
<1>1. PipelineInv => AcquiredOnce
  <2> SUFFICES ASSUME PipelineInv, NEW k \in Keys
               PROVE  Cardinality(Acquirers(k)) <= 1 + expiries
    BY DEF AcquiredOnce, Acquirers
  <2>1. Cardinality(Acquirers(k)) <= expiries + 1 /\ expiries \in Nat
    BY PipelineAssumption DEF PipelineInv, AcquiredInv, StateOK
  <2>2. QED
    BY <2>1
<1>2. QED
  BY <1>1, PipelineIsConsistent, PTL
=============================================================================
