----------------------- MODULE ProviderSessionProofs -----------------------
(***************************************************************************)
(* Proofs about the provider client: the connection map, and the promise   *)
(* of BatchExchange, for every number of sessions, instances, batches and  *)
(* attempts and every behaviour of the registry and the provider.          *)
(***************************************************************************)
EXTENDS ProviderSession, SequenceTheorems, TLAPS

(* Where a session is tells what it holds: a candidate, an open stream, a  *)
(* batch that is left to acknowledge, an attempt that is left.             *)
InPlace(s, r) ==
    /\ r.pc = "lookup" => r.pick # NoPick
    /\ r.pc \in {"between", "send", "recv"} => r.opened
    /\ r.pc = "wait" => r.attempt < MaxAttempts
    /\ r.opened /\ r.pc \in {"wait", "pick", "lookup", "undialed", "stream", "send", "recv"}
           => r.acked < NumBatches[s]

SessionPart ==
    /\ session \in [Sessions -> Session]
    /\ \A s \in Sessions : InPlace(s, session[s])

(* What was acknowledged, or answered, is written; no request is ahead of  *)
(* the batch its session is at.                                            *)
WirePart ==
    /\ inbox \subseteq Sessions \X Nat \X Batches
    /\ outbox \in [Sessions -> Seq(Batches)]
    /\ written \in [Sessions -> SUBSET Batches]
    /\ \A s \in Sessions : 1..session[s].acked \subseteq written[s]
    /\ \A m \in inbox : m[3] <= session[m[1]].acked + 1
    /\ \A s \in Sessions : \A n \in 1..Len(outbox[s]) : outbox[s][n] \in written[s]

(* Two instances never share a connection.                                 *)
PoolPart ==
    /\ registry \in [Instances -> Targets \cup {NoTarget}]
    /\ moves \in 0..MaxMoves
    /\ pool \in [Instances -> Entry \cup {NoEntry}]
    /\ dials \in Nat
    /\ open \subseteq 1..dials
    /\ PoolIsOpen
    /\ \A i, k \in Instances : pool[i] # NoEntry /\ pool[k] # NoEntry /\ i # k
           => pool[i].conn # pool[k].conn

SessionsInv == PoolPart /\ SessionPart /\ WirePart

(* What a step looks like to the worker.                                   *)
ExchangeStep == [Exchange!Next]_(Exchange!exchangeVars)
-----------------------------------------------------------------------------
(* Batches are numbered from one.                                          *)
LEMMA BatchNumbers ==
    /\ Batches \subseteq Nat \ {0}
    /\ \A s \in Sessions : 1..NumBatches[s] \subseteq Batches
<1>1. \A s \in Sessions : NumBatches[s] \in Nat
  BY SessionAssumption
<1>2. QED
  BY <1>1 DEF Batches

(* Acknowledgements are counted.                                           *)
LEMMA AckedIsNumber ==
    ASSUME SessionsInv, NEW s \in Sessions
    PROVE  session[s].acked \in Nat
<1>1. session[s].acked \in Batches \cup {0}
  BY DEF SessionsInv, SessionPart, Session
<1>2. \A b \in Batches \cup {0} : b \in Nat
  BY BatchNumbers
<1>3. QED
  BY <1>1, <1>2, Zenon

(* A session moves, the others stay.                                       *)
LEMMA ToMoves ==
    ASSUME SessionPart, NEW s \in Sessions, NEW q \in Session, InPlace(s, q), To(s, q)
    PROVE  /\ SessionPart'
           /\ session'[s] = q
           /\ \A o \in Sessions \ {s} : session'[o] = session[o]
<1>1. /\ session' \in [Sessions -> Session] /\ session'[s] = q
      /\ \A o \in Sessions \ {s} : session'[o] = session[o]
  BY DEF SessionPart, To
<1>2. \A o \in Sessions : InPlace(o, session'[o])
  BY <1>1 DEF SessionPart
<1>3. QED
  BY <1>1, <1>2 DEF SessionPart, InPlace

(* The wire, when no session has moved to another batch.                   *)
LEMMA WireKept ==
    ASSUME WirePart, UNCHANGED wireVars, SessionPart,
           \A s \in Sessions : session'[s].acked = session[s].acked
    PROVE  WirePart'
<1>1. \A m \in inbox : m[1] \in Sessions
  BY DEF WirePart
<1>2. QED
  BY <1>1 DEF WirePart, wireVars

(* The pool, when no connection is made or closed.                         *)
LEMMA PoolKept ==
    ASSUME PoolPart, UNCHANGED <<pool, open, dials>>,
           registry' \in [Instances -> Targets \cup {NoTarget}], moves' \in 0..MaxMoves
    PROVE  PoolPart'
  BY DEF PoolPart, PoolIsOpen

(* A session moves within its batch: to the worker nothing happens, or the *)
(* session ends.                                                           *)
LEMMA Turn ==
    ASSUME SessionsInv, NEW s \in Sessions, NEW q \in Session, InPlace(s, q), To(s, q),
           ~Over(s), q.acked = session[s].acked, written' = written,
           PoolPart', WirePart'
    PROVE  SessionsInv' /\ ExchangeStep
<1>1. /\ SessionPart' /\ session'[s] = q
      /\ \A o \in Sessions \ {s} : session'[o] = session[o]
  BY ToMoves DEF SessionsInv
<1>2. [o \in Sessions |-> session'[o].acked] = [o \in Sessions |-> session[o].acked]
  BY <1>1
<1>3. \A o \in Sessions \ {s} : Over(o)' = Over(o)
  BY <1>1 DEF Over
<1>4. CASE q.pc \in {"failed", "closed"}
  <2>1. Over(s)'
    BY <1>1, <1>4 DEF Over
  <2>2. [o \in Sessions |-> Over(o)'] = [[o \in Sessions |-> Over(o)] EXCEPT ![s] = TRUE]
    <3>1. \A o \in Sessions : Over(o)' = IF o = s THEN TRUE ELSE Over(o)
      BY <1>3, <2>1, Zenon
    <3>2. QED
      BY <3>1, Zenon
  <2>3. Exchange!End(s)
    BY <1>2, <2>2 DEF Exchange!End
  <2>4. QED
    BY <1>1, <2>3 DEF SessionsInv, ExchangeStep, Exchange!Next
<1>5. CASE q.pc \notin {"failed", "closed"}
  <2>1. ~Over(s)'
    BY <1>1, <1>5 DEF Over
  <2>2. [o \in Sessions |-> Over(o)'] = [o \in Sessions |-> Over(o)]
    <3>1. Over(s)' = Over(s)
      BY <2>1 DEF Over
    <3>2. \A o \in Sessions : Over(o)' = Over(o)
      BY <1>3, <3>1, Zenon
    <3>3. QED
      BY <3>2, Zenon
  <2>3. UNCHANGED Exchange!exchangeVars
    BY <1>2, <2>2 DEF Exchange!exchangeVars
  <2>4. QED
    BY <1>1, <2>3 DEF SessionsInv, ExchangeStep
<1>6. QED
  BY <1>4, <1>5

(* A report changes the registry only.                                     *)
LEMMA ReportTypes ==
    ASSUME PoolPart, NEW i, ReportFailure(i)
    PROVE  registry' \in [Instances -> Targets \cup {NoTarget}]
  BY DEF PoolPart, ReportFailure

(* A candidate is taken from the listing.                                  *)
LEMMA PickKeeps ==
    ASSUME SessionsInv, NEW s \in Sessions, NEW i \in Instances, Pick(s, i)
    PROVE  SessionsInv' /\ ExchangeStep
<1> DEFINE c == [instance |-> i, target |-> registry[i]]
           q == [session[s] EXCEPT !.pc = "lookup", !.pick = c]
<1>1. /\ session[s] \in Session /\ InPlace(s, session[s]) /\ session[s].pc = "pick"
      /\ registry[i] \in Targets /\ UNCHANGED <<poolVars, wireVars>> /\ To(s, q)
  BY DEF SessionsInv, SessionPart, PoolPart, Pick
<1>2. c \in [instance: Instances, target: Targets] /\ c # NoPick
  BY <1>1, SessionAssumption DEF NoPick
<1>3. q \in Session
  <2>1. "lookup" \in Pc /\ c \in [instance: Instances, target: Targets] \cup {NoPick}
    BY <1>2 DEF Pc
  <2> HIDE DEF c
  <2>2. QED
    BY <1>1, <2>1, Zenon DEF Session
<1>4. /\ q.pc = "lookup" /\ q.pick = c /\ q.acked = session[s].acked
      /\ q.opened = session[s].opened
  BY <1>1 DEF Session
<1> HIDE DEF q
<1>5. InPlace(s, q)
  BY <1>1, <1>2, <1>4 DEF InPlace
<1>6. \A o \in Sessions : session'[o].acked = session[o].acked
  BY <1>1, <1>3, <1>4, <1>5, ToMoves DEF SessionsInv
<1>7. PoolPart' /\ WirePart' /\ written' = written /\ ~Over(s)
  BY <1>1, <1>6, WireKept DEF SessionsInv, PoolPart, PoolIsOpen, poolVars, wireVars, Over
<1>8. QED
  BY <1>1, <1>3, <1>4, <1>5, <1>7, Turn

(* The pool after an instance's connection was replaced, or closed.        *)
LEMMA PoolReplaced ==
    ASSUME PoolPart, NEW i \in Instances, NEW e \in Entry \cup {NoEntry},
           pool' = [pool EXCEPT ![i] = e], UNCHANGED <<registry, moves>>,
           \/ e = NoEntry /\ dials' = dials /\ open' = open \ {pool[i].conn}
           \/ /\ e \in Entry /\ e.conn = dials + 1 /\ dials' = dials + 1
              /\ open' = (open \ {pool[i].conn}) \cup {dials + 1}
    PROVE  PoolPart'
<1>1. /\ pool' \in [Instances -> Entry \cup {NoEntry}] /\ pool'[i] = e
      /\ \A k \in Instances \ {i} : pool'[k] = pool[k]
  BY DEF PoolPart
<1>2. dials \in Nat /\ dials' \in Nat /\ dials' >= dials /\ open \subseteq 1..dials
  BY DEF PoolPart
<1>3. NoEntry.conn = NoConn /\ NoConn \notin Nat /\ NoEntry \notin Entry
  BY SessionAssumption DEF NoEntry, Entry
<1>4. \A k \in Instances : pool[k] # NoEntry => pool[k].conn \in open
  BY DEF PoolPart, PoolIsOpen
<1>5. open' \subseteq 1..dials'
  <2>1. CASE dials' = dials /\ open' = open \ {pool[i].conn}
    BY <1>2, <2>1
  <2>2. CASE dials' = dials + 1 /\ open' = (open \ {pool[i].conn}) \cup {dials + 1}
    <3>1. \A x \in 1..dials : x \in 1..(dials + 1)
      BY <1>2
    <3>2. dials + 1 \in 1..(dials + 1)
      BY <1>2
    <3>3. QED
      BY <1>2, <2>2, <3>1, <3>2, Zenon
  <2>3. QED
    BY <2>1, <2>2
<1>6. PoolIsOpen'
  <2> DEFINE Conns == {pool[k].conn : k \in {l \in Instances : pool[l] # NoEntry}}
             Rest == {pool[k].conn : k \in {l \in Instances \ {i} : pool[l] # NoEntry}}
  <2>1. open = Conns
    BY DEF PoolPart, PoolIsOpen
  <2>2. open \ {pool[i].conn} = Rest
    <3>1. \A k \in Instances \ {i} : pool[k] # NoEntry => pool[k].conn # pool[i].conn
      <4> SUFFICES ASSUME NEW k \in Instances \ {i}, pool[k] # NoEntry
                   PROVE  pool[k].conn # pool[i].conn
        OBVIOUS
      <4>1. CASE pool[i] # NoEntry
        <5>1. \A a, b \in Instances : pool[a] # NoEntry /\ pool[b] # NoEntry /\ a # b
                  => pool[a].conn # pool[b].conn
          BY DEF PoolPart
        <5>2. QED
          BY <4>1, <5>1
      <4>2. CASE pool[i] = NoEntry
        <5>1. pool[k].conn \in open
          BY <1>4
        <5>2. \A x \in open : x \in Nat
          BY <1>2
        <5>3. pool[i].conn \notin Nat
          BY <1>3, <4>2
        <5>4. QED
          BY <5>1, <5>2, <5>3
      <4>3. QED
        BY <4>1, <4>2
    <3>2. \A x \in open : x # pool[i].conn => x \in Rest
      BY <2>1
    <3>3. \A x \in Rest : x \in open /\ x # pool[i].conn
      BY <2>1, <3>1
    <3>4. QED
      BY <3>2, <3>3
  <2>3. {pool'[k].conn : k \in {l \in Instances : pool'[l] # NoEntry}}
           = Rest \cup (IF e = NoEntry THEN {} ELSE {e.conn})
    <3> DEFINE After == {pool'[k].conn : k \in {l \in Instances : pool'[l] # NoEntry}}
    <3>1. \A x \in After : x \in Rest \/ (e # NoEntry /\ x = e.conn)
      BY <1>1
    <3>2. \A x \in Rest : x \in After
      BY <1>1
    <3>3. e # NoEntry => e.conn \in After
      BY <1>1
    <3>4. QED
      BY <3>1, <3>2, <3>3
  <2>4. open' = Rest \cup (IF e = NoEntry THEN {} ELSE {e.conn})
    BY <1>3, <2>2
  <2>5. QED
    BY <2>3, <2>4 DEF PoolIsOpen
<1>7. ASSUME NEW k \in Instances, NEW l \in Instances,
             pool'[k] # NoEntry, pool'[l] # NoEntry, k # l
      PROVE  pool'[k].conn # pool'[l].conn
  <2>1. \A o \in Instances : pool[o] # NoEntry => pool[o].conn # dials + 1
    BY <1>2, <1>4
  <2>2. CASE k # i /\ l # i
    BY <1>1, <1>7, <2>2 DEF PoolPart
  <2>3. CASE k = i \/ l = i
    BY <1>1, <1>7, <2>1, <2>3
  <2>4. QED
    BY <2>2, <2>3
<1>8. QED
  BY <1>1, <1>2, <1>5, <1>6, <1>7 DEF PoolPart

(* A session moves within its batch, and touches neither a connection nor  *)
(* the wire.                                                               *)
LEMMA QuietTurn ==
    ASSUME SessionsInv, NEW s \in Sessions, NEW q \in Session, InPlace(s, q), To(s, q),
           ~Over(s), q.acked = session[s].acked,
           UNCHANGED <<moves, pool, open, dials, wireVars>>,
           registry' \in [Instances -> Targets \cup {NoTarget}]
    PROVE  SessionsInv' /\ ExchangeStep
<1>1. \A o \in Sessions : session'[o].acked = session[o].acked
  BY ToMoves DEF SessionsInv
<1>2. WirePart' /\ written' = written
  BY <1>1, WireKept DEF SessionsInv, wireVars
<1>3. PoolPart'
  BY PoolKept DEF SessionsInv, PoolPart
<1>4. QED
  BY <1>2, <1>3, Turn

(* The failure of an attempt: the session waits, or gives up.              *)
LEMMA RetryKeeps ==
    ASSUME SessionsInv, NEW s \in Sessions, NEW cause \in Cause,
           Retry(s, cause) \/ GiveUp(s, cause)
    PROVE  SessionsInv' /\ ExchangeStep
<1>1. /\ session[s] \in Session /\ InPlace(s, session[s])
      /\ registry \in [Instances -> Targets \cup {NoTarget}]
  BY DEF SessionsInv, SessionPart, PoolPart
<1>2. ~Over(s) /\ session[s].pc \in {"stream", "send", "recv", "pick", "lookup", "undialed"}
  BY DEF Retry, GiveUp, Fails, Over
<1>3. NoPick \in [instance: Instances, target: Targets] \cup {NoPick}
      /\ NoConn \in Nat \cup {NoConn} /\ "wait" \in Pc /\ "failed" \in Pc
  BY DEF Pc
<1>4. CASE Retry(s, cause)
  <2> DEFINE q == [session[s] EXCEPT !.pc = "wait", !.pick = NoPick, !.conn = NoConn]
  <2>1. To(s, q) /\ UNCHANGED <<poolVars, wireVars>> /\ session[s].attempt < MaxAttempts
    BY <1>4 DEF Retry
  <2>2. q \in Session
    BY <1>1, <1>3, Zenon DEF Session
  <2>3. /\ q.pc = "wait" /\ q.acked = session[s].acked
        /\ q.opened = session[s].opened /\ q.attempt = session[s].attempt
    BY <1>1 DEF Session
  <2> HIDE DEF q
  <2>4. InPlace(s, q)
    BY <1>1, <1>2, <2>1, <2>3 DEF InPlace
  <2>5. UNCHANGED <<moves, pool, open, dials, wireVars>> /\ registry' = registry
    BY <2>1 DEF poolVars
  <2>6. QED
    BY <1>1, <1>2, <2>1, <2>2, <2>3, <2>4, <2>5, QuietTurn
<1>5. CASE GiveUp(s, cause)
  <2> DEFINE q == [session[s] EXCEPT !.pc = "failed", !.cause = cause,
                                     !.pick = NoPick, !.conn = NoConn]
  <2>1. /\ To(s, q) /\ UNCHANGED <<moves, pool, open, dials, wireVars>>
        /\ ReportFailure(session[s].instance)
    BY <1>5 DEF GiveUp
  <2>2. q \in Session
    BY <1>1, <1>3, Zenon DEF Session
  <2>3. q.pc = "failed" /\ q.acked = session[s].acked
    BY <1>1 DEF Session
  <2> HIDE DEF q
  <2>4. InPlace(s, q)
    BY <2>3 DEF InPlace
  <2>5. registry' \in [Instances -> Targets \cup {NoTarget}]
    BY <2>1, ReportTypes DEF SessionsInv
  <2>6. QED
    BY <1>2, <2>1, <2>2, <2>3, <2>4, <2>5, QuietTurn
<1>6. QED
  BY <1>4, <1>5

(* The next batch, or the next attempt.                                    *)
LEMMA NextTry ==
    ASSUME SessionsInv, NEW s \in Sessions, NextBatch(s) \/ Again(s)
    PROVE  SessionsInv' /\ ExchangeStep
<1>1. /\ session[s] \in Session /\ InPlace(s, session[s])
      /\ registry \in [Instances -> Targets \cup {NoTarget}]
  BY DEF SessionsInv, SessionPart, PoolPart
<1>2. UNCHANGED <<poolVars, wireVars>> /\ ~Over(s)
  BY DEF NextBatch, Again, Over
<1>3. UNCHANGED <<moves, pool, open, dials, wireVars>> /\ registry' = registry
  BY <1>2 DEF poolVars
<1>4. MaxAttempts \in Nat \ {0} /\ 1 \in 1..MaxAttempts
  BY SessionAssumption
<1>5. CASE NextBatch(s)
  <2> DEFINE q == [session[s] EXCEPT !.pc = "send", !.attempt = 1]
  <2>1. To(s, q) /\ session[s].acked < NumBatches[s] /\ session[s].pc = "between"
    BY <1>5 DEF NextBatch
  <2>2. q \in Session
    <3>1. "send" \in Pc
      BY DEF Pc
    <3>2. QED
      BY <1>1, <1>4, <3>1, Zenon DEF Session
  <2>3. /\ q.pc = "send" /\ q.acked = session[s].acked /\ q.opened = session[s].opened
    BY <1>1 DEF Session
  <2> HIDE DEF q
  <2>4. InPlace(s, q)
    BY <1>1, <2>1, <2>3 DEF InPlace
  <2>5. QED
    BY <1>1, <1>2, <1>3, <2>1, <2>2, <2>3, <2>4, QuietTurn
<1>6. CASE Again(s)
  <2> DEFINE n == session[s].attempt + 1
             q == [session[s] EXCEPT !.pc = "pick", !.attempt = n]
  <2>1. To(s, q) /\ session[s].pc = "wait"
    BY <1>6 DEF Again
  <2>2. n \in 1..MaxAttempts
    BY <1>1, <1>4, <2>1 DEF InPlace, Session
  <2>3. q \in Session
    <3>1. "pick" \in Pc
      BY DEF Pc
    <3> HIDE DEF n
    <3>2. QED
      BY <1>1, <2>2, <3>1, Zenon DEF Session
  <2>4. /\ q.pc = "pick" /\ q.acked = session[s].acked /\ q.opened = session[s].opened
    BY <1>1 DEF Session
  <2> HIDE DEF q
  <2>5. InPlace(s, q)
    BY <1>1, <2>1, <2>4 DEF InPlace
  <2>6. QED
    BY <1>1, <1>2, <1>3, <2>1, <2>3, <2>4, <2>5, QuietTurn
<1>7. QED
  BY <1>5, <1>6

(* The end of a session: its context is over, or the worker closes it.     *)
LEMMA EndKeeps ==
    ASSUME SessionsInv, NEW s \in Sessions, ContextEnds(s) \/ CloseSession(s)
    PROVE  SessionsInv' /\ ExchangeStep
<1>1. /\ session[s] \in Session /\ InPlace(s, session[s])
      /\ registry \in [Instances -> Targets \cup {NoTarget}]
  BY DEF SessionsInv, SessionPart, PoolPart
<1>2. ~Over(s) /\ UNCHANGED <<moves, pool, open, dials, wireVars>>
  BY DEF ContextEnds, CloseSession, Over, poolVars
<1>3. /\ NoPick \in [instance: Instances, target: Targets] \cup {NoPick}
      /\ NoConn \in Nat \cup {NoConn}
      /\ "failed" \in Pc /\ "closed" \in Pc /\ "ended" \in Cause
  BY DEF Pc, Cause
<1>4. CASE ContextEnds(s)
  <2> DEFINE q == [session[s] EXCEPT !.pc = "failed", !.cause = "ended",
                                     !.conn = NoConn, !.pick = NoPick]
  <2>1. To(s, q) /\ (registry' = registry \/ ReportFailure(session[s].instance))
    BY <1>4 DEF ContextEnds
  <2>2. q \in Session
    BY <1>1, <1>3, Zenon DEF Session
  <2>3. q.pc = "failed" /\ q.acked = session[s].acked
    BY <1>1 DEF Session
  <2> HIDE DEF q
  <2>4. InPlace(s, q)
    BY <2>3 DEF InPlace
  <2>5. registry' \in [Instances -> Targets \cup {NoTarget}]
    BY <1>1, <2>1, ReportTypes DEF SessionsInv
  <2>6. QED
    BY <1>2, <2>1, <2>2, <2>3, <2>4, <2>5, QuietTurn
<1>5. CASE CloseSession(s)
  <2> DEFINE q == [session[s] EXCEPT !.pc = "closed", !.conn = NoConn]
  <2>1. To(s, q) /\ (registry' = registry \/ ReportFailure(session[s].instance))
    BY <1>5 DEF CloseSession
  <2>2. q \in Session
    BY <1>1, <1>3, Zenon DEF Session
  <2>3. q.pc = "closed" /\ q.acked = session[s].acked
    BY <1>1 DEF Session
  <2> HIDE DEF q
  <2>4. InPlace(s, q)
    BY <2>3 DEF InPlace
  <2>5. registry' \in [Instances -> Targets \cup {NoTarget}]
    BY <1>1, <2>1, ReportTypes DEF SessionsInv
  <2>6. QED
    BY <1>2, <2>1, <2>2, <2>3, <2>4, <2>5, QuietTurn
<1>6. QED
  BY <1>4, <1>5

(* The session's connection is looked up: reused, or dialed anew.          *)
LEMMA ClientKeeps ==
    ASSUME SessionsInv, NEW s \in Sessions, Client(s)
    PROVE  SessionsInv' /\ ExchangeStep
<1> DEFINE c == session[s].pick
           n == pool'[c.instance].conn
           q == [session[s] EXCEPT !.pc = "stream", !.instance = c.instance,
                                   !.pick = NoPick, !.conn = n]
<1>1. /\ session[s] \in Session /\ InPlace(s, session[s]) /\ session[s].pc = "lookup"
      /\ PoolPart /\ Lookup(c.instance, c.target) /\ To(s, q)
      /\ UNCHANGED <<registry, moves, wireVars>> /\ ~Over(s)
  BY DEF SessionsInv, SessionPart, Client, Over
<1>2. c \in [instance: Instances, target: Targets]
  BY <1>1 DEF InPlace, Session
<1>3. /\ c.instance \in Instances /\ c.target \in Targets /\ c.target # NoTarget
      /\ c.instance \in Instances \cup {NoInstance}
  BY <1>2, SessionAssumption
<1>4. PoolPart' /\ n \in Nat \cup {NoConn}
  <2>1. PICK i \in Instances, t \in Targets : i = c.instance /\ t = c.target
    BY <1>3
  <2>2. Lookup(i, t) /\ i \in Instances /\ t # NoTarget /\ dials \in Nat
        /\ pool \in [Instances -> Entry \cup {NoEntry}]
    BY <1>1, <1>3, <2>1 DEF PoolPart
  <2>3. CASE UNCHANGED <<pool, open, dials>>
    <3>1. PoolPart'
      BY <1>1, <2>3, PoolKept DEF PoolPart
    <3>2. QED
      BY <2>1, <2>2, <2>3, <3>1 DEF Entry, NoEntry
  <2>4. CASE Dialed(i, t) /\ open' = (open \ {pool[i].conn}) \cup {dials + 1}
    <3> DEFINE e == [target |-> t, conn |-> dials + 1]
    <3>1. e \in Entry /\ e.conn = dials + 1
      BY <2>1, <2>2 DEF Entry
    <3>2. pool' = [pool EXCEPT ![i] = e] /\ dials' = dials + 1
      BY <2>4 DEF Dialed
    <3> HIDE DEF e
    <3>3. PoolPart'
      BY <1>1, <2>2, <2>4, <3>1, <3>2, PoolReplaced
    <3>4. QED
      BY <2>1, <2>2, <3>1, <3>2, <3>3
  <2>5. QED
    BY <2>2, <2>3, <2>4 DEF Lookup
<1>5. "stream" \in Pc /\ NoPick \in [instance: Instances, target: Targets] \cup {NoPick}
  BY DEF Pc
<1>6. q \in Session
  <2>1. PICK i \in Instances \cup {NoInstance} : i = c.instance
    BY <1>3
  <2>2. PICK m \in Nat \cup {NoConn} : m = n
    BY <1>4
  <2>3. q = [session[s] EXCEPT !.pc = "stream", !.instance = i, !.pick = NoPick, !.conn = m]
    BY <2>1, <2>2
  <2> HIDE DEF q, n, c
  <2>4. QED
    BY <1>1, <1>5, <2>1, <2>2, <2>3, Zenon DEF Session
<1>7. /\ q.pc = "stream" /\ q.acked = session[s].acked /\ q.opened = session[s].opened
  BY <1>1 DEF Session
<1> HIDE DEF q
<1>8. InPlace(s, q)
  BY <1>1, <1>7 DEF InPlace
<1>9. \A o \in Sessions : session'[o].acked = session[o].acked
  BY <1>1, <1>6, <1>7, <1>8, ToMoves DEF SessionsInv
<1>10. WirePart' /\ written' = written
  BY <1>1, <1>9, WireKept DEF SessionsInv, wireVars
<1>11. QED
  BY <1>1, <1>4, <1>6, <1>7, <1>8, <1>10, Turn

(* Dialing failed, and the instance's old connection is closed.            *)
LEMMA DialFailsKeeps ==
    ASSUME SessionsInv, NEW s \in Sessions, DialFails(s)
    PROVE  SessionsInv' /\ ExchangeStep
<1> DEFINE c == session[s].pick
           q == [session[s] EXCEPT !.pc = "undialed"]
<1>1. /\ session[s] \in Session /\ InPlace(s, session[s]) /\ session[s].pc = "lookup"
      /\ PoolPart /\ To(s, q) /\ ~Over(s)
      /\ UNCHANGED <<registry, moves, dials, wireVars>>
  BY DEF SessionsInv, SessionPart, DialFails, Over
<1>2. c \in [instance: Instances, target: Targets]
  BY <1>1 DEF InPlace, Session
<1>3. PoolPart'
  <2>1. PICK i \in Instances : i = c.instance
    BY <1>2
  <2>2. pool' = [pool EXCEPT ![i] = NoEntry] /\ open' = open \ {pool[i].conn}
    BY <2>1 DEF DialFails
  <2>3. UNCHANGED <<registry, moves>> /\ dials' = dials
    BY <1>1
  <2>4. QED
    BY <1>1, <2>1, <2>2, <2>3, PoolReplaced
<1>4. q \in Session
  <2>1. "undialed" \in Pc
    BY DEF Pc
  <2>2. QED
    BY <1>1, <2>1, Zenon DEF Session
<1>5. /\ q.pc = "undialed" /\ q.acked = session[s].acked /\ q.opened = session[s].opened
  BY <1>1 DEF Session
<1> HIDE DEF q
<1>6. InPlace(s, q)
  BY <1>1, <1>5 DEF InPlace
<1>7. \A o \in Sessions : session'[o].acked = session[o].acked
  BY <1>1, <1>4, <1>5, <1>6, ToMoves DEF SessionsInv
<1>8. WirePart' /\ written' = written
  BY <1>1, <1>7, WireKept DEF SessionsInv, wireVars
<1>9. QED
  BY <1>1, <1>3, <1>4, <1>5, <1>6, <1>8, Turn

(* A new stream holds no answers.                                          *)
LEMMA OpenKeeps ==
    ASSUME SessionsInv, NEW s \in Sessions, OpenStream(s)
    PROVE  SessionsInv' /\ ExchangeStep
<1> DEFINE g == session[s].gen + 1
           p == IF session[s].opened THEN "send" ELSE "between"
           a == IF session[s].opened THEN session[s].attempt ELSE 1
           q == [session[s] EXCEPT !.gen = g, !.opened = TRUE, !.pc = p, !.attempt = a]
<1>1. /\ session[s] \in Session /\ InPlace(s, session[s]) /\ session[s].pc = "stream"
      /\ To(s, q) /\ ~Over(s) /\ outbox' = [outbox EXCEPT ![s] = <<>>]
      /\ UNCHANGED <<poolVars, inbox, written>>
  BY DEF SessionsInv, SessionPart, OpenStream, Over
<1>2. g \in Nat /\ p \in Pc /\ TRUE \in BOOLEAN
  BY <1>1 DEF Session, Pc
<1>3. a \in 1..MaxAttempts
  BY <1>1, SessionAssumption DEF Session
<1>4. q \in Session
  <2> HIDE DEF g, p, a
  <2>1. QED
    BY <1>1, <1>2, <1>3, Zenon DEF Session
<1>5. q.pc = p /\ q.acked = session[s].acked /\ q.opened = TRUE
  BY <1>1 DEF Session
<1> HIDE DEF q
<1>6. InPlace(s, q)
  BY <1>1, <1>5 DEF InPlace
<1>7. \A o \in Sessions : session'[o].acked = session[o].acked
  BY <1>1, <1>4, <1>5, <1>6, ToMoves DEF SessionsInv
<1>8. /\ outbox' \in [Sessions -> Seq(Batches)] /\ outbox'[s] = <<>>
      /\ \A o \in Sessions \ {s} : outbox'[o] = outbox[o]
  BY <1>1 DEF SessionsInv, WirePart
<1>9. WirePart'
  <2>1. \A m \in inbox : m[1] \in Sessions
    BY DEF SessionsInv, WirePart
  <2>2. \A o \in Sessions : \A n \in 1..Len(outbox'[o]) : outbox'[o][n] \in written[o]
    BY <1>8 DEF SessionsInv, WirePart
  <2>3. QED
    BY <1>1, <1>7, <1>8, <2>1, <2>2 DEF SessionsInv, WirePart
<1>10. PoolPart'
  BY <1>1, PoolKept DEF SessionsInv, PoolPart, poolVars
<1>11. QED
  BY <1>1, <1>4, <1>5, <1>6, <1>9, <1>10, Turn

(* The batch that is sent is the one after the last acknowledged.          *)
LEMMA SendKeeps ==
    ASSUME SessionsInv, NEW s \in Sessions, Send(s)
    PROVE  SessionsInv' /\ ExchangeStep
<1> DEFINE q == [session[s] EXCEPT !.pc = "recv"]
           m == <<s, session[s].gen, Batch(s)>>
<1>1. /\ session[s] \in Session /\ InPlace(s, session[s]) /\ session[s].pc = "send"
      /\ To(s, q) /\ ~Over(s) /\ inbox' = inbox \cup {m}
      /\ UNCHANGED <<poolVars, outbox, written>>
  BY DEF SessionsInv, SessionPart, Send, Over
<1>2. q \in Session
  <2>1. "recv" \in Pc
    BY DEF Pc
  <2>2. QED
    BY <1>1, <2>1, Zenon DEF Session
<1>3. q.pc = "recv" /\ q.acked = session[s].acked /\ q.opened = session[s].opened
  BY <1>1 DEF Session
<1> HIDE DEF q
<1>4. InPlace(s, q)
  BY <1>1, <1>3 DEF InPlace
<1>5. \A o \in Sessions : session'[o].acked = session[o].acked
  BY <1>1, <1>2, <1>3, <1>4, ToMoves DEF SessionsInv
<1>6. Batch(s) \in Batches /\ Batch(s) = session[s].acked + 1
  <2>1. session[s].acked \in Nat /\ session[s].acked < NumBatches[s]
    BY <1>1, AckedIsNumber DEF InPlace
  <2>2. NumBatches[s] \in Nat
    BY SessionAssumption
  <2>3. session[s].acked + 1 \in 1..NumBatches[s]
    BY <2>1, <2>2
  <2>4. QED
    BY <2>3, BatchNumbers DEF Batch
<1>7. m \in Sessions \X Nat \X Batches /\ m[1] = s /\ m[3] = session[s].acked + 1
  BY <1>1, <1>6 DEF Session
<1> HIDE DEF m
<1>8. WirePart'
  <2>1. inbox' \subseteq Sessions \X Nat \X Batches
    BY <1>1, <1>7, Zenon DEF SessionsInv, WirePart
  <2>2. \A r \in inbox : r[1] \in Sessions /\ r[3] <= session[r[1]].acked + 1
    BY DEF SessionsInv, WirePart
  <2>3. m[3] <= session[m[1]].acked + 1
    <3>1. session[s].acked + 1 \in Nat
      BY AckedIsNumber
    <3>2. QED
      BY <1>7, <3>1
  <2>4. \A r \in inbox' : r[3] <= session'[r[1]].acked + 1
    BY <1>1, <1>5, <1>7, <2>2, <2>3
  <2>5. QED
    BY <1>1, <1>5, <2>1, <2>4 DEF SessionsInv, WirePart
<1>9. PoolPart'
  BY <1>1, PoolKept DEF SessionsInv, PoolPart, poolVars
<1>10. QED
  BY <1>1, <1>2, <1>3, <1>4, <1>8, <1>9, Turn

(* The first answer is taken from the stream.                              *)
LEMMA TailOfAnswers ==
    ASSUME WirePart, NEW s \in Sessions, outbox[s] # <<>>,
           outbox' = [outbox EXCEPT ![s] = Tail(@)]
    PROVE  /\ outbox' \in [Sessions -> Seq(Batches)]
           /\ Head(outbox[s]) \in written[s]
           /\ \A o \in Sessions : \A n \in 1..Len(outbox'[o]) : outbox'[o][n] \in written[o]
<1>1. /\ outbox \in [Sessions -> Seq(Batches)] /\ outbox[s] \in Seq(Batches)
      /\ \A o \in Sessions : \A n \in 1..Len(outbox[o]) : outbox[o][n] \in written[o]
  BY DEF WirePart
<1>2. /\ Tail(outbox[s]) \in Seq(Batches) /\ Len(Tail(outbox[s])) = Len(outbox[s]) - 1
      /\ Len(outbox[s]) \in Nat \ {0}
      /\ \A n \in 1..Len(Tail(outbox[s])) : Tail(outbox[s])[n] = outbox[s][n + 1]
      /\ Head(outbox[s]) = outbox[s][1]
  BY <1>1
<1>3. /\ outbox' \in [Sessions -> Seq(Batches)] /\ outbox'[s] = Tail(outbox[s])
      /\ \A o \in Sessions \ {s} : outbox'[o] = outbox[o]
  BY <1>1, <1>2
<1>4. \A n \in 1..Len(Tail(outbox[s])) : n + 1 \in 1..Len(outbox[s])
  BY <1>2
<1>5. \A n \in 1..Len(outbox'[s]) : outbox'[s][n] \in written[s]
  BY <1>1, <1>2, <1>3, <1>4
<1>6. Head(outbox[s]) \in written[s]
  BY <1>1, <1>2
<1>7. QED
  BY <1>1, <1>3, <1>5, <1>6

(* An answer that names the batch acknowledges it, any other ends the      *)
(* session.                                                                *)
LEMMA RecvKeeps ==
    ASSUME SessionsInv, NEW s \in Sessions, Recv(s)
    PROVE  SessionsInv' /\ ExchangeStep
<1>1. /\ session[s] \in Session /\ InPlace(s, session[s]) /\ session[s].pc = "recv"
      /\ ~Over(s) /\ UNCHANGED <<moves, pool, open, dials, inbox, written>>
      /\ outbox[s] # <<>> /\ outbox' = [outbox EXCEPT ![s] = Tail(@)]
  BY DEF SessionsInv, SessionPart, Recv, Over
<1>2. /\ outbox' \in [Sessions -> Seq(Batches)] /\ Head(outbox[s]) \in written[s]
      /\ \A o \in Sessions : \A n \in 1..Len(outbox'[o]) : outbox'[o][n] \in written[o]
  BY <1>1, TailOfAnswers DEF SessionsInv
<1>3. \A m \in inbox : m[1] \in Sessions /\ m[3] <= session[m[1]].acked + 1
  BY DEF SessionsInv, WirePart
<1>4. CASE Matches(s)
  <2> DEFINE k == session[s].acked + 1
             q == [session[s] EXCEPT !.pc = "between", !.acked = k]
  <2>1. To(s, q) /\ registry' = registry
    BY <1>4 DEF Recv
  <2>2. k \in written[s] /\ written[s] \subseteq Batches
    BY <1>2, <1>4 DEF Matches, Batch, SessionsInv, WirePart
  <2>3. k \in Batches \cup {0} /\ "between" \in Pc
    BY <2>2 DEF Pc
  <2>4. q \in Session
    <3> HIDE DEF k
    <3>1. QED
      BY <1>1, <2>3, Zenon DEF Session
  <2>5. q.pc = "between" /\ q.acked = k /\ q.opened = session[s].opened
    BY <1>1 DEF Session
  <2> HIDE DEF q
  <2>6. InPlace(s, q)
    BY <1>1, <2>5 DEF InPlace
  <2>7. /\ SessionPart' /\ session'[s] = q
        /\ \A o \in Sessions \ {s} : session'[o] = session[o]
    BY <2>1, <2>4, <2>6, ToMoves DEF SessionsInv
  <2>8. session[s].acked \in Nat
    BY AckedIsNumber
  <2>9. \A m \in inbox : m[3] <= session'[m[1]].acked + 1
    <3> SUFFICES ASSUME NEW m \in inbox
                 PROVE  m[3] <= session'[m[1]].acked + 1
      OBVIOUS
    <3>1. m[3] \in Nat
      <4>1. m[3] \in Batches
        BY DEF SessionsInv, WirePart
      <4>2. QED
        BY <4>1, BatchNumbers
    <3>2. CASE m[1] = s
      BY <1>3, <2>5, <2>7, <2>8, <3>1, <3>2
    <3>3. CASE m[1] # s
      BY <1>3, <2>7, <3>3
    <3>4. QED
      BY <3>2, <3>3
  <2>10. \A o \in Sessions : 1..session'[o].acked \subseteq written[o]
    <3>1. 1..k \subseteq written[s]
      <4>1. 1..session[s].acked \subseteq written[s]
        BY DEF SessionsInv, WirePart
      <4>2. \A x \in 1..k : x \in 1..session[s].acked \/ x = k
        BY <2>8
      <4>3. QED
        BY <2>2, <4>1, <4>2
    <3> HIDE DEF k
    <3>2. QED
      BY <2>5, <2>7, <3>1 DEF SessionsInv, WirePart
  <2>11. WirePart'
    BY <1>1, <1>2, <2>9, <2>10 DEF SessionsInv, WirePart
  <2>12. PoolPart'
    BY <1>1, <2>1, PoolKept DEF SessionsInv, PoolPart
  <2>13. Exchange!Acknowledge(s)
    <3>1. [o \in Sessions |-> session'[o].acked]
             = [[o \in Sessions |-> session[o].acked] EXCEPT ![s] = @ + 1]
      BY <2>5, <2>7
    <3>2. \A o \in Sessions : Over(o)' = Over(o)
      <4>1. ~Over(s)'
        BY <2>5, <2>7 DEF Over
      <4>2. Over(s)' = Over(s)
        BY <1>1, <4>1 DEF Over
      <4>3. \A o \in Sessions \ {s} : Over(o)' = Over(o)
        BY <2>7 DEF Over
      <4>4. QED
        BY <4>2, <4>3, Zenon
    <3>3. [o \in Sessions |-> Over(o)'] = [o \in Sessions |-> Over(o)]
      BY <3>2, Zenon
    <3>4. QED
      BY <1>1, <2>2, <3>1, <3>3 DEF Exchange!Acknowledge
  <2>14. QED
    BY <2>7, <2>11, <2>12, <2>13 DEF SessionsInv, ExchangeStep, Exchange!Next
<1>5. CASE ~Matches(s)
  <2> DEFINE q == [session[s] EXCEPT !.pc = "failed", !.cause = "mismatch"]
  <2>1. To(s, q) /\ ReportFailure(session[s].instance)
    BY <1>5 DEF Recv
  <2>2. q \in Session
    <3>1. "failed" \in Pc /\ "mismatch" \in Cause
      BY DEF Pc, Cause
    <3>2. QED
      BY <1>1, <3>1, Zenon DEF Session
  <2>3. q.pc = "failed" /\ q.acked = session[s].acked
    BY <1>1 DEF Session
  <2> HIDE DEF q
  <2>4. InPlace(s, q)
    BY <2>3 DEF InPlace
  <2>5. \A o \in Sessions : session'[o].acked = session[o].acked
    BY <2>1, <2>2, <2>3, <2>4, ToMoves DEF SessionsInv
  <2>6. WirePart'
    BY <1>1, <1>2, <1>3, <2>5 DEF SessionsInv, WirePart
  <2>7. PoolPart'
    BY <1>1, <2>1, ReportTypes, PoolKept DEF SessionsInv, PoolPart
  <2>8. QED
    BY <1>1, <2>1, <2>2, <2>3, <2>4, <2>6, <2>7, Turn
<1>6. QED
  BY <1>4, <1>5

(* What the provider answers, once or twice, it has written.               *)
LEMMA AnswersAreWritten ==
    ASSUME NEW W, NEW t \in Seq(Batches), NEW b \in Batches, b \in W,
           \A n \in 1..Len(t) : t[n] \in W
    PROVE  /\ Append(t, b) \in Seq(Batches) /\ t \o <<b, b>> \in Seq(Batches)
           /\ \A n \in 1..Len(Append(t, b)) : Append(t, b)[n] \in W
           /\ \A n \in 1..Len(t \o <<b, b>>) : (t \o <<b, b>>)[n] \in W
<1>1. Append(t, b) \in Seq(Batches) /\ Len(Append(t, b)) = Len(t) + 1 /\ Len(t) \in Nat
  OBVIOUS
<1>2. \A n \in 1..Len(Append(t, b)) : Append(t, b)[n] \in W
  <2>1. \A n \in 1..(Len(t) + 1) : Append(t, b)[n] = IF n = Len(t) + 1 THEN b ELSE t[n]
    OBVIOUS
  <2>2. \A n \in 1..(Len(t) + 1) : n = Len(t) + 1 \/ n \in 1..Len(t)
    BY <1>1
  <2>3. QED
    BY <1>1, <2>1, <2>2
<1>3. <<b, b>> \in Seq(Batches) /\ Len(<<b, b>>) = 2
  OBVIOUS
<1>4. /\ t \o <<b, b>> \in Seq(Batches) /\ Len(t \o <<b, b>>) = Len(t) + 2
  BY <1>3
<1>5. \A n \in 1..Len(t \o <<b, b>>) : (t \o <<b, b>>)[n] \in W
  <2>1. \A n \in 1..Len(t) : (t \o <<b, b>>)[n] = t[n]
    BY <1>3
  <2>2. (t \o <<b, b>>)[Len(t) + 1] = b /\ (t \o <<b, b>>)[Len(t) + 2] = b
    BY <1>1, <1>3
  <2>3. \A n \in 1..(Len(t) + 2) :
            n \in 1..Len(t) \/ n = Len(t) + 1 \/ n = Len(t) + 2
    BY <1>1
  <2>4. QED
    BY <1>4, <2>1, <2>2, <2>3
<1>6. QED
  BY <1>1, <1>2, <1>4, <1>5

(* The provider writes the batch in hand, or repeats one it has written:   *)
(* no request is ahead of its session.                                     *)
LEMMA ProvideKeeps ==
    ASSUME SessionsInv, NEW s \in Sessions, NEW b \in Batches, NEW g, Provide(s, g, b)
    PROVE  SessionsInv' /\ ExchangeStep
<1>1. /\ <<s, g, b>> \in inbox /\ inbox' = inbox \ {<<s, g, b>>}
      /\ written' = [written EXCEPT ![s] = @ \cup {b}]
      /\ UNCHANGED <<poolVars, session>>
  BY DEF Provide
<1>2. /\ written \in [Sessions -> SUBSET Batches] /\ outbox \in [Sessions -> Seq(Batches)]
      /\ \A o \in Sessions : 1..session[o].acked \subseteq written[o]
      /\ \A o \in Sessions : \A n \in 1..Len(outbox[o]) : outbox[o][n] \in written[o]
  BY DEF SessionsInv, WirePart
<1>3. /\ written' \in [Sessions -> SUBSET Batches] /\ written'[s] = written[s] \cup {b}
      /\ \A o \in Sessions \ {s} : written'[o] = written[o]
  BY <1>1, <1>2
<1>4. \A o \in Sessions : written[o] \subseteq written'[o]
  BY <1>3
<1>5. /\ outbox' \in [Sessions -> Seq(Batches)]
      /\ \A o \in Sessions : \A n \in 1..Len(outbox'[o]) : outbox'[o][n] \in written'[o]
  <2> DEFINE t == outbox[s]
  <2>1. t \in Seq(Batches) /\ b \in written'[s]
        /\ \A n \in 1..Len(t) : t[n] \in written'[s]
    BY <1>2, <1>3, <1>4
  <2>2. \A o \in Sessions : \A n \in 1..Len(outbox[o]) : outbox[o][n] \in written'[o]
    BY <1>2, <1>4
  <2>3. PICK u \in {t, Append(t, b), t \o <<b, b>>} : outbox' = [outbox EXCEPT ![s] = u]
    BY <1>2 DEF Provide
  <2>4. u \in Seq(Batches) /\ \A n \in 1..Len(u) : u[n] \in written'[s]
    <3> HIDE DEF t
    <3>1. /\ Append(t, b) \in Seq(Batches) /\ t \o <<b, b>> \in Seq(Batches)
          /\ \A n \in 1..Len(Append(t, b)) : Append(t, b)[n] \in written'[s]
          /\ \A n \in 1..Len(t \o <<b, b>>) : (t \o <<b, b>>)[n] \in written'[s]
      BY <2>1, AnswersAreWritten
    <3>2. u = t \/ u = Append(t, b) \/ u = t \o <<b, b>>
      BY <2>3
    <3>3. QED
      BY <2>1, <3>1, <3>2, Zenon
  <2>5. /\ outbox' \in [Sessions -> Seq(Batches)] /\ outbox'[s] = u
        /\ \A o \in Sessions \ {s} : outbox'[o] = outbox[o]
    BY <1>2, <2>3, <2>4
  <2>6. QED
    BY <2>2, <2>4, <2>5
<1>6. WirePart'
  <2>1. inbox' \subseteq inbox
    BY <1>1
  <2>2. \A o \in Sessions : 1..session[o].acked \subseteq written'[o]
    BY <1>2, <1>4
  <2>3. QED
    BY <1>1, <1>3, <1>5, <2>1, <2>2 DEF SessionsInv, WirePart
<1>7. PoolPart' /\ SessionPart'
  BY <1>1, PoolKept DEF SessionsInv, PoolPart, SessionPart, InPlace, poolVars
<1>8. ExchangeStep
  <2>1. \A o \in Sessions : Over(o)' = Over(o)
    BY <1>1 DEF Over
  <2>2. [o \in Sessions |-> Over(o)'] = [o \in Sessions |-> Over(o)]
    BY <2>1, Zenon
  <2>3. [o \in Sessions |-> session'[o].acked] = [o \in Sessions |-> session[o].acked]
    BY <1>1
  <2>4. session[s].acked \in Nat /\ b \in Nat \ {0}
    BY AckedIsNumber, BatchNumbers
  <2>5. b <= session[s].acked + 1
    BY <1>1 DEF SessionsInv, WirePart
  <2>6. CASE b <= session[s].acked
    <3>1. b \in 1..session[s].acked
      BY <2>4, <2>6
    <3>2. b \in written[s]
      BY <1>2, <3>1
    <3>3. written' = written
      BY <1>1, <1>2, <3>2
    <3>4. QED
      BY <2>2, <2>3, <3>3 DEF ExchangeStep, Exchange!exchangeVars
  <2>7. CASE ~(b <= session[s].acked)
    <3>1. b = session[s].acked + 1
      BY <2>4, <2>5, <2>7
    <3>2. Exchange!Write(s)
      BY <1>1, <2>2, <2>3, <3>1 DEF Exchange!Write
    <3>3. QED
      BY <3>2 DEF ExchangeStep, Exchange!Next
  <2>8. QED
    BY <2>6, <2>7
<1>9. QED
  BY <1>6, <1>7, <1>8 DEF SessionsInv

(* The registry changes, or the client is closed: no session moves.        *)
LEMMA OutsideKeeps ==
    ASSUME SessionsInv,
           \/ \E i \in Instances, t \in Targets \cup {NoTarget} : Register(i, t)
           \/ Close
    PROVE  SessionsInv' /\ ExchangeStep
<1>1. UNCHANGED <<session, wireVars>>
  BY DEF Register, Close
<1>2. WirePart' /\ SessionPart' /\ written' = written
  BY <1>1 DEF SessionsInv, WirePart, SessionPart, InPlace, wireVars
<1>3. ExchangeStep
  <2>1. \A o \in Sessions : Over(o)' = Over(o)
    BY <1>1 DEF Over
  <2>2. [o \in Sessions |-> Over(o)'] = [o \in Sessions |-> Over(o)]
    BY <2>1, Zenon
  <2>3. [o \in Sessions |-> session'[o].acked] = [o \in Sessions |-> session[o].acked]
    BY <1>1
  <2>4. QED
    BY <1>2, <2>2, <2>3 DEF ExchangeStep, Exchange!exchangeVars
<1>4. PoolPart'
  <2>1. ASSUME NEW i \in Instances, NEW t \in Targets \cup {NoTarget}, Register(i, t)
        PROVE  PoolPart'
    <3>1. UNCHANGED <<pool, open, dials>>
      BY <2>1 DEF Register
    <3>2. registry' \in [Instances -> Targets \cup {NoTarget}]
      BY <2>1 DEF Register, SessionsInv, PoolPart
    <3>3. moves' \in 0..MaxMoves
      BY <2>1, SessionAssumption DEF Register, SessionsInv, PoolPart
    <3>4. QED
      BY <3>1, <3>2, <3>3, PoolKept DEF SessionsInv
  <2>2. CASE Close
    <3>1. /\ pool' = [i \in Instances |-> NoEntry] /\ UNCHANGED <<registry, moves, dials>>
          /\ open' = open \ {pool[i].conn : i \in Instances}
      BY <2>2 DEF Close
    <3>2. open' = {}
      <4>1. open \subseteq {pool[i].conn : i \in Instances}
        BY DEF SessionsInv, PoolPart, PoolIsOpen
      <4>2. QED
        BY <3>1, <4>1
    <3>3. \A i \in Instances : pool'[i] = NoEntry
      BY <3>1
    <3>4. PoolIsOpen'
      BY <3>2, <3>3 DEF PoolIsOpen
    <3>5. QED
      BY <3>1, <3>2, <3>3, <3>4 DEF SessionsInv, PoolPart
  <2>3. QED
    BY <2>1, <2>2
<1>5. QED
  BY <1>2, <1>3, <1>4 DEF SessionsInv

(* The client starts with no connection and no batch sent.                 *)
LEMMA SessionsStart ==
    ASSUME Init
    PROVE  SessionsInv /\ Exchange!Init
<1> DEFINE q == [pc |-> "pick", opened |-> FALSE, instance |-> NoInstance,
                 pick |-> NoPick, conn |-> NoConn, gen |-> 0, attempt |-> 1,
                 acked |-> 0, cause |-> "none"]
<1>1. MaxAttempts \in Nat \ {0} /\ MaxMoves \in Nat
  BY SessionAssumption
<1>2. q \in Session
  <2>1. /\ 1 \in 1..MaxAttempts /\ "pick" \in Pc /\ "none" \in Cause
        /\ 0 \in Batches \cup {0} /\ 0 \in Nat /\ FALSE \in BOOLEAN
        /\ NoInstance \in Instances \cup {NoInstance} /\ NoConn \in Nat \cup {NoConn}
        /\ NoPick \in [instance: Instances, target: Targets] \cup {NoPick}
    BY <1>1 DEF Pc, Cause
  <2>2. QED
    BY <2>1, Zenon DEF Session
<1>3. /\ q.pc = "pick" /\ q.opened = FALSE /\ q.acked = 0
      /\ session = [s \in Sessions |-> q]
  BY DEF Init
<1> HIDE DEF q
<1>4. SessionPart
  BY <1>2, <1>3 DEF SessionPart, InPlace
<1>5. WirePart
  <2>1. \A s \in Sessions : session[s].acked = 0
    BY <1>3
  <2>2. inbox = {} /\ outbox = [s \in Sessions |-> <<>>] /\ written = [s \in Sessions |-> {}]
    BY DEF Init
  <2>3. QED
    BY <2>1, <2>2 DEF WirePart
<1>6. PoolPart
  <2>1. /\ registry = [i \in Instances |-> NoTarget] /\ moves = 0 /\ open = {} /\ dials = 0
        /\ pool = [i \in Instances |-> NoEntry]
    BY DEF Init
  <2>2. PoolIsOpen
    BY <2>1 DEF PoolIsOpen
  <2>3. QED
    BY <1>1, <2>1, <2>2 DEF PoolPart
<1>7. Exchange!Init
  <2>1. \A s \in Sessions : session[s].acked = 0 /\ ~Over(s)
    BY <1>3 DEF Over
  <2>2. [s \in Sessions |-> Over(s)] = [s \in Sessions |-> FALSE]
    <3>1. \A s \in Sessions : Over(s) = FALSE
      BY <2>1 DEF Over
    <3>2. QED
      BY <3>1, Zenon
  <2>3. [s \in Sessions |-> session[s].acked] = [s \in Sessions |-> 0]
    BY <2>1
  <2>4. written = [s \in Sessions |-> {}]
    BY DEF Init
  <2>5. QED
    BY <2>2, <2>3, <2>4 DEF Exchange!Init
<1>8. QED
  BY <1>4, <1>5, <1>6, <1>7 DEF SessionsInv

(* Every step keeps the invariant and is a step of the exchange, or none.  *)
LEMMA SessionsStep ==
    ASSUME SessionsInv, [Next]_vars
    PROVE  SessionsInv' /\ ExchangeStep
<1>1. ASSUME NEW s \in Sessions, Step(s)
      PROVE  SessionsInv' /\ ExchangeStep
  BY <1>1, PickKeeps, ClientKeeps, DialFailsKeeps, OpenKeeps, NextTry, SendKeeps,
     RecvKeeps, RetryKeeps, EndKeeps DEF Step
<1>2. ASSUME NEW s \in Sessions, NEW b \in Batches,
             \E g \in 1..session[s].gen : Provide(s, g, b)
      PROVE  SessionsInv' /\ ExchangeStep
  BY <1>2, ProvideKeeps
<1>3. CASE UNCHANGED vars
  <2>1. \A o \in Sessions : Over(o)' = Over(o)
    BY <1>3 DEF Over, vars
  <2>2. [o \in Sessions |-> Over(o)'] = [o \in Sessions |-> Over(o)]
    BY <2>1, Zenon
  <2>3. [o \in Sessions |-> session'[o].acked] = [o \in Sessions |-> session[o].acked]
    BY <1>3 DEF vars
  <2>4. ExchangeStep
    BY <1>3, <2>2, <2>3 DEF ExchangeStep, Exchange!exchangeVars, vars
  <2>5. SessionsInv'
    BY <1>3 DEF SessionsInv, PoolPart, PoolIsOpen, WirePart, SessionPart, InPlace, vars
  <2>6. QED
    BY <2>4, <2>5
<1>4. QED
  BY <1>1, <1>2, <1>3, OutsideKeeps DEF Next
-----------------------------------------------------------------------------
(* Connections, sessions and the wire stay consistent, whatever streams,   *)
(* instances and the provider do (client, reopen and the batch loops of    *)
(* provider_grpc.go).                                                      *)
THEOREM SessionsAreConsistent == Spec => []SessionsInv
<1>1. Init => SessionsInv
  BY SessionsStart
<1>2. SessionsInv /\ [Next]_vars => SessionsInv'
  BY SessionsStep
<1>3. QED
  BY <1>1, <1>2, PTL DEF Spec

(* The connection map holds exactly the connections that are open, though  *)
(* a session acts on a listing it read before it took the mutex.           *)
THEOREM NoConnectionLeaks == Spec => []PoolIsOpen
<1>1. SessionsInv => PoolIsOpen
  BY DEF SessionsInv, PoolPart
<1>2. QED
  BY <1>1, SessionsAreConsistent, PTL

(* The provider client implements the exchange the worker relies on: a     *)
(* batch acknowledged by ApplyBatch was written, batches are acknowledged  *)
(* in order, and at most the batch in hand was written beyond them.        *)
THEOREM SessionsImplementExchange == Spec => ExchangeSpec
<1>1. Init => Exchange!Init
  BY SessionsStart
<1>2. SessionsInv /\ [Next]_vars => [Exchange!Next]_(Exchange!exchangeVars)
  BY SessionsStep DEF ExchangeStep
<1>3. QED
  BY <1>1, <1>2, SessionsAreConsistent, PTL DEF Spec, ExchangeSpec, Exchange!Spec
=============================================================================
