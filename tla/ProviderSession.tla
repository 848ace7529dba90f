-------------------------- MODULE ProviderSession --------------------------
(***************************************************************************)
(* GRPCProvider of internal/importjob/provider_grpc.go: sessions that      *)
(* exchange batches with a data provider over a stream, the connections    *)
(* they share, and the service registry they find instances in.  The       *)
(* validation and the apply session run the same loop; applying is the one *)
(* with an effect.                                                         *)
(***************************************************************************)
EXTENDS Integers, Sequences, FiniteSets

CONSTANTS
    Sessions,    \* concurrent runs of Validate or Apply
    Instances,   \* identifiers of provider instances
    Targets,     \* addresses an instance may be reached at
    NumBatches,  \* number of batches of each session
    MaxAttempts, \* provider_client.retry.max_attempts
    MaxMoves,    \* bound on changes of the registry
    NoTarget,    \* the instance is not listed
    NoInstance,  \* the session has not met an instance yet
    NoConn       \* no connection, no stream

ASSUME SessionAssumption ==
    /\ NumBatches \in [Sessions -> Nat] /\ MaxMoves \in Nat
    /\ MaxAttempts \in Nat \ {0}
    /\ NoTarget \notin Targets /\ NoInstance \notin Instances
    /\ NoConn \notin Nat

VARIABLES
    registry, \* discovery: the target of each instance that is listed
    moves,    \* changes of the registry so far
    pool,     \* p.connections: target and connection per instance
    open,     \* connections that were dialed and not closed
    dials,    \* connections dialed so far; a connection is its number
    session,  \* where each session is
    inbox,    \* requests on their way to the provider
    outbox,   \* responses on the session's current stream
    written   \* batches of a session the provider has written

poolVars == <<registry, moves, pool, open, dials>>
wireVars == <<inbox, outbox, written>>
vars == <<registry, moves, pool, open, dials, session, inbox, outbox, written>>

Batches == UNION {1..NumBatches[s] : s \in Sessions}
Entry == [target: Targets, conn: Nat]
NoEntry == [target |-> NoTarget, conn |-> NoConn]

NoPick == [instance |-> NoInstance, target |-> NoTarget]

(* pc is what the session does next; pick is the candidate client took     *)
(* from its listing, conn the connection it returned; opened tells that    *)
(* OpenApply has returned; gen numbers the streams; attempt counts within  *)
(* OpenApply or ApplyBatch; cause, the error it ended with, is history.    *)
Pc == {"pick", "lookup", "undialed", "stream", "send", "recv", "wait",
       "between", "failed", "closed"}
Cause == {"none", "broken", "refused", "closing", "unlisted", "undialed",
          "mismatch", "ended"}
Session ==
    [pc: Pc, opened: BOOLEAN, instance: Instances \cup {NoInstance},
     pick: [instance: Instances, target: Targets] \cup {NoPick},
     conn: Nat \cup {NoConn}, gen: Nat, attempt: 1..MaxAttempts,
     acked: Batches \cup {0}, cause: Cause]

TypeOK ==
    /\ registry \in [Instances -> Targets \cup {NoTarget}]
    /\ moves \in 0..MaxMoves
    /\ pool \in [Instances -> Entry \cup {NoEntry}]
    /\ dials \in Nat
    /\ open \subseteq 1..dials
    /\ session \in [Sessions -> Session]
    /\ inbox \subseteq Sessions \X Nat \X Batches
    /\ outbox \in [Sessions -> Seq(Batches)]
    /\ written \in [Sessions -> SUBSET Batches]

Init ==
    /\ registry = [i \in Instances |-> NoTarget]
    /\ moves = 0
    /\ pool = [i \in Instances |-> NoEntry]
    /\ open = {}
    /\ dials = 0
    /\ session = [s \in Sessions |->
            [pc |-> "pick", opened |-> FALSE, instance |-> NoInstance,
             pick |-> NoPick, conn |-> NoConn, gen |-> 0, attempt |-> 1,
             acked |-> 0, cause |-> "none"]]
    /\ inbox = {}
    /\ outbox = [s \in Sessions |-> <<>>]
    /\ written = [s \in Sessions |-> {}]
-----------------------------------------------------------------------------
(* External: instances come, move to another address and go.               *)
Register(i, t) ==
    /\ moves < MaxMoves
    /\ registry[i] # t
    /\ registry' = [registry EXCEPT ![i] = t]
    /\ moves' = moves + 1
    /\ UNCHANGED <<pool, open, dials, session, wireVars>>

(* External: an instance reported as failed is not listed for a while.     *)
ReportFailure(i) ==
    registry' = IF i = NoInstance THEN registry
                                  ELSE [registry EXCEPT ![i] = NoTarget]

Batch(s) == session[s].acked + 1
To(s, r) == session' = [session EXCEPT ![s] = r]
-----------------------------------------------------------------------------
(* The first half of client takes a candidate from discovery's listing.    *)
Pick(s, i) ==
    /\ session[s].pc = "pick"
    /\ registry[i] # NoTarget
    /\ To(s, [session[s] EXCEPT
            !.pc = "lookup", !.pick = [instance |-> i, target |-> registry[i]]])
    /\ UNCHANGED <<poolVars, wireVars>>

(* The second half, under the mutex: the instance's connection is reused   *)
(* if it leads to the address that was listed, else closed and replaced.   *)
Dialed(i, t) ==
    /\ pool[i].target # t
    /\ dials' = dials + 1
    /\ pool' = [pool EXCEPT ![i] = [target |-> t, conn |-> dials + 1]]

(* Faulty variant: the connection to the old address is forgotten.         *)
LookupKeepsOld(i, t) ==
    \/ pool[i].target = t /\ UNCHANGED <<pool, open, dials>>
    \/ Dialed(i, t) /\ open' = open \cup {dials + 1}

Lookup(i, t) ==
    \/ pool[i].target = t /\ UNCHANGED <<pool, open, dials>>
    \/ Dialed(i, t) /\ open' = (open \ {pool[i].conn}) \cup {dials + 1}

Client(s) ==
    LET c == session[s].pick IN
    /\ session[s].pc = "lookup"
    /\ Lookup(c.instance, c.target)
    /\ To(s, [session[s] EXCEPT !.pc = "stream", !.instance = c.instance,
                                !.pick = NoPick, !.conn = pool'[c.instance].conn])
    /\ UNCHANGED <<registry, moves, wireVars>>

(* The old connection is gone by the time dialing fails.                   *)
DialFails(s) ==
    LET c == session[s].pick IN
    /\ session[s].pc = "lookup"
    /\ pool[c.instance].target # c.target
    /\ open' = open \ {pool[c.instance].conn}
    /\ pool' = [pool EXCEPT ![c.instance] = NoEntry]
    /\ To(s, [session[s] EXCEPT !.pc = "undialed"])
    /\ UNCHANGED <<registry, moves, dials, wireVars>>

(* The second half of reopen.  Another session may have closed the         *)
(* connection since.                                                       *)
OpenStream(s) ==
    LET r == session[s] IN
    /\ r.pc = "stream"
    /\ r.conn \in open
    /\ To(s, [r EXCEPT !.gen = @ + 1, !.opened = TRUE,
                       !.pc = IF r.opened THEN "send" ELSE "between",
                       !.attempt = IF r.opened THEN @ ELSE 1])
    /\ outbox' = [outbox EXCEPT ![s] = <<>>]
    /\ UNCHANGED <<poolVars, inbox, written>>

(* The worker's next batch, on the stream that is open.                    *)
NextBatch(s) ==
    /\ session[s].pc = "between"
    /\ session[s].acked < NumBatches[s]
    /\ To(s, [session[s] EXCEPT !.pc = "send", !.attempt = 1])
    /\ UNCHANGED <<poolVars, wireVars>>

Send(s) ==
    /\ session[s].pc = "send"
    /\ session[s].conn \in open
    /\ inbox' = inbox \cup {<<s, session[s].gen, Batch(s)>>}
    /\ To(s, [session[s] EXCEPT !.pc = "recv"])
    /\ UNCHANGED <<poolVars, outbox, written>>

(* External: the provider writes a batch, once per key, and answers on the *)
(* stream the request came from: once, twice or never.                     *)
Provide(s, g, b) ==
    /\ <<s, g, b>> \in inbox
    /\ inbox' = inbox \ {<<s, g, b>>}
    /\ written' = [written EXCEPT ![s] = @ \cup {b}]
    /\ \/ g = session[s].gen
          /\ \/ outbox' = [outbox EXCEPT ![s] = Append(@, b)]
             \/ outbox' = [outbox EXCEPT ![s] = @ \o <<b, b>>]
       \/ UNCHANGED outbox
    /\ UNCHANGED <<poolVars, session>>
-----------------------------------------------------------------------------
(* Faulty variant: any response will do.                                   *)
MatchesAny(s) == outbox[s] # <<>>

(* The response must name the batch that was sent.                         *)
Matches(s) == Head(outbox[s]) = Batch(s)

Recv(s) ==
    /\ session[s].pc = "recv"
    /\ outbox[s] # <<>>
    /\ outbox' = [outbox EXCEPT ![s] = Tail(@)]
    /\ IF Matches(s)
       THEN /\ To(s, [session[s] EXCEPT !.pc = "between", !.acked = @ + 1])
            /\ UNCHANGED registry
       ELSE /\ To(s, [session[s] EXCEPT !.pc = "failed", !.cause = "mismatch"])
            /\ ReportFailure(session[s].instance)
    /\ UNCHANGED <<moves, pool, open, dials, inbox, written>>

Unlisted == \A i \in Instances : registry[i] = NoTarget

(* The way an attempt fails.  A broken stream has a status worth a retry   *)
(* and a provider may refuse for good.  A connection another session       *)
(* closed answers Canceled (external), or EOF to a Send.  Errors of client *)
(* have no status: no candidate, an address outside the allowed suffixes,  *)
(* a dial that failed.                                                     *)
Fails(s, cause) ==
    LET r == session[s] IN
    \/ cause = "broken" /\ r.pc \in {"stream", "send", "recv"}
    \/ cause = "refused" /\ r.pc \in {"stream", "recv"}
    \/ cause = "closing" /\ r.pc \in {"stream", "recv"} /\ r.conn \notin open
    \/ cause = "unlisted" /\ r.pc = "pick" /\ Unlisted
    \/ cause = "undialed" /\ r.pc \in {"lookup", "undialed"}

(* openProviderSession retries every error, the batch loop those that      *)
(* retryableProviderError accepts.                                         *)
Retryable(s, cause) == ~session[s].opened \/ cause = "broken"

(* The stream is given up, and the session waits before the next attempt.  *)
Retry(s, cause) ==
    /\ Fails(s, cause)
    /\ Retryable(s, cause)
    /\ session[s].attempt < MaxAttempts
    /\ To(s, [session[s] EXCEPT !.pc = "wait", !.pick = NoPick, !.conn = NoConn])
    /\ UNCHANGED <<poolVars, wireVars>>

(* The instance of the last stream is blamed, even for an error of client. *)
GiveUp(s, cause) ==
    /\ Fails(s, cause)
    /\ ~Retryable(s, cause) \/ session[s].attempt = MaxAttempts
    /\ To(s, [session[s] EXCEPT !.pc = "failed", !.cause = cause,
                                !.pick = NoPick, !.conn = NoConn])
    /\ ReportFailure(session[s].instance)
    /\ UNCHANGED <<moves, pool, open, dials, wireVars>>

(* Faulty variant: the same attempt over and over.                         *)
AgainUncounted(s) ==
    /\ session[s].pc = "wait"
    /\ To(s, [session[s] EXCEPT !.pc = "pick"])
    /\ UNCHANGED <<poolVars, wireVars>>

(* waitProviderRetry returned: the next round of the loop reopens.         *)
Again(s) ==
    /\ session[s].pc = "wait"
    /\ To(s, [session[s] EXCEPT !.pc = "pick", !.attempt = @ + 1])
    /\ UNCHANGED <<poolVars, wireVars>>

(* The run's context ends: job_timeout or shutdown.  Calls on the stream   *)
(* fail, and no error is retried; no one is blamed for the end of a wait,  *)
(* unless the deferred Close then finds the stream broken.                 *)
ContextEnds(s) ==
    LET r == session[s] IN
    /\ \/ r.pc \in {"stream", "send", "recv", "wait", "undialed"}
       \/ r.pc = "pick" /\ Unlisted
    /\ To(s, [r EXCEPT !.pc = "failed", !.cause = "ended", !.conn = NoConn, !.pick = NoPick])
    /\ (r.pc = "wait" /\ UNCHANGED registry) \/ ReportFailure(r.instance)
    /\ UNCHANGED <<moves, pool, open, dials, wireVars>>

(* The worker closes the session: the file is at its end, or unreadable.   *)
(* The instance is blamed if the stream cannot be closed any more.         *)
CloseSession(s) ==
    /\ session[s].pc = "between"
    /\ To(s, [session[s] EXCEPT !.pc = "closed", !.conn = NoConn])
    /\ UNCHANGED registry \/ ReportFailure(session[s].instance)
    /\ UNCHANGED <<moves, pool, open, dials, wireVars>>

Over(s) == session[s].pc \in {"failed", "closed"}

(* Close, once the consumers have stopped.                                 *)
Close ==
    /\ \A s \in Sessions : Over(s)
    /\ open # {}
    /\ open' = open \ {pool[i].conn : i \in Instances}
    /\ pool' = [i \in Instances |-> NoEntry]
    /\ UNCHANGED <<registry, moves, dials, session, wireVars>>
-----------------------------------------------------------------------------
Step(s) ==
    \/ \E i \in Instances : Pick(s, i)
    \/ Client(s) \/ DialFails(s) \/ OpenStream(s) \/ NextBatch(s) \/ Send(s) \/ Recv(s)
    \/ \E cause \in Cause : Retry(s, cause) \/ GiveUp(s, cause)
    \/ Again(s) \/ ContextEnds(s) \/ CloseSession(s)

Next ==
    \/ \E s \in Sessions : Step(s)
    \/ \E s \in Sessions, b \in Batches :
            \E g \in 1..session[s].gen : Provide(s, g, b)
    \/ \E i \in Instances, t \in Targets \cup {NoTarget} : Register(i, t)
    \/ Close

Spec == Init /\ [][Next]_vars

(* A session is a running goroutine whose context has a deadline.          *)
FairSpec == Spec /\ \A s \in Sessions : WF_vars(Step(s))
-----------------------------------------------------------------------------
(* The connection map holds the connections that are open and no other,    *)
(* though listings are read before the mutex is taken and dials fail: none *)
(* is left behind when an instance moves, no session is given a dead one.  *)
PoolIsOpen ==
    open = {pool[i].conn : i \in {k \in Instances : pool[k] # NoEntry}}

(* Sessions keep the promise the worker relies on, through lost streams,   *)
(* replayed batches, late writes and answers given twice.                  *)
Exchange == INSTANCE BatchExchange WITH
    acked <- [s \in Sessions |-> session[s].acked],
    wrote <- written,
    over <- [s \in Sessions |-> Over(s)]

ExchangeSpec == Exchange!Spec

(* Every session ends, whatever the registry and the provider do.          *)
SessionEnds == \A s \in Sessions : <>Over(s)

(* README on the provider stream: when an instance is withdrawn, the       *)
(* connection is rebuilt and the batch replayed as provider_client.retry   *)
(* says, so no batch fails for that reason with attempts left.             *)
WithdrawnIsRetried ==
    \A s \in Sessions :
        session[s].cause \in {"unlisted", "closing"} =>
            session[s].attempt = MaxAttempts
=============================================================================
