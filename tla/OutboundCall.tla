---------------------------- MODULE OutboundCall ----------------------------
(***************************************************************************)
(* Unary calls to other services: the retrying HTTP client of              *)
(* internal/outbound and the interceptors of internal/grpcclient, several  *)
(* calls sharing one circuit breaker.  The order is breaker, retry: the    *)
(* breaker sees a call with all its attempts as one.  gRPC has one         *)
(* deadline for all attempts, HTTP a timeout for each.                     *)
(***************************************************************************)
EXTENDS Integers, FiniteSets

CONSTANTS
    Calls,        \* calls of one client
    Transports,   \* the clients considered: "http", "grpc"
    Inputs,       \* what is called, see below
    MaxAttempts,  \* retry.max_attempts
    Threshold,    \* breaker.failure_threshold
    MaxOpenings   \* bound on the times the breaker may open

ASSUME CallAssumption ==
    /\ MaxAttempts \in 1..5 /\ Threshold \in Nat \ {0} /\ MaxOpenings \in Nat
    /\ Transports \subseteq {"http", "grpc"}
    /\ Inputs \subseteq [safe: BOOLEAN, keyed: BOOLEAN]

(* Of an input, safe: GET, HEAD, OPTIONS, PUT, DELETE or a method in       *)
(* retry.methods; keyed: the context has an idempotency key.  gRPC sends   *)
(* it as metadata; HTTP sends only the headers its caller passes, and      *)
(* takes the key of the context for a promise of the caller's.             *)
(*                                                                         *)
(* What an attempt comes to: an answer; 429, 502..504 or Unavailable,      *)
(* ResourceExhausted; an error of the transport or a deadline; another     *)
(* status of gRPC; the caller gave up.  "late": the deadline was over      *)
(* between two attempts.                                                   *)
Outcome == {"answer", "busy", "error", "denied", "canceled"}
Result == Outcome \cup {"none", "rejected", "late"}

VARIABLES
    transport, \* the kind of client
    call,      \* per call: input, stage, attempts sent, responses, result
    breaker,   \* gobreaker's state ("none": disabled), generation, failures, probe
    blamed     \* calls the breaker counted as failures since the last success

vars == <<transport, call, breaker, blamed>>

Stages == {"idle", "admit", "send", "await", "backoff", "settle", "over"}

(* held: response bodies that are neither closed nor handed on.            *)
TypeOK ==
    /\ transport \in Transports
    /\ call \in [Calls -> [in: Inputs, stage: Stages, sent: 0..MaxAttempts, held: 0..1,
                           given: BOOLEAN, result: Result, gen: 0..2 * MaxOpenings]]
    /\ breaker \in [state: {"none", "closed", "open", "half-open"}, gen: 0..2 * MaxOpenings,
                    failures: 0..Threshold, probing: BOOLEAN, openings: 0..MaxOpenings]
    /\ blamed \subseteq Calls

Init ==
    /\ transport \in Transports
    /\ call \in [Calls -> [in: Inputs, stage: {"idle"}, sent: {0}, held: {0},
                           given: {FALSE}, result: {"none"}, gen: {0}]]
    /\ breaker \in [state: {"none", "closed"}, gen: {0}, failures: {0}, probing: {FALSE},
                    openings: {0}]
    /\ blamed = {}
-----------------------------------------------------------------------------
Set(c, f) == call' = [call EXCEPT ![c] = f] /\ UNCHANGED transport

Begin(c) ==
    /\ call[c].stage = "idle"
    /\ Set(c, [call[c] EXCEPT !.stage = "admit"])
    /\ UNCHANGED <<breaker, blamed>>

(* breaker.Execute, external: an open breaker and one whose probe is out   *)
(* reject the call.  A client without a breaker sends every call.          *)
Admit(c) ==
    LET refuses == breaker.state = "open" \/ breaker.probing IN
    /\ call[c].stage = "admit"
    /\ \/ /\ refuses
          /\ Set(c, [call[c] EXCEPT !.stage = "over", !.result = "rejected"])
          /\ UNCHANGED breaker
       \/ /\ ~refuses
          /\ Set(c, [call[c] EXCEPT !.stage = "send", !.gen = breaker.gen])
          /\ breaker' = [breaker EXCEPT !.probing = breaker.state = "half-open"]
    /\ UNCHANGED blamed

Send(c) ==
    /\ call[c].stage = "send"
    /\ Set(c, [call[c] EXCEPT !.stage = "await", !.sent = @ + 1])
    /\ UNCHANGED <<breaker, blamed>>

(* Faulty variant: every method is repeated.                               *)
AttemptsAll(c) == MaxAttempts

(* retryableMethod, retryGRPCMethod.                                       *)
Attempts(c) == IF call[c].in.safe \/ call[c].in.keyed THEN MaxAttempts ELSE 1

(* HTTP repeats after any error too, gRPC after two status codes only.     *)
Repeats(c, outcome) ==
    /\ call[c].sent < Attempts(c)
    /\ \/ outcome = "busy"
       \/ transport = "http" /\ outcome \in {"error", "canceled"}

(* An HTTP response has a body, whatever its status.                       *)
HasBody(c, outcome) ==
    IF transport = "http" /\ outcome \in {"answer", "busy"} THEN 1 ELSE 0

(* Faulty variant: the body of a response is left open before a retry.     *)
KeptOpen(c, outcome) == HasBody(c, outcome)

(* The body of a response that is not returned is drained and closed.      *)
Kept(c, outcome) == 0

(* The attempt ends: its outcome is returned, or waits for the next one.   *)
Receive(c, outcome) ==
    /\ call[c].stage = "await"
    /\ outcome = "denied" => transport = "grpc"
    /\ IF Repeats(c, outcome)
       THEN Set(c, [call[c] EXCEPT !.stage = "backoff", !.held = @ + Kept(c, outcome)])
       ELSE Set(c, [call[c] EXCEPT !.stage = "settle", !.result = outcome,
                                   !.held = @ + HasBody(c, outcome)])
    /\ UNCHANGED <<breaker, blamed>>

(* waitBackoff, waitRetry: the delay, unless the caller's context is over. *)
Backoff(c) ==
    /\ call[c].stage = "backoff"
    /\ \/ Set(c, [call[c] EXCEPT !.stage = "send"])
       \/ \E why \in {"late", "canceled"} :
            Set(c, [call[c] EXCEPT !.stage = "settle", !.result = why])
    /\ UNCHANGED <<breaker, blamed>>
-----------------------------------------------------------------------------
(* Faulty variant: a caller that gave up counts against the upstream.      *)
IsExcludedNever(c) == FALSE

(* IsExcluded: results that say nothing about the upstream.  For HTTP only *)
(* a cancellation; for gRPC every code but Unavailable, ResourceExhausted  *)
(* and DeadlineExceeded: OK, and the plain error of a deadline in          *)
(* waitRetry, too.                                                         *)
IsExcluded(c) ==
    \/ call[c].result = "canceled"
    \/ transport = "grpc" /\ call[c].result \in {"denied", "late", "answer"}

ReadyToTrip(failures) == failures >= Threshold

(* A success or a failure as gobreaker counts it (external).               *)
Counted(c) ==
    LET failed == call[c].result # "answer"
        opens == breaker.state = "half-open" \/ ReadyToTrip(breaker.failures + 1)
    IN
    \/ /\ failed /\ opens
       /\ breaker.openings < MaxOpenings
       /\ breaker' = [state |-> "open", gen |-> breaker.gen + 1, failures |-> 0,
                      probing |-> FALSE, openings |-> breaker.openings + 1]
       /\ blamed' = blamed \cup {c}
    \/ /\ failed /\ ~opens
       /\ breaker' = [breaker EXCEPT !.failures = @ + 1]
       /\ blamed' = blamed \cup {c}
    \/ /\ ~failed
       /\ breaker' = [breaker EXCEPT !.failures = 0, !.probing = FALSE, !.state = "closed"]
       /\ blamed' = {}

(* The breaker, if there is one that has not changed its mind meanwhile.   *)
Hears(c) == breaker.state # "none" /\ call[c].gen = breaker.gen

(* The breaker hears of the result, and execute hands the response to the  *)
(* caller, a busy one included.  Whether gobreaker asks IsExcluded about a *)
(* success is left open.                                                   *)
Settle(c) ==
    /\ call[c].stage = "settle"
    /\ Set(c, [call[c] EXCEPT !.stage = "over", !.held = 0, !.given = call[c].held = 1])
    /\ \/ ~Hears(c) /\ UNCHANGED <<breaker, blamed>>
       \/ /\ Hears(c) /\ IsExcluded(c)
          /\ breaker' = [breaker EXCEPT !.probing = FALSE]
          /\ UNCHANGED blamed
       \/ /\ Hears(c)
          /\ ~IsExcluded(c) \/ call[c].result = "answer"
          /\ Counted(c)

(* External: open_timeout is over.                                         *)
HalfOpen ==
    /\ breaker.state = "open"
    /\ breaker' = [breaker EXCEPT !.state = "half-open", !.gen = @ + 1]
    /\ UNCHANGED <<transport, call, blamed>>
-----------------------------------------------------------------------------
Step(c) ==
    \/ Admit(c) \/ Send(c) \/ Backoff(c) \/ Settle(c)
    \/ \E outcome \in Outcome : Receive(c, outcome)

Next == HalfOpen \/ \E c \in Calls : Begin(c) \/ Step(c)

Spec == Init /\ [][Next]_vars
-----------------------------------------------------------------------------
(* A call that is neither safe to repeat nor keyed by its caller reaches   *)
(* the upstream at most once, whatever went wrong.  Over gRPC the upstream *)
(* sees the key of a keyed one; over HTTP it does not, unless the caller   *)
(* passes it as a header too, so there the key is no protection by itself. *)
UnsafeIsSentOnce ==
    \A c \in Calls : ~call[c].in.safe /\ ~call[c].in.keyed => call[c].sent <= 1

(* No response body is lost: between two attempts none is open, and when   *)
(* the call is over the caller has the only one that is.                   *)
BodiesAreAccounted ==
    \A c \in Calls :
        /\ call[c].stage \in {"backoff", "send", "await"} => call[c].held = 0
        /\ call[c].stage = "over" =>
               call[c].given = (/\ transport = "http"
                                /\ call[c].result \in {"answer", "busy"})

(* Callers that give up do not cut the others off from the upstream: a     *)
(* failure the breaker counts is one of the upstream or of the network.    *)
(* Late results of other kinds, from a generation that is over, are kept   *)
(* out by Hears, which this does not show.                                 *)
CancelIsNoFailure == \A c \in blamed : call[c].result # "canceled"
=============================================================================
