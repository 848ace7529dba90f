------------------------ MODULE OutboundCallProofs ------------------------
(***************************************************************************)
(* Proofs about calls to other services, for every set of calls, every     *)
(* number of attempts and every breaker threshold.                         *)
(***************************************************************************)
EXTENDS OutboundCall, TLAPS

(* Where a call is tells how many attempts were sent, and whose hand the   *)
(* body of a response is in.                                               *)
SentSoFar(c) ==
    /\ call[c].sent <= Attempts(c)
    /\ call[c].stage \in {"idle", "admit"} => call[c].sent = 0
    /\ call[c].stage \in {"send", "backoff"} => call[c].sent < Attempts(c)

ReturnsBody(c) == transport = "http" /\ call[c].result \in {"answer", "busy"}

BodyInHand(c) ==
    /\ call[c].stage \notin {"settle", "over"} => call[c].held = 0
    /\ call[c].stage # "over" => ~call[c].given
    /\ call[c].stage = "settle" => call[c].held = HasBody(c, call[c].result)
    /\ call[c].stage = "over" /\ ReturnsBody(c) => call[c].given
    /\ call[c].stage = "over" /\ call[c].given => ReturnsBody(c)

(* The breaker blames calls that are over, for what their result is.       *)
BlameIsFinal ==
    \A c \in blamed : call[c].stage = "over" /\ call[c].result # "canceled"

(* Two generations for every time the breaker opened, but the last one has *)
(* no second half yet while it is open; the calls it let through before    *)
(* are of an earlier one then.                                             *)
Generations ==
    /\ breaker.state = "open" => breaker.gen = 2 * breaker.openings - 1
    /\ breaker.state # "open" => breaker.gen = 2 * breaker.openings
    /\ \A c \in Calls : /\ call[c].gen <= breaker.gen
                        /\ breaker.state = "open" => call[c].gen # breaker.gen

CallInv ==
    /\ TypeOK
    /\ \A c \in Calls : SentSoFar(c) /\ BodyInHand(c)
    /\ BlameIsFinal
    /\ Generations
-----------------------------------------------------------------------------
Call == [in: Inputs, stage: Stages, sent: 0..MaxAttempts, held: 0..1,
         given: BOOLEAN, result: Result, gen: 0..2 * MaxOpenings]

(* What a step of call c does to the calls.                                *)
Steps(c, f) ==
    /\ call' = [call EXCEPT ![c] = f]
    /\ call'[c] = f
    /\ \A d \in Calls \ {c} : call'[d] = call[d]
    /\ UNCHANGED transport

(* Set replaces the record of one call.                                    *)
LEMMA SetSteps ==
    ASSUME TypeOK, NEW c \in Calls, NEW f, Set(c, f)
    PROVE  Steps(c, f)
  BY DEF TypeOK, Set, Steps

(* Attempts are at least one, at most the configured number.               *)
LEMMA AttemptsBounds ==
    ASSUME NEW c \in Calls
    PROVE  Attempts(c) \in 1..MaxAttempts /\ MaxAttempts \in Nat
  BY CallAssumption DEF Attempts

(* It is enough to look at the call that moves, if the breaker keeps its   *)
(* own account and blames no other call.                                   *)
LEMMA OneCallMoves ==
    ASSUME CallInv, NEW c \in Calls, NEW f \in Call, Steps(c, f),
           f.in = call[c].in, call[c].stage # "over",
           SentSoFar(c)', BodyInHand(c)',
           blamed' = blamed
    PROVE  /\ call' \in [Calls -> Call]
           /\ \A d \in Calls : SentSoFar(d)' /\ BodyInHand(d)'
           /\ BlameIsFinal'
<1> USE DEF CallInv, Steps
<1>1. call \in [Calls -> Call] /\ blamed \subseteq Calls
  BY DEF TypeOK, Call
<1>2. call' \in [Calls -> Call]
  BY <1>1
<1>3. ASSUME NEW d \in Calls, d # c PROVE SentSoFar(d)' /\ BodyInHand(d)'
  BY <1>3 DEF SentSoFar, BodyInHand, Attempts, HasBody, ReturnsBody
<1>4. BlameIsFinal'
  BY <1>1 DEF BlameIsFinal
<1>5. QED
  BY <1>2, <1>3, <1>4

(* The breaker as it was keeps its type and its generations.               *)
LEMMA SameBreaker ==
    ASSUME CallInv, UNCHANGED <<transport, breaker, blamed>>, call' \in [Calls -> Call],
           NEW c \in Calls, NEW f, Steps(c, f), f.gen = call[c].gen
    PROVE  TypeOK' /\ Generations'
<1>1. TypeOK'
  BY DEF CallInv, TypeOK, Call
<1>2. \A d \in Calls : call'[d].gen = call[d].gen
  BY DEF Steps
<1>3. QED
  BY <1>1, <1>2 DEF CallInv, Generations

(* A call that begins has sent nothing.                                    *)
LEMMA BeginKeeps ==
    ASSUME CallInv, NEW c \in Calls, Begin(c)
    PROVE  CallInv'
<1> DEFINE f == [call[c] EXCEPT !.stage = "admit"]
<1>1. call[c] \in Call /\ call[c].stage = "idle"
  BY DEF CallInv, TypeOK, Begin, Call
<1>2. f \in Call /\ f.in = call[c].in /\ f.sent = call[c].sent /\ f.held = call[c].held
        /\ f.given = call[c].given /\ f.stage = "admit" /\ f.gen = call[c].gen
  BY <1>1 DEF Call, Stages
<1>3. Steps(c, f)
  BY SetSteps DEF Begin, CallInv
<1>4. SentSoFar(c)' /\ BodyInHand(c)'
  BY <1>1, <1>2, <1>3 DEF CallInv, SentSoFar, BodyInHand, Attempts, Steps
<1>5. UNCHANGED <<transport, breaker, blamed>>
  BY DEF Begin, Set
<1>6. QED
  BY <1>1, <1>2, <1>3, <1>4, <1>5, OneCallMoves, SameBreaker DEF CallInv

(* One more attempt, within the number allowed.                            *)
LEMMA SendKeeps ==
    ASSUME CallInv, NEW c \in Calls, Send(c)
    PROVE  CallInv'
<1> DEFINE f == [call[c] EXCEPT !.stage = "await", !.sent = @ + 1]
<1>1. call[c] \in Call /\ call[c].stage = "send" /\ call[c].sent < Attempts(c)
  BY DEF CallInv, TypeOK, Send, Call, SentSoFar
<1>2. /\ f.in = call[c].in /\ f.sent = call[c].sent + 1 /\ f.held = call[c].held
      /\ f.given = call[c].given /\ f.stage = "await" /\ f.gen = call[c].gen
  BY <1>1 DEF Call
<1>3. f \in Call
  <2>1. call[c].sent + 1 \in 0..MaxAttempts
    BY <1>1, AttemptsBounds DEF Call
  <2>2. QED
    BY <1>1, <2>1 DEF Call, Stages
<1>4. Steps(c, f)
  BY SetSteps DEF Send, CallInv
<1>5. SentSoFar(c)'
  <2>1. Attempts(c)' = Attempts(c)
    BY <1>2, <1>4 DEF Attempts, Steps
  <2>2. QED
    BY <1>1, <1>2, <1>4, <2>1, AttemptsBounds DEF SentSoFar, Steps, Call
<1>6. BodyInHand(c)'
  BY <1>1, <1>2, <1>4 DEF CallInv, BodyInHand, Steps
<1>7. UNCHANGED <<transport, breaker, blamed>>
  BY DEF Send, Set
<1>8. QED
  BY <1>1, <1>2, <1>3, <1>4, <1>5, <1>6, <1>7, OneCallMoves, SameBreaker DEF CallInv

(* Between two attempts no body is open.                                   *)
LEMMA BackoffKeeps ==
    ASSUME CallInv, NEW c \in Calls, Backoff(c)
    PROVE  CallInv'
<1>1. call[c] \in Call /\ call[c].stage = "backoff" /\ call[c].sent < Attempts(c)
        /\ call[c].held = 0 /\ ~call[c].given
  BY DEF CallInv, TypeOK, Backoff, Call, SentSoFar, BodyInHand
<1>2. PICK f : /\ Set(c, f)
               /\ \/ f = [call[c] EXCEPT !.stage = "send"]
                  \/ \E why \in {"late", "canceled"} :
                        f = [call[c] EXCEPT !.stage = "settle", !.result = why]
  BY DEF Backoff
<1>3. /\ f \in Call /\ f.in = call[c].in /\ f.sent = call[c].sent /\ f.held = 0
      /\ ~f.given /\ f.gen = call[c].gen
      /\ f.stage = "send" \/ (f.stage = "settle" /\ f.result \in {"late", "canceled"})
  BY <1>1, <1>2 DEF Call, Stages, Result, Outcome
<1>4. Steps(c, f)
  BY <1>2, SetSteps DEF CallInv
<1>5. SentSoFar(c)'
  <2>1. Attempts(c)' = Attempts(c)
    BY <1>3, <1>4 DEF Attempts, Steps
  <2>2. QED
    BY <1>1, <1>3, <1>4, <2>1, AttemptsBounds DEF SentSoFar, Steps, Call
<1>6. BodyInHand(c)'
  BY <1>3, <1>4 DEF BodyInHand, Steps, HasBody
<1>7. UNCHANGED <<transport, breaker, blamed>>
  BY <1>2 DEF Backoff, Set
<1>8. QED
  BY <1>1, <1>3, <1>4, <1>5, <1>6, <1>7, OneCallMoves, SameBreaker DEF CallInv

(* An attempt is repeated below the limit only; its body is closed then.   *)
LEMMA ReceiveKeeps ==
    ASSUME CallInv, NEW c \in Calls, NEW outcome \in Outcome, Receive(c, outcome)
    PROVE  CallInv'
<1>1. call[c] \in Call /\ call[c].stage = "await" /\ call[c].sent <= Attempts(c)
        /\ call[c].held = 0 /\ ~call[c].given
  BY DEF CallInv, TypeOK, Receive, Call, SentSoFar, BodyInHand
<1>2. HasBody(c, outcome) \in 0..1
  BY DEF HasBody
<1>3. PICK f : /\ Set(c, f)
               /\ \/ /\ Repeats(c, outcome)
                     /\ f = [call[c] EXCEPT !.stage = "backoff", !.held = @ + Kept(c, outcome)]
                  \/ f = [call[c] EXCEPT !.stage = "settle", !.result = outcome,
                                         !.held = @ + HasBody(c, outcome)]
  BY DEF Receive
<1>4. /\ f \in Call /\ f.in = call[c].in /\ f.sent = call[c].sent /\ ~f.given
      /\ f.gen = call[c].gen
      /\ \/ f.stage = "backoff" /\ f.held = 0 /\ Repeats(c, outcome)
         \/ f.stage = "settle" /\ f.result = outcome /\ f.held = HasBody(c, outcome)
  <2>1. 0 + Kept(c, outcome) = 0 /\ 0 + HasBody(c, outcome) = HasBody(c, outcome)
    BY <1>2 DEF Kept
  <2>2. QED
    <3>1. \/ /\ Repeats(c, outcome)
             /\ f = [call[c] EXCEPT !.stage = "backoff", !.held = 0]
          \/ f = [call[c] EXCEPT !.stage = "settle", !.result = outcome,
                                 !.held = HasBody(c, outcome)]
      BY <1>1, <1>3, <2>1 DEF Call
    <3>2. CASE /\ Repeats(c, outcome)
               /\ f = [call[c] EXCEPT !.stage = "backoff", !.held = 0]
      BY <1>1, <3>2 DEF Call, Stages
    <3>3. CASE f = [call[c] EXCEPT !.stage = "settle", !.result = outcome,
                                   !.held = HasBody(c, outcome)]
      <4>1. "settle" \in Stages /\ outcome \in Result
        BY DEF Stages, Result
      <4>2. f \in Call
        BY <1>1, <1>2, <3>3, <4>1 DEF Call
      <4>3. QED
        BY <1>1, <3>3, <4>2 DEF Call
    <3>4. QED
      BY <3>1, <3>2, <3>3
<1>5. Steps(c, f)
  BY <1>3, SetSteps DEF CallInv
<1>6. SentSoFar(c)'
  <2>1. Attempts(c)' = Attempts(c)
    BY <1>4, <1>5 DEF Attempts, Steps
  <2>2. f.stage = "backoff" => call[c].sent < Attempts(c)
    BY <1>4 DEF Repeats
  <2>3. QED
    BY <1>1, <1>4, <1>5, <2>1, <2>2, AttemptsBounds DEF SentSoFar, Steps, Call
<1>7. BodyInHand(c)'
  BY <1>4, <1>5 DEF BodyInHand, Steps, HasBody
<1>8. UNCHANGED <<transport, breaker, blamed>>
  BY <1>3 DEF Receive, Set
<1>9. QED
  BY <1>1, <1>4, <1>5, <1>6, <1>7, <1>8, OneCallMoves, SameBreaker DEF CallInv

(* An open breaker admits no call.                                         *)
LEMMA AdmitKeeps ==
    ASSUME CallInv, NEW c \in Calls, Admit(c)
    PROVE  CallInv'
<1>1. call[c] \in Call /\ call[c].stage = "admit" /\ call[c].sent = 0
        /\ call[c].held = 0 /\ ~call[c].given
  BY DEF CallInv, TypeOK, Admit, Call, SentSoFar, BodyInHand
<1>2. PICK f : /\ Set(c, f)
               /\ \/ f = [call[c] EXCEPT !.stage = "over", !.result = "rejected"]
                  \/ /\ f = [call[c] EXCEPT !.stage = "send", !.gen = breaker.gen]
                     /\ breaker.state # "open"
  BY DEF Admit
<1>3. breaker.gen \in 0..2 * MaxOpenings
  BY DEF CallInv, TypeOK
<1>4. /\ f \in Call /\ f.in = call[c].in /\ f.sent = 0 /\ f.held = 0 /\ ~f.given
      /\ f.stage = "send" \/ (f.stage = "over" /\ f.result = "rejected")
  BY <1>1, <1>2, <1>3 DEF Call, Stages, Result, Outcome
<1>5. Steps(c, f)
  BY <1>2, SetSteps DEF CallInv
<1>6. SentSoFar(c)'
  <2>1. Attempts(c)' = Attempts(c)
    BY <1>4, <1>5 DEF Attempts, Steps
  <2>2. QED
    BY <1>4, <1>5, <2>1, AttemptsBounds DEF SentSoFar, Steps, Call
<1>7. BodyInHand(c)'
  BY <1>4, <1>5 DEF BodyInHand, ReturnsBody, Steps
<1>8. UNCHANGED <<transport, blamed>>
  BY <1>2 DEF Admit, Set
<1>9. /\ call' \in [Calls -> Call]
      /\ \A d \in Calls : SentSoFar(d)' /\ BodyInHand(d)'
      /\ BlameIsFinal'
  BY <1>1, <1>4, <1>5, <1>6, <1>7, <1>8, OneCallMoves
<1>10. TypeOK'
  BY <1>8, <1>9 DEF Admit, CallInv, TypeOK, Call
<1>11. /\ breaker'.state = breaker.state /\ breaker'.gen = breaker.gen
       /\ breaker'.openings = breaker.openings
  BY DEF Admit, CallInv, TypeOK
<1>12. f.gen = call[c].gen \/ (f.gen = breaker.gen /\ breaker.state # "open")
  BY <1>1, <1>2 DEF Call
<1>13. Generations'
  BY <1>3, <1>5, <1>11, <1>12, CallAssumption DEF CallInv, Generations, Steps
<1>14. QED
  BY <1>9, <1>10, <1>13 DEF CallInv

(* gobreaker's account stays within its bounds, and a result it leaves out *)
(* is blamed on no one.                                                    *)
LEMMA BreakerKeeps ==
    ASSUME CallInv, NEW c \in Calls, Settle(c), \A d \in Calls : call'[d].gen = call[d].gen
    PROVE  /\ breaker' \in [state: {"none", "closed", "open", "half-open"}, gen: 0..2 * MaxOpenings,
                            failures: 0..Threshold, probing: BOOLEAN, openings: 0..MaxOpenings]
           /\ Generations'
           /\ blamed' \subseteq blamed \cup {c}
           /\ c \in blamed' => c \in blamed \/ call[c].result # "canceled"
<1> DEFINE B == [state: {"none", "closed", "open", "half-open"}, gen: 0..2 * MaxOpenings,
                 failures: 0..Threshold, probing: BOOLEAN, openings: 0..MaxOpenings]
<1>a. breaker \in B /\ Threshold \in Nat /\ MaxOpenings \in Nat
  BY CallAssumption DEF CallInv, TypeOK
<1>b. \A d \in Calls : call[d].gen \in Nat
  BY <1>a DEF CallInv, TypeOK
<1>1. CASE UNCHANGED <<breaker, blamed>>
  BY <1>a, <1>1 DEF CallInv, Generations
<1>2. CASE breaker' = [breaker EXCEPT !.probing = FALSE] /\ UNCHANGED blamed
  BY <1>a, <1>2 DEF CallInv, Generations
<1>3. CASE Counted(c) /\ (~IsExcluded(c) \/ call[c].result = "answer") /\ Hears(c)
  <2>1. call[c].result # "canceled" /\ breaker.state # "open"
    BY <1>3 DEF Hears, IsExcluded, CallInv, Generations
  <2>2. CASE /\ breaker.openings < MaxOpenings
             /\ breaker' = [state |-> "open", gen |-> breaker.gen + 1, failures |-> 0,
                            probing |-> FALSE, openings |-> breaker.openings + 1]
             /\ blamed' = blamed \cup {c}
    <3>1. breaker.gen = 2 * breaker.openings
      BY <2>1 DEF CallInv, Generations
    <3>2. breaker.gen + 1 \in 0..2 * MaxOpenings /\ breaker.openings + 1 \in 0..MaxOpenings
      BY <1>a, <2>2, <3>1
    <3>3. Generations'
      BY <1>a, <1>b, <2>2, <3>1 DEF CallInv, Generations
    <3>4. QED
      BY <1>a, <2>1, <2>2, <3>2, <3>3
  <2>3. CASE /\ ~ReadyToTrip(breaker.failures + 1)
             /\ breaker' = [breaker EXCEPT !.failures = @ + 1]
             /\ blamed' = blamed \cup {c}
    <3>1. breaker.failures + 1 \in 0..Threshold
      BY <1>a, <2>3 DEF ReadyToTrip
    <3>2. breaker' \in B
      BY <1>a, <2>3, <3>1
    <3>3. Generations'
      BY <1>a, <2>3 DEF CallInv, Generations
    <3>4. QED
      BY <2>1, <2>3, <3>2, <3>3
  <2>4. CASE /\ breaker' = [breaker EXCEPT !.failures = 0, !.probing = FALSE, !.state = "closed"]
             /\ blamed' = {}
    <3>1. breaker' \in B
      <4>1. 0 \in 0..Threshold
        BY <1>a
      <4>2. QED
        BY <1>a, <2>4, <4>1, Zenon
    <3>2. /\ breaker'.gen = breaker.gen /\ breaker'.openings = breaker.openings
          /\ breaker'.state # "open"
      BY <1>a, <2>4
    <3>3. Generations'
      BY <2>1, <3>2 DEF CallInv, Generations
    <3>4. QED
      BY <2>1, <2>4, <3>1, <3>3
  <2>5. QED
    BY <1>3, <2>2, <2>3, <2>4 DEF Counted
<1>4. QED
  BY <1>1, <1>2, <1>3 DEF Settle

(* The body goes to the caller, the result to the breaker.                 *)
LEMMA SettleKeeps ==
    ASSUME CallInv, NEW c \in Calls, Settle(c)
    PROVE  CallInv'
<1>1. call[c] \in Call /\ call[c].stage = "settle" /\ call[c].held = HasBody(c, call[c].result)
  BY DEF CallInv, TypeOK, Settle, Call, BodyInHand
<1>g. PICK g \in BOOLEAN : /\ g <=> call[c].held = 1
                          /\ g = (call[c].held = 1)
  OBVIOUS
<1> DEFINE f == [call[c] EXCEPT !.stage = "over", !.held = 0, !.given = g]
<1>2. /\ f \in Call /\ f.in = call[c].in /\ f.sent = call[c].sent /\ f.held = 0
      /\ f.result = call[c].result /\ f.gen = call[c].gen /\ f.stage = "over"
  <2>1. 0 \in 0..1 /\ "over" \in Stages
    BY DEF Stages
  <2>2. f \in Call
    BY <1>1, <2>1, Zenon DEF Call
  <2>3. QED
    BY <1>1, <2>2 DEF Call
<1>3. f.given <=> call[c].held = 1
  BY <1>1, <1>g DEF Call
<1>4. Steps(c, f)
  <2>1. Set(c, f)
    BY <1>g DEF Settle
  <2>2. QED
    BY <2>1, SetSteps DEF CallInv
<1>5. SentSoFar(c)'
  <2>1. Attempts(c)' = Attempts(c)
    BY <1>2, <1>4 DEF Attempts, Steps
  <2>2. QED
    BY <1>2, <1>4, <2>1 DEF CallInv, SentSoFar, Steps
<1>6. BodyInHand(c)'
  <2>1. f.given <=> ReturnsBody(c)
    BY <1>1, <1>3 DEF HasBody, ReturnsBody
  <2>2. ReturnsBody(c)' <=> ReturnsBody(c)
    BY <1>2, <1>4 DEF ReturnsBody, Steps
  <2>3. call'[c].stage = "over" /\ (call'[c].given <=> ReturnsBody(c)')
    BY <1>2, <1>4, <2>1, <2>2 DEF Steps
  <2>4. QED
    BY <2>3 DEF BodyInHand
<1>7. \A d \in Calls : call'[d].gen = call[d].gen
  BY <1>2, <1>4 DEF Steps
<1>8. /\ breaker' \in [state: {"none", "closed", "open", "half-open"}, gen: 0..2 * MaxOpenings,
                       failures: 0..Threshold, probing: BOOLEAN, openings: 0..MaxOpenings]
      /\ Generations'
      /\ blamed' \subseteq blamed \cup {c}
      /\ c \in blamed' => c \in blamed \/ call[c].result # "canceled"
  BY <1>7, BreakerKeeps
<1>9. call \in [Calls -> Call] /\ blamed \subseteq Calls
  BY DEF CallInv, TypeOK, Call
<1>10. TypeOK'
  BY <1>2, <1>4, <1>8, <1>9 DEF CallInv, TypeOK, Steps, Call
<1>11. BlameIsFinal'
  BY <1>2, <1>4, <1>8, <1>9 DEF CallInv, BlameIsFinal, Steps
<1>12. ASSUME NEW d \in Calls PROVE SentSoFar(d)' /\ BodyInHand(d)'
  <2>1. CASE d # c
    BY <1>4, <2>1 DEF CallInv, SentSoFar, BodyInHand, Attempts, HasBody, ReturnsBody, Steps
  <2>2. QED
    BY <1>5, <1>6, <2>1
<1>13. QED
  BY <1>8, <1>10, <1>11, <1>12 DEF CallInv

(* The breaker allows a probe.                                             *)
LEMMA HalfOpenKeeps ==
    ASSUME CallInv, HalfOpen
    PROVE  CallInv'
<1>1. /\ breaker.gen = 2 * breaker.openings - 1 /\ breaker.openings \in 0..MaxOpenings
      /\ breaker.gen \in 0..2 * MaxOpenings /\ MaxOpenings \in Nat
      /\ \A d \in Calls : call[d].gen \in Nat
  BY CallAssumption DEF CallInv, TypeOK, HalfOpen, Generations
<1>2. breaker.gen + 1 \in 0..2 * MaxOpenings
  BY <1>1
<1>3. UNCHANGED <<transport, call, blamed>>
  BY DEF HalfOpen
<1>4. TypeOK'
  BY <1>2, <1>3 DEF CallInv, TypeOK, HalfOpen
<1>5. Generations'
  BY <1>1, <1>3 DEF CallInv, TypeOK, HalfOpen, Generations
<1>6. BlameIsFinal' /\ \A c \in Calls : SentSoFar(c)' /\ BodyInHand(c)'
  BY <1>3 DEF CallInv, BlameIsFinal, SentSoFar, BodyInHand, Attempts, HasBody, ReturnsBody
<1>7. QED
  BY <1>4, <1>5, <1>6 DEF CallInv
-----------------------------------------------------------------------------
(* The account of calls, bodies and generations is right in every state.   *)
THEOREM CallsAreAccounted == Spec => []CallInv
<1>1. Init => CallInv
  <2> SUFFICES ASSUME Init PROVE CallInv
    OBVIOUS
  <2>1. \A c \in Calls : /\ call[c].stage = "idle" /\ call[c].sent = 0 /\ call[c].held = 0
                         /\ ~call[c].given /\ call[c].gen = 0
    BY DEF Init
  <2>2. TypeOK
    <3>1. MaxAttempts \in Nat /\ 2 * MaxOpenings \in Nat
      BY CallAssumption
    <3>2. call \in [Calls -> [in: Inputs, stage: {"idle"}, sent: {0}, held: {0},
                              given: {FALSE}, result: {"none"}, gen: {0}]]
      BY DEF Init
    <3>a. /\ {0} \subseteq 0..MaxAttempts /\ {0} \subseteq 0..1 /\ {0} \subseteq 0..2 * MaxOpenings
          /\ {"idle"} \subseteq Stages /\ {"none"} \subseteq Result /\ {FALSE} \subseteq BOOLEAN
      BY <3>1 DEF Stages, Result
    <3>3. \A c \in Calls : call[c] \in Call
      BY <3>a, <3>2, Zenon DEF Call
    <3>4. call \in [Calls -> Call]
      BY <3>2, <3>3
    <3>5. breaker \in [state: {"none", "closed", "open", "half-open"}, gen: 0..2 * MaxOpenings,
                       failures: 0..Threshold, probing: BOOLEAN, openings: 0..MaxOpenings]
      <4>1. breaker \in [state: {"none", "closed"}, gen: {0}, failures: {0}, probing: {FALSE},
                         openings: {0}]
        BY DEF Init
      <4>2. /\ {0} \subseteq 0..2 * MaxOpenings /\ {0} \subseteq 0..MaxOpenings
            /\ {0} \subseteq 0..Threshold /\ {FALSE} \subseteq BOOLEAN
            /\ {"none", "closed"} \subseteq {"none", "closed", "open", "half-open"}
        BY CallAssumption
      <4>3. QED
        BY <4>1, <4>2, Zenon
    <3>6. QED
      BY <3>4, <3>5 DEF Init, TypeOK, Call
  <2>3. \A c \in Calls : SentSoFar(c) /\ BodyInHand(c)
    BY <2>1, AttemptsBounds DEF SentSoFar, BodyInHand
  <2>4. BlameIsFinal /\ Generations
    <3>1. breaker.state # "open" /\ breaker.gen = 0 /\ breaker.openings = 0 /\ blamed = {}
      BY DEF Init
    <3>2. QED
      BY <2>1, <3>1 DEF BlameIsFinal, Generations
  <2>5. QED
    BY <2>2, <2>3, <2>4 DEF CallInv
<1>2. CallInv /\ [Next]_vars => CallInv'
  <2> SUFFICES ASSUME CallInv, [Next]_vars PROVE CallInv'
    OBVIOUS
  <2>1. CASE UNCHANGED vars
    BY <2>1 DEF vars, CallInv, TypeOK, SentSoFar, BodyInHand, Attempts, HasBody, ReturnsBody,
                BlameIsFinal, Generations
  <2>2. CASE HalfOpen
    BY <2>2, HalfOpenKeeps
  <2>3. ASSUME NEW c \in Calls, Begin(c) \/ Step(c)
        PROVE  CallInv'
    BY <2>3, BeginKeeps, AdmitKeeps, SendKeeps, BackoffKeeps, SettleKeeps, ReceiveKeeps DEF Step
  <2>4. QED
    BY <2>1, <2>2, <2>3 DEF Next
<1>3. QED
  BY <1>1, <1>2, PTL DEF Spec

(* A POST without a key is sent at most once.                              *)
THEOREM UnsafeNotRepeated == Spec => []UnsafeIsSentOnce
<1>1. CallInv => UnsafeIsSentOnce
  BY DEF CallInv, SentSoFar, Attempts, UnsafeIsSentOnce
<1>2. QED
  BY <1>1, CallsAreAccounted, PTL

(* Every response body is closed, or handed to the caller exactly when the *)
(* call ends with a response.                                              *)
THEOREM NoBodyLost == Spec => []BodiesAreAccounted
<1>1. CallInv => BodiesAreAccounted
  <2> SUFFICES ASSUME CallInv, NEW c \in Calls
               PROVE  /\ call[c].stage \in {"backoff", "send", "await"} => call[c].held = 0
                      /\ call[c].stage = "over" => call[c].given = ReturnsBody(c)
    BY DEF BodiesAreAccounted, ReturnsBody
  <2>1. call[c].stage \in {"backoff", "send", "await"} => call[c].held = 0
    BY DEF CallInv, BodyInHand
  <2>2. call[c].given \in BOOLEAN /\ ReturnsBody(c) \in BOOLEAN
    BY DEF CallInv, TypeOK, ReturnsBody
  <2>3. call[c].stage = "over" => (call[c].given <=> ReturnsBody(c))
    BY DEF CallInv, BodyInHand
  <2>4. QED
    BY <2>1, <2>2, <2>3
<1>2. QED
  BY <1>1, CallsAreAccounted, PTL

(* The breaker never opens on account of a caller that gave up.            *)
THEOREM CancelNotBlamed == Spec => []CancelIsNoFailure
<1>1. CallInv => CancelIsNoFailure
  BY DEF CallInv, BlameIsFinal, CancelIsNoFailure
<1>2. QED
  BY <1>1, CallsAreAccounted, PTL
=============================================================================
