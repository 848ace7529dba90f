------------------------ MODULE EventDeliveryProofs ------------------------
(***************************************************************************)
(* Proofs about the delivery of the messages that wake the workers, for    *)
(* every set of jobs and replicas and every bound on copies, deliveries,   *)
(* faults and stops.                                                       *)
(***************************************************************************)
EXTENDS EventDelivery, WellFoundedInduction, TLAPS

Copy == [state: {"absent", "held", "acked"}, n: 0..MaxDeliver, out: BOOLEAN]

(* A job is claimed once, when it leaves the queue; a handler that runs it *)
(* is one that claimed it.                                                 *)
ClaimInv ==
    /\ \A j \in Jobs :
        /\ job[j] \in {"none", "queued"} => claims[j] = 0
        /\ job[j] \in {"running", "ended"} => claims[j] = 1
    /\ \A m \in Messages, p \in Replicas :
        flight[m][p] = "run" => m[1] \in Jobs /\ job[m[1]] \in {"running", "ended"}

(* A copy of a job's message has entered the stream.                       *)
Copied(j) == \E m \in Messages : m[1] = j /\ stream[m].state # "absent"

(* Where a message is, from the transaction that writes it to the claim it *)
(* causes.  Nothing is known of a job that is not queued yet; what is      *)
(* marked, sent or remembered has been copied into the stream; and a copy  *)
(* is acknowledged only once its job has been claimed.                     *)
WayInv ==
    /\ \A j \in Jobs :
        /\ outbox[j] = "none" <=> job[j] = "none"
        /\ job[j] = "none" => ~Copied(j) /\ \A p \in Replicas : batch[p][j] = "no"
        /\ j \in remembered => Copied(j)
        /\ outbox[j] \in {"published", "deleted"} => Copied(j)
        /\ \A p \in Replicas : batch[p][j] = "sent" => Copied(j)
    /\ \A m \in Messages :
        /\ m[1] \in Jobs /\ stream[m].state = "acked" => job[m[1]] \in {"running", "ended"}
        /\ \A p \in Replicas : flight[m][p] # "no" => stream[m].state # "absent"

DeliveryInv == TypeOK /\ ClaimInv /\ StoppedIsQuiet
-----------------------------------------------------------------------------
(* A fault is counted within its bound.                                    *)
LEMMA FaultType ==
    ASSUME faults \in 0..MaxFaults, Fault
    PROVE  faults' \in 0..MaxFaults
  BY DeliveryAssumption DEF Fault

(* The stream has the copies it is given.                                  *)
LEMMA StoredType ==
    ASSUME stream \in [Messages -> Copy], remembered \subseteq Ids, NEW i \in Ids, Stored(i)
    PROVE  stream' \in [Messages -> Copy] /\ remembered' \subseteq Ids
<1>1. [state |-> "held", n |-> 0, out |-> FALSE] \in Copy
  BY DeliveryAssumption DEF Copy
<1>2. QED
  BY <1>1 DEF Stored

(* One claim is within the bound on claims.                                *)
LEMMA ClaimsBound == 0 \in 0..MaxDeliver * MaxCopies /\ 1 \in 0..MaxDeliver * MaxCopies
<1>1. MaxDeliver * MaxCopies \in Nat /\ MaxDeliver * MaxCopies >= 1
  BY DeliveryAssumption
<1>2. QED
  BY <1>1

(* A handler that returns, with or without an acknowledgement.             *)
LEMMA ReturnType ==
    ASSUME TypeOK, NEW p \in Replicas, NEW m \in Messages,
           Acked(p, m) \/ (Refused(p, m) /\ (UNCHANGED faults \/ Fault))
    PROVE  /\ stream' \in [Messages -> Copy]
           /\ flight' \in [Messages -> [Replicas -> {"no", "handle", "run"}]]
           /\ flight' = [flight EXCEPT ![m][p] = "no"]
           /\ faults' \in 0..MaxFaults
<1> USE DEF TypeOK
<1>1. stream \in [Messages -> Copy] /\ stream[m] \in Copy
  BY DEF Copy
<1>2. faults' \in 0..MaxFaults
  BY FaultType DEF Acked, Refused
<1>3. /\ [stream[m] EXCEPT !.state = "acked", !.out = FALSE] \in Copy
      /\ [stream[m] EXCEPT !.out = FALSE] \in Copy
  BY <1>1 DEF Copy
<1>4. stream' \in [Messages -> Copy]
  BY <1>1, <1>3 DEF Acked, Refused
<1>5. flight' = [flight EXCEPT ![m][p] = "no"]
  BY DEF Acked, Refused
<1>6. QED
  BY <1>2, <1>4, <1>5
-----------------------------------------------------------------------------
(* The outbox and its dispatchers, and the stream: no job is claimed.      *)
LEMMA DispatchKeeps ==
    ASSUME DeliveryInv, NEW j \in Jobs,
           \/ Enqueue(j) \/ LeaseExpires(j) \/ Clean(j)
           \/ \E p \in Replicas : Lease(p, j) \/ Publish(p, j) \/ Mark(p, j)
    PROVE  DeliveryInv'
<1> USE DEF DeliveryInv, TypeOK
<1>1. CASE Enqueue(j)
  <2>1. UNCHANGED <<batch, remembered, stream, flight, runtime, claims, faults, stops>>
    BY <1>1 DEF Enqueue
  <2>2. TypeOK'
    BY <1>1, <2>1 DEF Enqueue, JobStatus
  <2>3. ClaimInv'
    BY <1>1, <2>1 DEF Enqueue, ClaimInv
  <2>4. StoppedIsQuiet'
    BY <2>1 DEF StoppedIsQuiet, Idle
  <2>5. QED
    BY <2>2, <2>3, <2>4
<1>2. CASE LeaseExpires(j) \/ Clean(j)
  <2>1. UNCHANGED <<job, told, batch, remembered, stream, flight, runtime, claims, stops>>
    BY <1>2 DEF LeaseExpires, Clean
  <2>2. faults' \in 0..MaxFaults
    BY <1>2, FaultType DEF LeaseExpires, Clean
  <2>3. outbox' \in [Jobs -> {"none", "due", "leased", "published", "deleted"}]
    BY <1>2 DEF LeaseExpires, Clean
  <2>4. QED
    BY <2>1, <2>2, <2>3 DEF ClaimInv, StoppedIsQuiet, Idle
<1>3. ASSUME NEW p \in Replicas, Lease(p, j) \/ Publish(p, j) \/ Mark(p, j)
      PROVE  DeliveryInv'
  <2>1. UNCHANGED <<job, told, flight, runtime, claims, stops>>
    BY <1>3 DEF Lease, Publish, Mark
  <2>2. faults' \in 0..MaxFaults
    BY <1>3, FaultType DEF Lease, Publish, Mark
  <2>3. outbox' \in [Jobs -> {"none", "due", "leased", "published", "deleted"}]
    BY <1>3 DEF Lease, Publish, Mark
  <2>4. stream' \in [Messages -> Copy] /\ remembered' \subseteq Ids
    <3>1. stream \in [Messages -> Copy] /\ remembered \subseteq Ids /\ j \in Ids
      BY DEF Copy, Ids
    <3>2. QED
      BY <1>3, <3>1, StoredType DEF Lease, Publish, Mark
  <2>5. /\ batch' \in [Replicas -> [Jobs -> {"no", "taken", "sent"}]]
        /\ \A q \in Replicas \ {p} : batch'[q] = batch[q]
    <3>1. PICK v \in {"no", "taken", "sent"} : batch' = [batch EXCEPT ![p][j] = v]
      BY <1>3 DEF Lease, Publish, Mark
    <3>2. batch \in [Replicas -> [Jobs -> {"no", "taken", "sent"}]]
      OBVIOUS
    <3>3. [batch[p] EXCEPT ![j] = v] \in [Jobs -> {"no", "taken", "sent"}]
      BY <3>2
    <3>4. QED
      BY <3>1, <3>2, <3>3
  <2>6. TypeOK'
    BY <2>1, <2>2, <2>3, <2>4, <2>5 DEF Copy
  <2>7. runtime[p] # "stopped"
    BY <1>3 DEF Lease, Publish, Mark, StoppedIsQuiet, Idle
  <2>8. StoppedIsQuiet'
    <3> SUFFICES ASSUME NEW q \in Replicas, runtime'[q] = "stopped" PROVE Idle(q)'
      BY DEF StoppedIsQuiet
    <3>1. q # p /\ Idle(q)
      BY <2>1, <2>7 DEF StoppedIsQuiet
    <3>2. QED
      BY <2>1, <2>5, <3>1 DEF Idle
  <2>9. ClaimInv'
    BY <2>1 DEF ClaimInv
  <2>10. QED
    BY <2>6, <2>8, <2>9
<1>4. QED
  BY <1>1, <1>2, <1>3

(* Nor does what happens to the stream claim one.                          *)
LEMMA StreamKeeps ==
    ASSUME DeliveryInv,
           \/ \E i \in Ids : Forget(i)
           \/ \E i \in Foreign : Inject(i)
           \/ \E m \in Messages : AckWaitPasses(m)
    PROVE  DeliveryInv'
<1> USE DEF DeliveryInv, TypeOK
<1>1. UNCHANGED <<job, told, outbox, batch, flight, runtime, claims, stops>>
  BY DEF Forget, Inject, AckWaitPasses
<1>2. faults' \in 0..MaxFaults
  BY FaultType DEF Forget, Inject, AckWaitPasses
<1>3. stream \in [Messages -> Copy]
  BY DEF Copy
<1>4. stream' \in [Messages -> Copy] /\ remembered' \subseteq Ids
  <2>1. ASSUME NEW i \in Ids, Forget(i)
        PROVE  stream' \in [Messages -> Copy] /\ remembered' \subseteq Ids
    BY <1>3, <2>1 DEF Forget
  <2>2. ASSUME NEW i \in Foreign, Inject(i)
        PROVE  stream' \in [Messages -> Copy] /\ remembered' \subseteq Ids
    BY <1>3, <2>2, StoredType DEF Inject, Ids
  <2>3. ASSUME NEW m \in Messages, AckWaitPasses(m)
        PROVE  stream' \in [Messages -> Copy] /\ remembered' \subseteq Ids
    <3>1. [stream[m] EXCEPT !.out = FALSE] \in Copy
      BY <1>3 DEF Copy
    <3>2. QED
      BY <1>3, <2>3, <3>1 DEF AckWaitPasses
  <2>4. QED
    BY <2>1, <2>2, <2>3
<1>5. QED
  BY <1>1, <1>2, <1>4 DEF ClaimInv, StoppedIsQuiet, Idle, Copy

(* A delivery goes to a replica that runs.                                 *)
LEMMA DeliverKeeps ==
    ASSUME DeliveryInv, NEW p \in Replicas, NEW m \in Messages, Deliver(p, m)
    PROVE  DeliveryInv'
<1> USE DEF DeliveryInv, TypeOK
<1>1. UNCHANGED <<job, told, outbox, batch, remembered, runtime, claims, faults, stops>>
  BY DEF Deliver
<1>2. stream' \in [Messages -> Copy]
  <2>1. stream \in [Messages -> Copy] /\ stream[m] \in Copy
    BY DEF Copy
  <2>2. stream[m].n + 1 \in 0..MaxDeliver
    BY <2>1, DeliveryAssumption DEF Deliver, Copy
  <2>3. [stream[m] EXCEPT !.n = @ + 1, !.out = TRUE] \in Copy
    BY <2>1, <2>2 DEF Copy
  <2>4. PICK x \in Copy : stream' = [stream EXCEPT ![m] = x]
    BY <2>3 DEF Deliver
  <2>5. QED
    BY <2>1, <2>4
<1>3. /\ flight' \in [Messages -> [Replicas -> {"no", "handle", "run"}]]
      /\ \A n \in Messages, q \in Replicas :
            flight'[n][q] = IF n = m /\ q = p THEN "handle" ELSE flight[n][q]
  BY DEF Deliver
<1>4. TypeOK'
  BY <1>1, <1>2, <1>3 DEF Copy
<1>5. ClaimInv'
  <2>1. \A n \in Messages, q \in Replicas : flight'[n][q] = "run" => flight[n][q] = "run"
    BY <1>3
  <2>2. UNCHANGED <<job, claims>>
    BY <1>1
  <2>3. QED
    BY <2>1, <2>2 DEF ClaimInv
<1>6. StoppedIsQuiet'
  BY <1>1, <1>3 DEF StoppedIsQuiet, Idle, Deliver
<1>7. QED
  BY <1>4, <1>5, <1>6

(* The claim is the only way out of the queue, and only from there.        *)
LEMMA HandleKeeps ==
    ASSUME DeliveryInv, NEW p \in Replicas, NEW m \in Messages, Handle(p, m)
    PROVE  DeliveryInv'
<1> USE DEF DeliveryInv, TypeOK
<1>1. UNCHANGED <<outbox, batch, remembered, runtime, stops>> /\ flight[m][p] = "handle"
  BY DEF Handle
<1>2. runtime[p] # "stopped"
  BY <1>1 DEF StoppedIsQuiet, Idle
<1>3. CASE UNCHANGED jobVars /\ (Acked(p, m) \/ (Refused(p, m) /\ (UNCHANGED faults \/ Fault)))
  <2>1. /\ stream' \in [Messages -> Copy]
        /\ flight' \in [Messages -> [Replicas -> {"no", "handle", "run"}]]
        /\ flight' = [flight EXCEPT ![m][p] = "no"]
        /\ faults' \in 0..MaxFaults
    BY <1>3, ReturnType
  <2>2. \A n \in Messages, q \in Replicas :
            flight'[n][q] = IF n = m /\ q = p THEN "no" ELSE flight[n][q]
    BY <2>1
  <2>3. UNCHANGED <<job, told, claims>>
    BY <1>3 DEF jobVars
  <2>4. TypeOK'
    BY <1>1, <2>1, <2>3 DEF Copy
  <2>5. ClaimInv'
    BY <2>2, <2>3 DEF ClaimInv
  <2>6. StoppedIsQuiet'
    BY <1>1, <2>2 DEF StoppedIsQuiet, Idle
  <2>7. QED
    BY <2>4, <2>5, <2>6
<1>4. CASE /\ m[1] \in Jobs /\ Claimable(m[1])
           /\ job' = [job EXCEPT ![m[1]] = "running"]
           /\ claims' = [claims EXCEPT ![m[1]] = @ + 1]
           /\ flight' = [flight EXCEPT ![m][p] = "run"]
           /\ UNCHANGED <<told, stream, faults>>
  <2>1. claims[m[1]] = 0 /\ claims'[m[1]] = 1
    BY <1>4 DEF ClaimInv, Claimable
  <2>2. \A n \in Messages, q \in Replicas :
            flight'[n][q] = IF n = m /\ q = p THEN "run" ELSE flight[n][q]
    BY <1>4
  <2>3. claims' \in [Jobs -> 0..MaxDeliver * MaxCopies]
    BY <1>4, <2>1, ClaimsBound
  <2>4. job' \in [Jobs -> JobStatus]
    BY <1>4 DEF JobStatus
  <2>5. TypeOK'
    BY <1>1, <1>4, <2>3, <2>4
  <2>6. ClaimInv'
    BY <1>4, <2>1, <2>2 DEF ClaimInv
  <2>7. StoppedIsQuiet'
    BY <1>1, <1>2, <2>2 DEF StoppedIsQuiet, Idle
  <2>8. QED
    BY <2>5, <2>6, <2>7
<1>5. QED
  BY <1>3, <1>4 DEF Handle

(* A run ends the job it claimed.                                          *)
LEMMA FinishKeeps ==
    ASSUME DeliveryInv, NEW p \in Replicas, NEW m \in Messages, Finish(p, m)
    PROVE  DeliveryInv'
<1> USE DEF DeliveryInv, TypeOK
<1>1. /\ UNCHANGED <<outbox, batch, remembered, runtime, claims, stops>>
      /\ m[1] \in Jobs /\ claims[m[1]] = 1
  BY DEF Finish, ClaimInv
<1>2. /\ job' = [job EXCEPT ![m[1]] = "ended"]
      /\ told' = [told EXCEPT ![m[1]] = @ \cup {"ended"}]
  BY DEF Finish
<1>3. /\ stream' \in [Messages -> Copy]
      /\ flight' \in [Messages -> [Replicas -> {"no", "handle", "run"}]]
      /\ flight' = [flight EXCEPT ![m][p] = "no"]
      /\ faults' \in 0..MaxFaults
  BY ReturnType DEF Finish
<1>4. \A n \in Messages, q \in Replicas :
          flight'[n][q] = IF n = m /\ q = p THEN "no" ELSE flight[n][q]
  BY <1>3
<1>5. TypeOK'
  BY <1>1, <1>2, <1>3 DEF Copy, JobStatus
<1>6. ClaimInv'
  BY <1>1, <1>2, <1>4 DEF ClaimInv
<1>7. StoppedIsQuiet'
  BY <1>1, <1>4 DEF StoppedIsQuiet, Idle
<1>8. QED
  BY <1>5, <1>6, <1>7

(* A replica is stopped when it is idle, or its work dies with it.         *)
LEMMA RuntimeKeeps ==
    ASSUME DeliveryInv, NEW p \in Replicas, Start(p) \/ Cancel(p) \/ Wait(p) \/ Crash(p)
    PROVE  DeliveryInv'
<1> USE DEF DeliveryInv, TypeOK
<1>1. UNCHANGED <<job, told, outbox, remembered, stream, claims, faults>>
  BY DEF Start, Cancel, Wait, Crash
<1>2. stops' \in 0..MaxStops
  BY DeliveryAssumption DEF Start, Cancel, Wait, Crash
<1>3. /\ runtime' \in [Replicas -> {"running", "stopping", "stopped"}]
      /\ \A q \in Replicas \ {p} : runtime'[q] = runtime[q]
  BY DEF Start, Cancel, Wait, Crash
<1>4. CASE Start(p) \/ Cancel(p) \/ Wait(p)
  <2>1. UNCHANGED <<batch, flight>>
    BY <1>4 DEF Start, Cancel, Wait
  <2>2. runtime'[p] = "stopped" => Idle(p)
    BY <1>4 DEF Start, Cancel, Wait
  <2>3. StoppedIsQuiet'
    BY <1>3, <2>1, <2>2 DEF StoppedIsQuiet, Idle
  <2>4. QED
    BY <1>1, <1>2, <1>3, <2>1, <2>3 DEF ClaimInv
<1>5. CASE Crash(p)
  <2>1. /\ batch' \in [Replicas -> [Jobs -> {"no", "taken", "sent"}]]
        /\ \A q \in Replicas, j \in Jobs : batch'[q][j] = IF q = p THEN "no" ELSE batch[q][j]
    BY <1>5 DEF Crash
  <2>2. /\ flight' \in [Messages -> [Replicas -> {"no", "handle", "run"}]]
        /\ \A n \in Messages, q \in Replicas :
              flight'[n][q] = IF q = p THEN "no" ELSE flight[n][q]
    BY <1>5 DEF Crash
  <2>3. StoppedIsQuiet'
    <3> SUFFICES ASSUME NEW q \in Replicas, runtime'[q] = "stopped" PROVE Idle(q)'
      BY DEF StoppedIsQuiet
    <3>1. q = p \/ Idle(q)
      BY <1>3 DEF StoppedIsQuiet
    <3>2. \A j \in Jobs : batch'[q][j] = "no"
      BY <2>1, <3>1 DEF Idle
    <3>3. \A n \in Messages : flight'[n][q] = "no"
      BY <2>2, <3>1 DEF Idle
    <3>4. QED
      BY ONLY <3>2, <3>3 DEF Idle
  <2>4. ClaimInv'
    BY <1>1, <2>2 DEF ClaimInv
  <2>5. QED
    BY <1>1, <1>2, <1>3, <2>1, <2>2, <2>3, <2>4
<1>6. QED
  BY <1>4, <1>5
-----------------------------------------------------------------------------
(* The copy that is stored is one that was absent.                         *)
LEMMA FirstAbsent ==
    ASSUME NEW A, A \subseteq Messages, A # {}
    PROVE  (CHOOSE m \in A : \A n \in A : m[2] <= n[2]) \in A
<1> DEFINE T == {m[2] : m \in A}
           R == OpToRel(<, Nat)
<1>1. \A m \in A : m[2] \in Nat
  BY DeliveryAssumption DEF Messages
<1>2. T \subseteq Nat /\ T # {}
  BY <1>1
<1>3. IsWellFoundedOn(R, Nat)
  BY NatLessThanWellFounded
<1>4. \A x, y \in Nat : x < y => <<x, y>> \in R
  BY DEF OpToRel
<1>5. PICK m \in A : \A n \in A : ~(<<n[2], m[2]>> \in R)
  <2> HIDE DEF T, R
  <2>1. PICK x \in T : \A y \in T : ~(<<y, x>> \in R)
    BY <1>2, <1>3, WFMin
  <2>2. PICK m \in A : m[2] = x
    BY <2>1 DEF T
  <2>3. \A n \in A : n[2] \in T
    BY DEF T
  <2>4. QED
    BY <2>1, <2>2, <2>3
<1> HIDE DEF T, R
<1>6. ASSUME NEW n \in A PROVE m[2] <= n[2]
  <2>1. m[2] \in Nat /\ n[2] \in Nat /\ ~(<<n[2], m[2]>> \in R)
    BY <1>1, <1>5
  <2>2. ~(n[2] < m[2])
    BY <1>4, <2>1
  <2>3. QED
    BY <2>1, <2>2
<1>7. QED
  BY <1>6, Zenon

(* What storing a message does to the states of the copies: one more copy  *)
(* of this message is held, unless its id is remembered.                   *)
LEMMA StoredStates ==
    ASSUME TypeOK, NEW i \in Ids, Stored(i)
    PROVE  /\ remembered' = remembered \cup {i}
           /\ \A m \in Messages : m[1] # i => stream'[m] = stream[m]
           /\ \A m \in Messages : stream[m].state # "absent" => stream'[m] = stream[m]
           /\ \A m \in Messages : stream'[m] = stream[m] \/ stream'[m].state = "held"
           /\ i \notin remembered => Copied(i)'
<1> DEFINE A == {m \in Messages : m[1] = i /\ stream[m].state = "absent"}
           c == CHOOSE m \in A : \A n \in A : m[2] <= n[2]
           h == [state |-> "held", n |-> 0, out |-> FALSE]
<1>1. remembered' = remembered \cup {i}
  BY DEF Stored
<1>2. CASE i \in remembered
  <2>1. stream' = stream
    BY <1>2 DEF Stored
  <2>2. QED
    BY <1>1, <1>2, <2>1
<1>3. CASE i \notin remembered
  <2>1. A # {} /\ stream' = [stream EXCEPT ![c] = h]
    BY <1>3 DEF Stored
  <2>2. c \in A
    <3> HIDE DEF A
    <3>1. A \subseteq Messages
      BY DEF A
    <3>2. QED
      BY <2>1, <3>1, FirstAbsent
  <2> HIDE DEF c
  <2>3. c \in Messages /\ c[1] = i /\ stream[c].state = "absent"
    BY <2>2
  <2>4. DOMAIN stream = Messages
    BY DEF TypeOK
  <2>5. stream'[c] = h /\ \A m \in Messages \ {c} : stream'[m] = stream[m]
    BY <2>1, <2>3, <2>4
  <2>6. h.state = "held"
    OBVIOUS
  <2>7. Copied(i)'
    BY <2>3, <2>5, <2>6 DEF Copied
  <2> HIDE DEF h
  <2>8. QED
    BY <1>1, <2>3, <2>5, <2>6, <2>7
<1>4. QED
  BY <1>2, <1>3

(* The outbox and its dispatchers keep a message until it is copied.       *)
LEMMA DispatchKeepsWay ==
    ASSUME DeliveryInv, WayInv, NEW j \in Jobs,
           \/ Enqueue(j) \/ LeaseExpires(j) \/ Clean(j)
           \/ \E p \in Replicas : Lease(p, j) \/ Publish(p, j) \/ Mark(p, j)
    PROVE  WayInv'
<1> USE DEF DeliveryInv, TypeOK
<1>1. CASE Enqueue(j)
  BY <1>1 DEF Enqueue, WayInv, Copied
<1>2. CASE LeaseExpires(j) \/ Clean(j)
  BY <1>2 DEF LeaseExpires, Clean, WayInv, Copied
<1>3. ASSUME NEW p \in Replicas, Lease(p, j)
      PROVE  WayInv'
  BY <1>3 DEF Lease, WayInv, Copied
<1>4. ASSUME NEW p \in Replicas, Mark(p, j)
      PROVE  WayInv'
  BY <1>4 DEF Mark, WayInv, Copied
<1>5. ASSUME NEW p \in Replicas, Publish(p, j), Stored(j),
             batch' = [batch EXCEPT ![p][j] = "sent"], UNCHANGED outbox
      PROVE  WayInv'
  <2>1. UNCHANGED <<job, flight>> /\ batch[p][j] = "taken"
    BY <1>5 DEF Publish
  <2>2. job[j] # "none"
    BY <2>1 DEF WayInv
  <2>3. /\ remembered' = remembered \cup {j}
        /\ \A m \in Messages : m[1] # j => stream'[m] = stream[m]
        /\ \A m \in Messages : stream[m].state # "absent" => stream'[m] = stream[m]
        /\ \A m \in Messages : stream'[m] = stream[m] \/ stream'[m].state = "held"
        /\ j \notin remembered => Copied(j)'
    BY <1>5, StoredStates DEF Ids
  <2>4. \A i \in Jobs : Copied(i) => Copied(i)'
    BY <2>3 DEF Copied
  <2>5. \A i \in Jobs \ {j} : Copied(i)' => Copied(i)
    BY <2>3 DEF Copied
  <2>6. Copied(j)'
    BY <2>3, <2>4 DEF WayInv
  <2>7. \A q \in Replicas, i \in Jobs :
            batch'[q][i] = IF q = p /\ i = j THEN "sent" ELSE batch[q][i]
    BY <1>5
  <2>8. \A i \in Jobs :
            /\ outbox'[i] = "none" <=> job'[i] = "none"
            /\ job'[i] = "none" => ~Copied(i)' /\ \A q \in Replicas : batch'[q][i] = "no"
            /\ i \in remembered' => Copied(i)'
            /\ outbox'[i] \in {"published", "deleted"} => Copied(i)'
            /\ \A q \in Replicas : batch'[q][i] = "sent" => Copied(i)'
    BY ONLY <1>5, <2>1, <2>2, <2>3, <2>4, <2>5, <2>6, <2>7, WayInv DEF WayInv
  <2>9. \A m \in Messages :
            /\ m[1] \in Jobs /\ stream'[m].state = "acked" => job'[m[1]] \in {"running", "ended"}
            /\ \A q \in Replicas : flight'[m][q] # "no" => stream'[m].state # "absent"
    BY <2>1, <2>3 DEF WayInv
  <2>10. QED
    BY ONLY <2>8, <2>9 DEF WayInv, Copied
<1>6. ASSUME NEW p \in Replicas, Publish(p, j), UNCHANGED <<remembered, stream>>,
             batch' = [batch EXCEPT ![p][j] = "no"],
             outbox' = [outbox EXCEPT ![j] = IF @ = "leased" THEN "due" ELSE @]
      PROVE  WayInv'
  <2>1. UNCHANGED <<job, flight>>
    BY <1>6 DEF Publish
  <2>2. QED
    BY <1>6, <2>1 DEF WayInv, Copied
<1>7. QED
  BY <1>1, <1>2, <1>3, <1>4, <1>5, <1>6 DEF Publish

(* The stream keeps its copies, and a foreign message is not a job's.      *)
LEMMA StreamKeepsWay ==
    ASSUME DeliveryInv, WayInv,
           \/ \E i \in Ids : Forget(i)
           \/ \E i \in Foreign : Inject(i)
           \/ \E m \in Messages : AckWaitPasses(m)
    PROVE  WayInv'
<1> USE DEF DeliveryInv, TypeOK
<1>1. ASSUME NEW i \in Ids, Forget(i)
      PROVE  WayInv'
  BY <1>1 DEF Forget, WayInv, Copied
<1>2. ASSUME NEW i \in Foreign, Inject(i)
      PROVE  WayInv'
  <2>1. UNCHANGED <<job, outbox, batch, flight>> /\ Stored(i) /\ i \notin Jobs /\ i \in Ids
    BY <1>2, DeliveryAssumption DEF Inject, Ids
  <2>2. /\ remembered' = remembered \cup {i}
        /\ \A m \in Messages : m[1] # i => stream'[m] = stream[m]
        /\ \A m \in Messages : stream[m].state # "absent" => stream'[m] = stream[m]
    BY <2>1, StoredStates
  <2>3. \A m \in Messages : m[1] \in Jobs => stream'[m] = stream[m]
    BY <2>1, <2>2
  <2>4. \A j \in Jobs : Copied(j)' <=> Copied(j)
    BY <2>3 DEF Copied
  <2>5. \A j \in Jobs : j \in remembered' <=> j \in remembered
    BY <2>1, <2>2
  <2>6. ASSUME NEW j \in Jobs
        PROVE  /\ outbox'[j] = "none" <=> job'[j] = "none"
               /\ job'[j] = "none" => ~Copied(j)' /\ \A q \in Replicas : batch'[q][j] = "no"
               /\ j \in remembered' => Copied(j)'
               /\ outbox'[j] \in {"published", "deleted"} => Copied(j)'
               /\ \A q \in Replicas : batch'[q][j] = "sent" => Copied(j)'
    BY ONLY WayInv, <2>1, <2>4, <2>5, j \in Jobs DEF WayInv
  <2>7. ASSUME NEW m \in Messages
        PROVE  /\ m[1] \in Jobs /\ stream'[m].state = "acked" => job'[m[1]] \in {"running", "ended"}
               /\ \A q \in Replicas : flight'[m][q] # "no" => stream'[m].state # "absent"
    BY ONLY WayInv, <2>1, <2>2, <2>3, m \in Messages DEF WayInv
  <2>8. QED
    BY ONLY <2>6, <2>7 DEF WayInv, Copied
<1>3. ASSUME NEW m \in Messages, AckWaitPasses(m)
      PROVE  WayInv'
  <2>1. UNCHANGED <<job, outbox, batch, remembered, flight>>
    BY <1>3 DEF AckWaitPasses
  <2>2. \A n \in Messages : stream'[n].state = stream[n].state
    BY <1>3 DEF AckWaitPasses
  <2>3. \A j \in Jobs : Copied(j)' <=> Copied(j)
    BY ONLY <2>2 DEF Copied
  <2>4. ASSUME NEW j \in Jobs
        PROVE  /\ outbox'[j] = "none" <=> job'[j] = "none"
               /\ job'[j] = "none" => ~Copied(j)' /\ \A q \in Replicas : batch'[q][j] = "no"
               /\ j \in remembered' => Copied(j)'
               /\ outbox'[j] \in {"published", "deleted"} => Copied(j)'
               /\ \A q \in Replicas : batch'[q][j] = "sent" => Copied(j)'
    BY ONLY WayInv, <2>1, <2>3, j \in Jobs DEF WayInv
  <2>5. ASSUME NEW n \in Messages
        PROVE  /\ n[1] \in Jobs /\ stream'[n].state = "acked" => job'[n[1]] \in {"running", "ended"}
               /\ \A q \in Replicas : flight'[n][q] # "no" => stream'[n].state # "absent"
    BY ONLY WayInv, <2>1, <2>2, n \in Messages DEF WayInv
  <2>6. QED
    BY ONLY <2>4, <2>5 DEF WayInv, Copied
<1>4. QED
  BY <1>1, <1>2, <1>3

(* A handler acknowledges only a message whose job has been claimed.       *)
LEMMA HandlersKeepWay ==
    ASSUME DeliveryInv, WayInv, NEW p \in Replicas, NEW m \in Messages,
           Deliver(p, m) \/ Handle(p, m) \/ Finish(p, m)
    PROVE  WayInv'
<1> USE DEF DeliveryInv, TypeOK
<1>1. UNCHANGED <<outbox, batch, remembered>>
  BY DEF Deliver, Handle, Finish
<1>2. ASSUME \A n \in Messages :
                \/ stream'[n].state = stream[n].state
                \/ /\ n = m /\ stream'[n].state = "acked" /\ stream[n].state # "absent"
                   /\ m[1] \in Jobs => job'[m[1]] \in {"running", "ended"},
             \A j \in Jobs : job'[j] = "none" <=> job[j] = "none",
             \A j \in Jobs : job[j] \in {"running", "ended"} => job'[j] \in {"running", "ended"},
             \A n \in Messages, q \in Replicas :
                flight'[n][q] # "no" => flight[n][q] # "no" \/ stream[n].state # "absent"
      PROVE  WayInv'
  <2>1. \A j \in Jobs : Copied(j)' <=> Copied(j)
    BY <1>2 DEF Copied
  <2>2. \A n \in Messages : stream'[n].state = "absent" <=> stream[n].state = "absent"
    BY <1>2
  <2>3. \A j \in Jobs :
            /\ outbox'[j] = "none" <=> job'[j] = "none"
            /\ job'[j] = "none" => ~Copied(j)' /\ \A q \in Replicas : batch'[q][j] = "no"
            /\ j \in remembered' => Copied(j)'
            /\ outbox'[j] \in {"published", "deleted"} => Copied(j)'
            /\ \A q \in Replicas : batch'[q][j] = "sent" => Copied(j)'
    <3> SUFFICES ASSUME NEW j \in Jobs
                 PROVE  /\ outbox'[j] = "none" <=> job'[j] = "none"
                        /\ job'[j] = "none" => ~Copied(j)' /\ \A q \in Replicas : batch'[q][j] = "no"
                        /\ j \in remembered' => Copied(j)'
                        /\ outbox'[j] \in {"published", "deleted"} => Copied(j)'
                        /\ \A q \in Replicas : batch'[q][j] = "sent" => Copied(j)'
      OBVIOUS
    <3>1. job'[j] = "none" <=> job[j] = "none"
      BY ONLY <1>2, j \in Jobs
    <3>2. QED
      BY ONLY <1>1, <3>1, <2>1, WayInv, j \in Jobs DEF WayInv
  <2>4. \A n \in Messages :
            /\ n[1] \in Jobs /\ stream'[n].state = "acked" => job'[n[1]] \in {"running", "ended"}
            /\ \A q \in Replicas : flight'[n][q] # "no" => stream'[n].state # "absent"
    <3> SUFFICES ASSUME NEW n \in Messages
                 PROVE  /\ n[1] \in Jobs /\ stream'[n].state = "acked"
                             => job'[n[1]] \in {"running", "ended"}
                        /\ \A q \in Replicas : flight'[n][q] # "no" => stream'[n].state # "absent"
      OBVIOUS
    <3>1. /\ n[1] \in Jobs /\ stream[n].state = "acked" => job[n[1]] \in {"running", "ended"}
          /\ \A q \in Replicas : flight[n][q] # "no" => stream[n].state # "absent"
      BY DEF WayInv
    <3>2. n[1] \in Jobs /\ stream'[n].state = "acked" => job'[n[1]] \in {"running", "ended"}
      BY ONLY <1>2, <3>1, n \in Messages
    <3>3. \A q \in Replicas : flight'[n][q] # "no" => stream'[n].state # "absent"
      BY ONLY <1>2, <2>2, <3>1, n \in Messages
    <3>4. QED
      BY <3>2, <3>3
  <2>5. QED
    BY ONLY <2>3, <2>4 DEF WayInv, Copied
<1>3. stream \in [Messages -> Copy] /\ stream[m] \in Copy
  BY DEF Copy
<1>4. CASE Deliver(p, m)
  <2>1. \A n \in Messages : stream'[n].state = stream[n].state
    BY <1>3, <1>4 DEF Deliver, Copy
  <2>2. stream[m].state # "absent" /\ job' = job
    BY <1>4 DEF Deliver
  <2>3. \A n \in Messages, q \in Replicas : flight'[n][q] # "no" => flight[n][q] # "no" \/ n = m
    BY <1>4 DEF Deliver
  <2>4. QED
    BY <1>2, <2>1, <2>2, <2>3
<1>5. ASSUME flight[m][p] # "no",
             Acked(p, m) \/ Refused(p, m),
             \A j \in Jobs : job'[j] = "none" <=> job[j] = "none",
             \A j \in Jobs : job[j] \in {"running", "ended"} => job'[j] \in {"running", "ended"},
             m[1] \in Jobs /\ Acked(p, m) => job'[m[1]] \in {"running", "ended"},
             m[1] \in Jobs \/ Refused(p, m)
      PROVE  WayInv'
  <2>1. stream[m].state # "absent"
    BY <1>5 DEF WayInv
  <2>2. \A n \in Messages :
            \/ stream'[n].state = stream[n].state
            \/ n = m /\ stream'[n].state = "acked" /\ Acked(p, m)
    BY <1>3, <1>5 DEF Acked, Refused, Copy
  <2>3. \A n \in Messages, q \in Replicas : flight'[n][q] # "no" => flight[n][q] # "no"
    <3>1. flight' = [flight EXCEPT ![m][p] = "no"]
      BY <1>5 DEF Acked, Refused
    <3>2. QED
      BY ONLY <3>1, TypeOK, p \in Replicas, m \in Messages DEF TypeOK
  <2>4. QED
    BY <1>2, <1>5, <2>1, <2>2, <2>3
<1>6. CASE Handle(p, m)
  <2>1. flight[m][p] = "handle"
    BY <1>6 DEF Handle
  <2>2. m[1] \in Jobs => job[m[1]] # "none"
    BY <2>1 DEF WayInv, Copied
  <2>3. CASE m[1] \in Foreign /\ Refused(p, m) /\ UNCHANGED jobVars
    BY <1>5, <2>1, <2>3, DeliveryAssumption DEF jobVars
  <2>4. CASE m[1] \in Jobs /\ Refused(p, m) /\ Fault /\ UNCHANGED jobVars
    <3>1. \A n \in Messages : stream'[n].state = stream[n].state
      BY <1>3, <2>4 DEF Refused, Copy
    <3>2. \A n \in Messages, q \in Replicas : flight'[n][q] # "no" => flight[n][q] # "no"
      BY <2>4 DEF Refused
    <3>3. QED
      BY <1>2, <2>4, <3>1, <3>2 DEF jobVars
  <2>5. CASE m[1] \in Jobs /\ ~Claimable(m[1]) /\ Acked(p, m) /\ UNCHANGED jobVars
    <3>1. job[m[1]] \in {"running", "ended"}
      BY <2>2, <2>5 DEF Claimable, JobStatus
    <3>2. QED
      BY <1>5, <2>1, <2>5, <3>1 DEF jobVars
  <2>6. CASE /\ m[1] \in Jobs /\ Claimable(m[1])
             /\ job' = [job EXCEPT ![m[1]] = "running"]
             /\ flight' = [flight EXCEPT ![m][p] = "run"]
             /\ UNCHANGED stream
    <3>1. stream[m].state # "absent"
      BY <2>1 DEF WayInv
    <3>2. \A n \in Messages, q \in Replicas : flight'[n][q] # "no" => flight[n][q] # "no" \/ n = m
      BY <2>6
    <3>3. QED
      BY <1>2, <2>2, <2>6, <3>1, <3>2
  <2>7. QED
    BY <1>6, <2>3, <2>4, <2>5, <2>6 DEF Handle
<1>7. CASE Finish(p, m)
  <2>1. flight[m][p] = "run" /\ m[1] \in Jobs /\ job[m[1]] \in {"running", "ended"}
    BY <1>7 DEF Finish, ClaimInv
  <2>2. job' = [job EXCEPT ![m[1]] = "ended"] /\ (Acked(p, m) \/ Refused(p, m))
    BY <1>7 DEF Finish
  <2>3. job'[m[1]] = "ended" /\ \A j \in Jobs \ {m[1]} : job'[j] = job[j]
    BY <2>1, <2>2
  <2>4. QED
    BY <1>5, <2>1, <2>2, <2>3
<1>8. QED
  BY <1>4, <1>6, <1>7

(* A replica that stops or dies takes no copy with it.                     *)
LEMMA RuntimeKeepsWay ==
    ASSUME DeliveryInv, WayInv, NEW p \in Replicas,
           Start(p) \/ Cancel(p) \/ Wait(p) \/ Crash(p)
    PROVE  WayInv'
<1> USE DEF DeliveryInv, TypeOK
<1>1. UNCHANGED <<job, outbox, remembered, stream>>
  BY DEF Start, Cancel, Wait, Crash
<1>2. \A q \in Replicas, j \in Jobs : batch'[q][j] = batch[q][j] \/ batch'[q][j] = "no"
  <2>1. CASE Start(p) \/ Cancel(p) \/ Wait(p)
    BY <2>1 DEF Start, Cancel, Wait
  <2>2. CASE Crash(p)
    BY <2>2 DEF Crash
  <2>3. QED
    BY <2>1, <2>2
<1>3. \A m \in Messages, q \in Replicas : flight'[m][q] # "no" => flight[m][q] # "no"
  BY DEF Start, Cancel, Wait, Crash
<1>4. QED
  BY <1>1, <1>2, <1>3 DEF WayInv, Copied

-----------------------------------------------------------------------------
(* Types, claims and stopped replicas, in every state.                     *)
THEOREM DeliveryIsConsistent == Spec => []DeliveryInv
<1>1. Init => DeliveryInv
  <2> SUFFICES ASSUME Init PROVE DeliveryInv
    OBVIOUS
  <2>1. [state |-> "absent", n |-> 0, out |-> FALSE] \in Copy
    BY DeliveryAssumption DEF Copy
  <2>2. TypeOK
    BY <2>1, ClaimsBound, DeliveryAssumption DEF Init, TypeOK, Copy, JobStatus
  <2>3. ClaimInv /\ StoppedIsQuiet
    BY DEF Init, ClaimInv, StoppedIsQuiet, Idle
  <2>4. QED
    BY <2>2, <2>3 DEF DeliveryInv
<1>2. DeliveryInv /\ [Next]_vars => DeliveryInv'
  <2> SUFFICES ASSUME DeliveryInv, [Next]_vars PROVE DeliveryInv'
    OBVIOUS
  <2>1. CASE UNCHANGED vars
    BY <2>1 DEF vars, DeliveryInv, TypeOK, ClaimInv, StoppedIsQuiet, Idle
  <2>2. ASSUME NEW j \in Jobs, Enqueue(j) \/ LeaseExpires(j) \/ Clean(j)
        PROVE  DeliveryInv'
    BY <2>2, DispatchKeeps
  <2>3. ASSUME NEW p \in Replicas, NEW j \in Jobs, Lease(p, j) \/ Publish(p, j) \/ Mark(p, j)
        PROVE  DeliveryInv'
    BY <2>3, DispatchKeeps
  <2>4. QED
    BY <2>1, <2>2, <2>3, StreamKeeps, DeliverKeeps, HandleKeeps, FinishKeeps, RuntimeKeeps DEF Next
<1>3. QED
  BY <1>1, <1>2, PTL DEF Spec

(* A message is followed from its row in the outbox to the claim.          *)
THEOREM MessageIsFollowed == Spec => []WayInv
<1>1. Init => WayInv
  BY DeliveryAssumption DEF Init, WayInv, Copied
<1>2. DeliveryInv /\ WayInv /\ [Next]_vars => WayInv'
  <2> SUFFICES ASSUME DeliveryInv, WayInv, [Next]_vars PROVE WayInv'
    OBVIOUS
  <2>1. CASE UNCHANGED vars
    BY <2>1 DEF vars, WayInv, Copied
  <2>2. ASSUME NEW j \in Jobs, Enqueue(j) \/ LeaseExpires(j) \/ Clean(j)
        PROVE  WayInv'
    BY <2>2, DispatchKeepsWay
  <2>3. ASSUME NEW p \in Replicas, NEW j \in Jobs, Lease(p, j) \/ Publish(p, j) \/ Mark(p, j)
        PROVE  WayInv'
    BY <2>3, DispatchKeepsWay
  <2>4. QED
    BY <2>1, <2>2, <2>3, StreamKeepsWay, HandlersKeepWay, RuntimeKeepsWay DEF Next
<1>3. QED
  BY <1>1, <1>2, DeliveryIsConsistent, PTL DEF Spec

(* However often a message is published, delivered or handled, one worker  *)
(* runs the job: the claim is conditional on a status that only a claim    *)
(* ends.  Until then the message is in the outbox or in the stream.        *)
THEOREM OneClaimPerMessage == Spec => []ClaimedOnce
<1>1. DeliveryInv /\ WayInv => ClaimedOnce
  <2> SUFFICES ASSUME DeliveryInv, WayInv, NEW j \in Jobs
               PROVE  /\ claims[j] <= 1
                      /\ job[j] \in {"running", "ended"} => claims[j] = 1
                      /\ job[j] = "queued" => MessageKept(j)
    BY DEF ClaimedOnce
  <2>0. TypeOK
    BY DEF DeliveryInv
  <2>1. claims[j] <= 1 /\ (job[j] \in {"running", "ended"} => claims[j] = 1)
    BY DEF DeliveryInv, TypeOK, JobStatus, ClaimInv
  <2>2. ASSUME job[j] = "queued", outbox[j] \notin {"due", "leased"}
        PROVE  MessageKept(j)
    <3>1. outbox[j] \in {"published", "deleted"}
      BY <2>2 DEF DeliveryInv, TypeOK, WayInv
    <3>2. PICK m \in Messages : m[1] = j /\ stream[m].state # "absent"
      BY <3>1 DEF WayInv, Copied
    <3>3. stream[m].state = "held"
      <4>1. stream[m].state \in {"absent", "held", "acked"}
        BY ONLY <2>0, m \in Messages DEF TypeOK
      <4>2. stream[m].state # "acked"
        BY <2>2, <3>2 DEF WayInv
      <4>3. QED
        BY <3>2, <4>1, <4>2
    <3>4. m \in Copies(j)
      BY <3>2, DeliveryAssumption DEF Messages, Copies
    <3>5. QED
      BY <3>3, <3>4 DEF MessageKept
  <2>3. QED
    BY <2>1, <2>2 DEF MessageKept
<1>2. QED
  BY <1>1, DeliveryIsConsistent, MessageIsFollowed, PTL

(* stop returns when the dispatcher and every handler have returned.       *)
THEOREM StopWaitsForWork == Spec => []StoppedIsQuiet
<1>1. DeliveryInv => StoppedIsQuiet
  BY DEF DeliveryInv
<1>2. QED
  BY <1>1, DeliveryIsConsistent, PTL
=============================================================================
