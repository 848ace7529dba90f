------------------------- MODULE ImportSystemProofs -------------------------
(***************************************************************************)
(* Proofs about ImportSystem, for every set of jobs, files, clients,       *)
(* workers and cleaners and for every bound.                               *)
(***************************************************************************)
EXTENDS ImportSystem, TLAPS

(***************************************************************************)
(* What a statement does to a row, in the terms the proofs need: it moves  *)
(* one job to status s under the next version, with checksum f and confirm *)
(* key k, and leaves the other jobs alone.                                 *)
(***************************************************************************)
Sets(j, s, f, k) ==
    /\ row' \in [Jobs -> Row]
    /\ \A i \in Jobs \ {j} : row'[i] = row[i]
    /\ row'[j].version = row[j].version + 1
    /\ row'[j].status = s
    /\ row'[j].sum = f
    /\ row'[j].conf = k

LEMMA UpdateSets ==
    ASSUME row \in [Jobs -> Row], NEW j \in Jobs, NEW r \in Row,
           r.version = row[j].version, Update(j, r)
    PROVE  Sets(j, r.status, r.sum, r.conf)
<1> DEFINE bumped == [r EXCEPT !.version = @ + 1]
<1>1. /\ bumped \in Row
      /\ bumped.version = r.version + 1
      /\ bumped.status = r.status
      /\ bumped.sum = r.sum
      /\ bumped.conf = r.conf
  BY DEF Row
<1>2. row' = [row EXCEPT ![j] = bumped]
  BY DEF Update
<1> HIDE DEF bumped
<1>3. QED
  BY <1>1, <1>2 DEF Sets

(* The statements of repository.go, one by one.                            *)
LEMMA CreateSets ==
    ASSUME row \in [Jobs -> Row], NEW j \in Jobs,
           SqlCreate(j)
    PROVE  Sets(j, "uploading", row[j].sum, row[j].conf)
<1> DEFINE r == [row[j] EXCEPT !.status = "uploading", !.up = "future"]
<1>1. /\ r \in Row
      /\ r.version = row[j].version
      /\ r.status = "uploading"
      /\ r.sum = row[j].sum
      /\ r.conf = row[j].conf
  <2> row[j] \in Row
    OBVIOUS
  <2> QED
    BY DEF Row, Status, Cancelable, Retained, Deadline, FileOrNo
<1>2. Update(j, r)
  BY DEF SqlCreate
<1> HIDE DEF r
<1>3. QED
  BY <1>1, <1>2, UpdateSets

LEMMA CompleteUploadSets ==
    ASSUME row \in [Jobs -> Row], NEW j \in Jobs, NEW v, NEW f \in FileOrNo,
           SqlCompleteUpload(j, v, f)
    PROVE  Sets(j, "queued", f, row[j].conf)
<1> DEFINE r == [row[j] EXCEPT !.status = "queued", !.sum = f]
<1>1. /\ r \in Row
      /\ r.version = row[j].version
      /\ r.status = "queued"
      /\ r.sum = f
      /\ r.conf = row[j].conf
  <2> row[j] \in Row
    OBVIOUS
  <2> QED
    BY DEF Row, Status, Cancelable, Retained, Deadline, FileOrNo
<1>2. Update(j, r)
  BY DEF SqlCompleteUpload
<1> HIDE DEF r
<1>3. QED
  BY <1>1, <1>2, UpdateSets

LEMMA CancelSets ==
    ASSUME row \in [Jobs -> Row], NEW j \in Jobs, NEW v,
           SqlCancel(j, v)
    PROVE  Sets(j, "canceled", row[j].sum, row[j].conf)
<1> DEFINE r == [row[j] EXCEPT !.status = "canceled"]
<1>1. /\ r \in Row
      /\ r.version = row[j].version
      /\ r.status = "canceled"
      /\ r.sum = row[j].sum
      /\ r.conf = row[j].conf
  <2> row[j] \in Row
    OBVIOUS
  <2> QED
    BY DEF Row, Status, Cancelable, Retained, Deadline, FileOrNo
<1>2. Update(j, r)
  BY DEF SqlCancel
<1> HIDE DEF r
<1>3. QED
  BY <1>1, <1>2, UpdateSets

LEMMA RetrySets ==
    ASSUME row \in [Jobs -> Row], NEW j \in Jobs, NEW v,
           SqlRetry(j, v)
    PROVE  Sets(j, "uploading", NoFile, NoKey)
<1> DEFINE r == [row[j] EXCEPT !.status = "uploading", !.sum = NoFile,
                              !.bad = FALSE, !.conf = NoKey,
                              !.up = "future", !.res = "null"]
<1>1. /\ r \in Row
      /\ r.version = row[j].version
      /\ r.status = "uploading"
      /\ r.sum = NoFile
      /\ r.conf = NoKey
  <2> row[j] \in Row
    OBVIOUS
  <2> QED
    BY DEF Row, Status, Cancelable, Retained, Deadline, FileOrNo
<1>2. Update(j, r)
  BY DEF SqlRetry
<1> HIDE DEF r
<1>3. QED
  BY <1>1, <1>2, UpdateSets

LEMMA ConfirmSets ==
    ASSUME row \in [Jobs -> Row], NEW j \in Jobs, NEW v, NEW key \in ConfirmKeys,
           SqlConfirm(j, v, key)
    PROVE  Sets(j, "apply_queued", row[j].sum, key)
<1> DEFINE r == [row[j] EXCEPT !.status = "apply_queued", !.conf = key]
<1>1. /\ r \in Row
      /\ r.version = row[j].version
      /\ r.status = "apply_queued"
      /\ r.sum = row[j].sum
      /\ r.conf = key
  <2> row[j] \in Row
    OBVIOUS
  <2> QED
    BY DEF Row, Status, Cancelable, Retained, Deadline, FileOrNo
<1>2. Update(j, r)
  BY DEF SqlConfirm
<1> HIDE DEF r
<1>3. QED
  BY <1>1, <1>2, UpdateSets

LEMMA ClaimSets ==
    ASSUME row \in [Jobs -> Row], NEW j \in Jobs, NEW kind \in EventKind,
           SqlClaim(j, kind)
    PROVE  Sets(j, Claimed(kind), row[j].sum, row[j].conf)
<1> DEFINE r == [row[j] EXCEPT !.status = Claimed(kind)]
<1>1. /\ r \in Row
      /\ r.version = row[j].version
      /\ r.status = Claimed(kind)
      /\ r.sum = row[j].sum
      /\ r.conf = row[j].conf
  <2> row[j] \in Row
    OBVIOUS
  <2> QED
    BY DEF Row, Status, Cancelable, Retained, Deadline, FileOrNo, Claimed
<1>2. Update(j, r)
  BY DEF SqlClaim
<1> HIDE DEF r
<1>3. QED
  BY <1>1, <1>2, UpdateSets

LEMMA FinishValidationSets ==
    ASSUME row \in [Jobs -> Row], NEW j \in Jobs, NEW invalid \in BOOLEAN,
           SqlFinishValidation(j, invalid)
    PROVE  Sets(j, IF invalid THEN "validation_failed" ELSE "ready", row[j].sum, row[j].conf)
<1> DEFINE r == [row[j] EXCEPT !.bad = invalid, !.res = "future",
                    !.status = IF invalid THEN "validation_failed" ELSE "ready"]
<1>1. /\ r \in Row
      /\ r.version = row[j].version
      /\ r.status = IF invalid THEN "validation_failed" ELSE "ready"
      /\ r.sum = row[j].sum
      /\ r.conf = row[j].conf
  <2> row[j] \in Row
    OBVIOUS
  <2> QED
    BY DEF Row, Status, Cancelable, Retained, Deadline, FileOrNo
<1>2. Update(j, r)
  BY DEF SqlFinishValidation
<1> HIDE DEF r
<1>3. QED
  BY <1>1, <1>2, UpdateSets

LEMMA FinishApplySets ==
    ASSUME row \in [Jobs -> Row], NEW j \in Jobs,
           SqlFinishApply(j)
    PROVE  Sets(j, "succeeded", row[j].sum, row[j].conf)
<1> DEFINE r == [row[j] EXCEPT !.status = "succeeded", !.res = "future"]
<1>1. /\ r \in Row
      /\ r.version = row[j].version
      /\ r.status = "succeeded"
      /\ r.sum = row[j].sum
      /\ r.conf = row[j].conf
  <2> row[j] \in Row
    OBVIOUS
  <2> QED
    BY DEF Row, Status, Cancelable, Retained, Deadline, FileOrNo
<1>2. Update(j, r)
  BY DEF SqlFinishApply
<1> HIDE DEF r
<1>3. QED
  BY <1>1, <1>2, UpdateSets

LEMMA FailSets ==
    ASSUME row \in [Jobs -> Row], NEW j \in Jobs, NEW kind \in EventKind,
           SqlFail(j, kind)
    PROVE  Sets(j, "failed", row[j].sum, row[j].conf)
<1> DEFINE r == [row[j] EXCEPT !.status = "failed", !.res = "future"]
<1>1. /\ r \in Row
      /\ r.version = row[j].version
      /\ r.status = "failed"
      /\ r.sum = row[j].sum
      /\ r.conf = row[j].conf
  <2> row[j] \in Row
    OBVIOUS
  <2> QED
    BY DEF Row, Status, Cancelable, Retained, Deadline, FileOrNo
<1>2. Update(j, r)
  BY DEF SqlFail
<1> HIDE DEF r
<1>3. QED
  BY <1>1, <1>2, UpdateSets

LEMMA ExpireSets ==
    ASSUME row \in [Jobs -> Row], NEW j \in Jobs, NEW s,
           SqlExpire(j, s)
    PROVE  Sets(j, "expired", row[j].sum, row[j].conf)
<1> DEFINE r == [row[j] EXCEPT !.status = "expired"]
<1>1. /\ r \in Row
      /\ r.version = row[j].version
      /\ r.status = "expired"
      /\ r.sum = row[j].sum
      /\ r.conf = row[j].conf
  <2> row[j] \in Row
    OBVIOUS
  <2> QED
    BY DEF Row, Status, Cancelable, Retained, Deadline, FileOrNo
<1>2. Update(j, r)
  BY DEF SqlExpire
<1> HIDE DEF r
<1>3. QED
  BY <1>1, <1>2, UpdateSets

(* The two row changes that are no versioned update.                       *)
LEMMA DeleteKeeps ==
    ASSUME row \in [Jobs -> Row], NEW j \in Jobs, SqlDeleteExpired(j)
    PROVE  /\ row' \in [Jobs -> Row]
           /\ \A i \in Jobs \ {j} : row'[i] = row[i]
           /\ row'[j].status = "purged"
           /\ row'[j].version = row[j].version
           /\ row'[j].sum = row[j].sum
           /\ row'[j].conf = row[j].conf
<1> DEFINE r == [row[j] EXCEPT !.status = "purged"]
<1>1. /\ r \in Row
      /\ r.status = "purged"
      /\ r.version = row[j].version
      /\ r.sum = row[j].sum
      /\ r.conf = row[j].conf
  <2> row[j] \in Row
    OBVIOUS
  <2> QED
    BY DEF Row, Status
<1>2. row' = [row EXCEPT ![j] = r]
  BY DEF SqlDeleteExpired
<1> HIDE DEF r
<1>3. QED
  BY <1>1, <1>2

LEMMA DeadlineKeeps ==
    ASSUME row \in [Jobs -> Row], NEW j \in Jobs, DeadlinePasses(j)
    PROVE  /\ row' \in [Jobs -> Row]
           /\ \A i \in Jobs : /\ row'[i].status = row[i].status
                              /\ row'[i].version = row[i].version
                              /\ row'[i].sum = row[i].sum
                              /\ row'[i].conf = row[i].conf
<1> DEFINE u == [row[j] EXCEPT !.up = "past"]
           v == [row[j] EXCEPT !.res = "past"]
<1>1. \A r \in {u, v} : /\ r \in Row
                        /\ r.status = row[j].status
                        /\ r.version = row[j].version
                        /\ r.sum = row[j].sum
                        /\ r.conf = row[j].conf
  <2> row[j] \in Row
    OBVIOUS
  <2> QED
    BY DEF Row, Deadline
<1>2. \E r \in {u, v} : row' = [row EXCEPT ![j] = r]
  BY DEF DeadlinePasses
<1> HIDE DEF u, v
<1>3. PICK r \in {u, v} : row' = [row EXCEPT ![j] = r]
  BY <1>2
<1>4. QED
  BY <1>1, <1>3
-----------------------------------------------------------------------------
(* Type correctness.  What each process keeps is typed on its own.         *)

LEMMA EmitType ==
    ASSUME StoreTypeOK, NEW j \in Jobs, NEW kind \in EventKind, Emit(kind, j)
    PROVE  events' \subseteq Event
<1>1. row[j].version \in Nat
  BY DEF StoreTypeOK, Row
<1>2. [kind |-> kind, job |-> j, ver |-> row[j].version + 1] \in Event
  BY <1>1 DEF Event
<1>3. QED
  BY <1>2 DEF Emit, StoreTypeOK

LEMMA SeenType ==
    ASSUME StoreTypeOK, NEW j \in Jobs
    PROVE  Seen(j) \in View
<1>1. row[j] \in Row /\ hist[j] \in History
  BY DEF StoreTypeOK
<1>2. QED
  BY <1>1 DEF Seen, View, Row, History, FileOrNo

LEMMA ServiceStepType ==
    ASSUME TypeOK, ServiceStep
    PROVE  StoreTypeOK' /\ ServiceTypeOK'
<1> USE DEF TypeOK, ServiceTypeOK
<1>a. row \in [Jobs -> Row]
  BY DEF StoreTypeOK
<1>1. ASSUME NEW j \in Jobs, Create(j)
      PROVE  StoreTypeOK' /\ ServiceTypeOK'
  <2>1. row' \in [Jobs -> Row]
    BY <1>1, <1>a, CreateSets DEF Create, Sets
  <2>2. QED
    BY <1>1, <2>1 DEF Create, StoreTypeOK
<1>2. ASSUME NEW j \in Jobs, NEW f \in Files, Upload(j, f)
      PROVE  StoreTypeOK' /\ ServiceTypeOK'
  <2>1. [obj[j] EXCEPT !.src = f] \in Objects
    <3>1. obj[j] \in Objects
      BY DEF StoreTypeOK
    <3>2. QED
      BY <3>1 DEF Objects, FileOrNo
  <2>2. obj' \in [Jobs -> Objects]
    BY <1>2, <2>1 DEF Upload, StoreTypeOK
  <2>3. QED
    BY <1>2, <2>2 DEF Upload, StoreTypeOK
<1>3. ASSUME NEW j \in Jobs, NEW c \in Clients, Get(c, j)
      PROVE  StoreTypeOK' /\ ServiceTypeOK'
  <2>1. StoreTypeOK'
    BY <1>3 DEF Get, StoreTypeOK, storeVars
  <2>2. Seen(j) \in View
    BY SeenType
  <2>3. view' \in [Clients -> [Jobs -> View]]
    BY <1>3, <2>2 DEF Get
  <2>4. QED
    BY <2>1, <2>3
<1>b. ASSUME NEW j \in Jobs, NEW c \in Clients, NEW f \in FileOrNo,
             view' = [view EXCEPT ![c][j].claim = f]
      PROVE  ServiceTypeOK'
  <2>1. [view[c][j] EXCEPT !.claim = f] \in View
    <3>1. view[c][j] \in View
      OBVIOUS
    <3>2. QED
      BY <3>1 DEF View
  <2>2. QED
    BY <1>b, <2>1
<1>4. ASSUME NEW j \in Jobs, NEW c \in Clients, NEW f \in Files,
             CompleteUploadStat(c, j, f)
      PROVE  StoreTypeOK' /\ ServiceTypeOK'
  <2>1. StoreTypeOK'
    BY <1>4 DEF CompleteUploadStat, StoreTypeOK, storeVars
  <2>2. QED
    BY <1>4, <1>b, <2>1 DEF CompleteUploadStat, FileOrNo
<1>5. ASSUME NEW j \in Jobs, NEW c \in Clients, CompleteUpload(c, j)
      PROVE  StoreTypeOK' /\ ServiceTypeOK'
  <2>1. ServiceTypeOK'
    BY <1>5, <1>b DEF CompleteUpload, FileOrNo
  <2>2. view[c][j].claim \in FileOrNo
    BY DEF View
  <2>3. row' \in [Jobs -> Row]
    BY <1>5, <1>a, <2>2, CompleteUploadSets DEF CompleteUpload, Sets
  <2>4. events' \subseteq Event
    BY <1>5, EmitType DEF CompleteUpload, EventKind, StoreTypeOK
  <2>5. QED
    BY <1>5, <2>1, <2>3, <2>4 DEF CompleteUpload, StoreTypeOK
<1>6. ASSUME NEW j \in Jobs, NEW c \in Clients, Cancel(c, j)
      PROVE  StoreTypeOK' /\ ServiceTypeOK'
  <2>1. row' \in [Jobs -> Row]
    BY <1>6, <1>a, CancelSets DEF Cancel, Sets
  <2>2. [hist[j] EXCEPT !.cut = @ \/ row[j].status \in Running] \in History
    <3>1. hist[j] \in History
      BY DEF StoreTypeOK
    <3>2. QED
      BY <3>1 DEF History
  <2>3. hist' \in [Jobs -> History]
    BY <1>6, <2>2 DEF Cancel, StoreTypeOK
  <2>4. QED
    BY <1>6, <2>1, <2>3 DEF Cancel, StoreTypeOK
<1>7. ASSUME NEW j \in Jobs, NEW c \in Clients, Retry(c, j)
      PROVE  StoreTypeOK' /\ ServiceTypeOK'
  <2>1. row' \in [Jobs -> Row]
    BY <1>7, <1>a, RetrySets DEF Retry, Sets
  <2>2. [hist[j] EXCEPT !.attempt = @ + 1] \in History
    <3>1. hist[j] \in History
      BY DEF StoreTypeOK
    <3>2. hist[j].attempt + 1 \in 0..MaxAttempts
      BY <1>7, <3>1, BoundAssumption DEF Retry, History
    <3>3. QED
      BY <3>1, <3>2 DEF History
  <2>3. hist' \in [Jobs -> History]
    BY <1>7, <2>2 DEF Retry, StoreTypeOK
  <2>4. QED
    BY <1>7, <2>1, <2>3 DEF Retry, StoreTypeOK
<1>8. ASSUME NEW j \in Jobs, NEW c \in Clients, NEW key \in ConfirmKeys,
             Confirm(c, j, key)
      PROVE  StoreTypeOK' /\ ServiceTypeOK'
  <2>1. row' \in [Jobs -> Row]
    BY <1>8, <1>a, ConfirmSets DEF Confirm, Sets
  <2>2. [hist[j] EXCEPT !.confirmed = @ \cup {row[j].sum}] \in History
    <3>1. hist[j] \in History /\ row[j].sum \in FileOrNo
      BY DEF StoreTypeOK, Row
    <3>2. QED
      BY <3>1 DEF History
  <2>3. hist' \in [Jobs -> History]
    BY <1>8, <2>2 DEF Confirm, StoreTypeOK
  <2>4. events' \subseteq Event
    BY <1>8, EmitType DEF Confirm, EventKind
  <2>5. QED
    BY <1>8, <2>1, <2>3, <2>4 DEF Confirm, StoreTypeOK
<1>9. QED
  BY <1>1, <1>2, <1>3, <1>4, <1>5, <1>6, <1>7, <1>8 DEF ServiceStep

(* A busy worker works for a job, on a message of a known kind.            *)
LEMMA BusyType ==
    ASSUME StoreTypeOK, WorkerTypeOK, NEW w \in Workers, Busy(w)
    PROVE  /\ worker[w] \in Handler
           /\ worker[w].ev \in Event
           /\ JobOf(w) \in Jobs
           /\ worker[w].ev.kind \in EventKind
           /\ worker[w].attempt \in 0..MaxAttempts
           /\ row[JobOf(w)] \in Row
           /\ obj[JobOf(w)] \in Objects
           /\ hist[JobOf(w)] \in History
<1>1. worker[w] \in Handler
  BY DEF WorkerTypeOK, Busy, Idle
<1>2. QED
  BY <1>1 DEF Handler, Opening, Opened, Event, JobOf, StoreTypeOK

LEMMA WorkerStepType ==
    ASSUME TypeOK, NEW w \in Workers, WorkerStep(w)
    PROVE  StoreTypeOK' /\ WorkerTypeOK'
<1> USE DEF TypeOK
<1>a. row \in [Jobs -> Row]
  BY DEF StoreTypeOK
<1>b. ASSUME NEW h \in {Idle} \cup Handler, GoTo(w, h)
      PROVE  WorkerTypeOK'
  BY <1>b DEF GoTo, WorkerTypeOK
<1>c. Idle \in {Idle} \cup Handler
  OBVIOUS
<1>d. ASSUME NEW e, MayAck(e)
      PROVE  events' \subseteq Event
  BY <1>d DEF MayAck, StoreTypeOK
<1>1. ASSUME NEW e \in events, Claim(w, e)
      PROVE  StoreTypeOK' /\ WorkerTypeOK'
  <2>1. e \in Event /\ e.job \in Jobs /\ e.kind \in EventKind
    BY DEF StoreTypeOK, Event
  <2>2. row' \in [Jobs -> Row]
    BY <1>1, <1>a, <2>1, ClaimSets DEF Claim, Sets
  <2>3. hist[e.job].attempt \in 0..MaxAttempts
    BY <2>1 DEF StoreTypeOK, History
  <2>4. [pc |-> "claimed", ev |-> e, sum |-> NoFile, file |-> NoFile,
         batch |-> 0, attempt |-> hist[e.job].attempt] \in Handler
    BY <2>1, <2>3, FileAssumption DEF Handler, Opening, Opened, FileOrNo
  <2>5. WorkerTypeOK'
    BY <1>1, <1>b, <2>4 DEF Claim
  <2>6. QED
    BY <1>1, <2>2, <2>5 DEF Claim, StoreTypeOK
<1>2. ASSUME NEW e \in events, SkipDelivery(w, e)
      PROVE  StoreTypeOK' /\ WorkerTypeOK'
  BY <1>2, <1>d DEF SkipDelivery, StoreTypeOK, WorkerTypeOK
<1>3. CASE ReadClaimed(w)
  <2>1. Busy(w)
    BY <1>3 DEF ReadClaimed, Busy
  <2>2. [worker[w] EXCEPT !.pc = "read", !.sum = row[JobOf(w)].sum] \in Handler
    <3>1. row[JobOf(w)].sum \in FileOrNo
      BY <2>1, BusyType DEF Row
    <3>2. worker[w] \in Opening
      BY <1>3, <2>1, BusyType DEF ReadClaimed, Handler, Opened
    <3>3. QED
      BY <3>1, <3>2 DEF Handler, Opening
  <2>3. QED
    BY <1>3, <1>b, <2>2 DEF ReadClaimed, StoreTypeOK, storeVars
<1>4. CASE ReadNothing(w)
  BY <1>4, <1>b, <1>c DEF ReadNothing, StoreTypeOK, storeVars
<1>5. ASSUME NEW f \in Files, worker[w].pc = "read",
             GoTo(w, [worker[w] EXCEPT !.pc = "opened", !.file = f])
      PROVE  WorkerTypeOK'
  <2>1. worker[w] \in Opening
    BY <1>5, BusyType DEF Busy, Handler, Opened
  <2>2. [worker[w] EXCEPT !.pc = "opened", !.file = f] \in Handler
    <3>1. 0 \in 0..MaxBatches
      BY FileAssumption
    <3>2. QED
      BY <2>1, <3>1 DEF Handler, Opening, Opened
  <2>3. QED
    BY <1>5, <1>b, <2>2
<1>6. CASE OpenSource(w)
  <2>1. Busy(w)
    BY <1>6 DEF OpenSource, At, Busy
  <2>2. obj[JobOf(w)].src \in Files
    BY <1>6, <2>1, BusyType DEF OpenSource, Objects, FileOrNo
  <2>3. QED
    BY <1>6, <1>5, <2>2 DEF OpenSource, At, StoreTypeOK, storeVars
<1>7. CASE OpenNormalized(w)
  <2>1. Busy(w)
    BY <1>7 DEF OpenNormalized, At, Busy
  <2>2. obj[JobOf(w)].norm \in Files
    BY <1>7, <2>1, BusyType DEF OpenNormalized, Objects, FileOrNo
  <2>3. QED
    BY <1>7, <1>5, <2>2 DEF OpenNormalized, At, StoreTypeOK, storeVars
<1>8. CASE PutNormalized(w)
  <2>1. Busy(w)
    BY <1>8 DEF PutNormalized, At, Busy
  <2>2. worker[w] \in Opened /\ obj[JobOf(w)] \in Objects /\ JobOf(w) \in Jobs
    BY <1>8, <2>1, BusyType DEF PutNormalized, At, Handler, Opening
  <2>3. [obj[JobOf(w)] EXCEPT !.norm = worker[w].file] \in Objects
    BY <2>2 DEF Objects, Opened, FileOrNo
  <2>4. obj' \in [Jobs -> Objects]
    BY <1>8, <2>2, <2>3 DEF PutNormalized, StoreTypeOK
  <2>5. [worker[w] EXCEPT !.pc = "normalized"] \in Handler
    BY <2>2 DEF Handler, Opened
  <2>6. QED
    BY <1>8, <1>b, <2>4, <2>5 DEF PutNormalized, StoreTypeOK
<1>9. CASE PutReport(w)
  <2>1. Busy(w)
    BY <1>9 DEF PutReport, At, Busy
  <2>2. worker[w] \in Opened /\ obj[JobOf(w)] \in Objects /\ JobOf(w) \in Jobs
    BY <1>9, <2>1, BusyType DEF PutReport, At, Handler, Opening
  <2>3. [obj[JobOf(w)] EXCEPT !.rep = worker[w].file] \in Objects
    BY <2>2 DEF Objects, Opened, FileOrNo
  <2>4. obj' \in [Jobs -> Objects]
    BY <1>9, <2>2, <2>3 DEF PutReport, StoreTypeOK
  <2>5. [worker[w] EXCEPT !.pc = "reported"] \in Handler
    BY <2>2 DEF Handler, Opened
  <2>6. QED
    BY <1>9, <1>b, <2>4, <2>5 DEF PutReport, StoreTypeOK
<1>10. CASE FinishValidation(w)
  <2>1. Busy(w)
    BY <1>10 DEF FinishValidation, Validated, At, Busy
  <2>2. JobOf(w) \in Jobs
    BY <2>1, BusyType
  <2>3. HasInvalidRows(w) \in BOOLEAN
    BY DEF HasInvalidRows
  <2>4. row' \in [Jobs -> Row]
    <3>1. CASE SqlFinishValidation(JobOf(w), HasInvalidRows(w))
      BY <1>a, <2>2, <2>3, <3>1, FinishValidationSets DEF Sets
    <3>2. QED
      BY <1>10, <1>a, <3>1 DEF FinishValidation
  <2>5. events' \subseteq Event
    BY <1>10, <1>d DEF FinishValidation, StoreTypeOK
  <2>6. QED
    BY <1>10, <1>b, <1>c, <2>4, <2>5 DEF FinishValidation, StoreTypeOK
<1>11. CASE ApplyBatch(w)
  <2>1. Busy(w)
    BY <1>11 DEF ApplyBatch, At, Busy
  <2>2. worker[w] \in Opened /\ JobOf(w) \in Jobs
    BY <1>11, <2>1, BusyType DEF ApplyBatch, At, Handler, Opening
  <2>3. worker[w].file \in Files /\ worker[w].batch + 1 \in Batch
    <3>1. worker[w].file \in Files /\ worker[w].batch \in 0..MaxBatches
      BY <2>2 DEF Opened
    <3>2. BatchesOf[worker[w].file] \in 0..MaxBatches
      BY <3>1, FileAssumption
    <3>3. QED
      BY <1>11, <3>1, <3>2, FileAssumption DEF ApplyBatch, BatchLeft, Batch
  <2>4. applied' \in [Jobs -> [Batch -> FileOrNo]]
    BY <1>11, <2>2, <2>3 DEF ApplyBatch, ProviderApply, StoreTypeOK, FileOrNo
  <2>5. [worker[w] EXCEPT !.batch = @ + 1] \in Handler
    BY <2>2, <2>3 DEF Handler, Opened, Batch
  <2>6. QED
    BY <1>11, <1>b, <2>4, <2>5 DEF ApplyBatch, StoreTypeOK
<1>12. CASE FinishApply(w)
  <2>1. Busy(w)
    BY <1>12 DEF FinishApply, At, Busy
  <2>2. JobOf(w) \in Jobs
    BY <2>1, BusyType
  <2>3. row' \in [Jobs -> Row]
    BY <1>12, <1>a, <2>2, FinishApplySets DEF FinishApply, Sets
  <2>4. events' \subseteq Event
    BY <1>12, <1>d DEF FinishApply, StoreTypeOK
  <2>5. QED
    BY <1>12, <1>b, <1>c, <2>3, <2>4 DEF FinishApply, StoreTypeOK
<1>13. CASE Fail(w)
  <2>1. Busy(w)
    BY <1>13 DEF Fail, Busy
  <2>2. JobOf(w) \in Jobs /\ worker[w].ev.kind \in EventKind
    BY <2>1, BusyType
  <2>3. row' \in [Jobs -> Row]
    BY <1>13, <1>a, <2>2, FailSets DEF Fail, Sets
  <2>4. QED
    BY <1>13, <1>b, <1>c, <2>3 DEF Fail, StoreTypeOK
<1>14. QED
  BY <1>1, <1>2, <1>3, <1>4, <1>6, <1>7, <1>8, <1>9, <1>10, <1>11, <1>12, <1>13
     DEF WorkerStep

LEMMA CleanerStepType ==
    ASSUME TypeOK, NEW k \in Cleaners, CleanerStep(k)
    PROVE  StoreTypeOK' /\ CleanerTypeOK'
<1> USE DEF TypeOK
<1>a. row \in [Jobs -> Row]
  BY DEF StoreTypeOK
<1>b. ASSUME NEW s \in {Resting} \cup Picking \cup Sweeping, CleanerTo(k, s)
      PROVE  CleanerTypeOK'
  BY <1>b DEF CleanerTo, CleanerTypeOK
<1>c. ASSUME cleaner[k].pc \in {"norm", "rep", "expire"}
      PROVE  cleaner[k] \in Sweeping
  BY <1>c DEF CleanerTypeOK, Resting, Picking
<1>d. ASSUME NEW j \in Jobs, obj[j] \in Objects
      PROVE  /\ [obj[j] EXCEPT !.src = NoFile] \in Objects
             /\ [obj[j] EXCEPT !.norm = NoFile] \in Objects
             /\ [obj[j] EXCEPT !.rep = NoFile] \in Objects
  BY <1>d DEF Objects, FileOrNo
<1>1. CASE List(k)
  <2>1. PICK S \in SUBSET ListExpired :
            CleanerTo(k, [pc |-> "pick", todo |-> {<<j, row[j].status>> : j \in S}])
    BY <1>1 DEF List
  <2>2. \A j \in S : j \in Jobs /\ row[j].status \in Listable
    BY DEF ListExpired, Listable
  <2>3. {<<j, row[j].status>> : j \in S} \in Listing
    BY <2>2 DEF Listing
  <2>4. [pc |-> "pick", todo |-> {<<j, row[j].status>> : j \in S}] \in Picking
    BY <2>3 DEF Picking
  <2>5. QED
    BY <1>1, <1>b, <2>1, <2>4 DEF List, StoreTypeOK, storeVars
<1>2. ASSUME NEW p \in cleaner[k].todo, DeleteSource(k, p)
      PROVE  StoreTypeOK' /\ CleanerTypeOK'
  <2>1. cleaner[k] \in Picking
    BY <1>2 DEF DeleteSource, CleanerTypeOK, Resting, Sweeping
  <2>2. p \in Jobs \X Listable /\ cleaner[k].todo \ {p} \in Listing
    BY <2>1 DEF Picking, Listing
  <2>3. p[1] \in Jobs /\ p[2] \in Listable
    BY <2>2
  <2>4. obj[p[1]] \in Objects /\ hist[p[1]] \in History
    BY <2>3 DEF StoreTypeOK
  <2>5. obj' \in [Jobs -> Objects]
    BY <1>2, <1>d, <2>3, <2>4 DEF DeleteSource, StoreTypeOK
  <2>6. hist' \in [Jobs -> History]
    <3>1. [hist[p[1]] EXCEPT !.swept = TRUE] \in History
      BY <2>4 DEF History
    <3>2. QED
      BY <1>2, <2>3, <3>1 DEF DeleteSource, StoreTypeOK
  <2>7. [pc |-> "norm", todo |-> cleaner[k].todo \ {p},
         job |-> p[1], seen |-> p[2]] \in Sweeping
    BY <2>2, <2>3 DEF Sweeping
  <2>8. QED
    BY <1>2, <1>b, <2>5, <2>6, <2>7 DEF DeleteSource, StoreTypeOK
<1>3. CASE DeleteNormalized(k)
  <2>1. cleaner[k] \in Sweeping
    BY <1>3, <1>c DEF DeleteNormalized
  <2>2. cleaner[k].job \in Jobs /\ [cleaner[k] EXCEPT !.pc = "rep"] \in Sweeping
    BY <2>1 DEF Sweeping
  <2>3. obj' \in [Jobs -> Objects]
    BY <1>3, <1>d, <2>2 DEF DeleteNormalized, StoreTypeOK
  <2>4. QED
    BY <1>3, <1>b, <2>2, <2>3 DEF DeleteNormalized, StoreTypeOK
<1>4. CASE DeleteReport(k)
  <2>1. cleaner[k] \in Sweeping
    BY <1>4, <1>c DEF DeleteReport
  <2>2. cleaner[k].job \in Jobs /\ [cleaner[k] EXCEPT !.pc = "expire"] \in Sweeping
    BY <2>1 DEF Sweeping
  <2>3. obj' \in [Jobs -> Objects]
    BY <1>4, <1>d, <2>2 DEF DeleteReport, StoreTypeOK
  <2>4. QED
    BY <1>4, <1>b, <2>2, <2>3 DEF DeleteReport, StoreTypeOK
<1>5. CASE Expire(k)
  <2>1. cleaner[k] \in Sweeping
    BY <1>5, <1>c DEF Expire
  <2>2. cleaner[k].job \in Jobs /\ cleaner[k].todo \in Listing
    BY <2>1 DEF Sweeping
  <2>3. row' \in [Jobs -> Row]
    BY <1>5, <1>a, <2>2, ExpireSets DEF Expire, Sets
  <2>4. [pc |-> "pick", todo |-> cleaner[k].todo] \in Picking
    BY <2>2 DEF Picking
  <2>5. CleanerTypeOK'
    BY <1>5, <1>b, <2>4 DEF Expire
  <2>6. QED
    BY <1>5, <2>3, <2>5 DEF Expire, StoreTypeOK
<1>6. QED
  BY <1>1, <1>2, <1>3, <1>4, <1>5 DEF CleanerStep

LEMMA FaultsType ==
    ASSUME TypeOK, Faults
    PROVE  TypeOK'
<1> USE DEF TypeOK
<1>1. ASSUME NEW w \in Workers, Lose(w), UNCHANGED <<view, cleaner>>
      PROVE  TypeOK'
  <2>1. JobOf(w) \in Jobs /\ hist[JobOf(w)] \in History
    BY <1>1, BusyType DEF Lose
  <2>2. worker[w].ev.kind \in EventKind /\ worker[w].attempt \in 0..MaxAttempts
    BY <1>1, BusyType DEF Lose
  <2>3. [hist[JobOf(w)] EXCEPT !.lost =
            @ \cup {<<worker[w].ev.kind, worker[w].attempt>>}] \in History
    BY <2>1, <2>2 DEF History
  <2>4. hist' \in [Jobs -> History]
    BY <1>1, <2>1, <2>3 DEF Lose, StoreTypeOK
  <2>5. faults' \in 0..MaxFaults
    BY <1>1, BoundAssumption DEF Lose, StoreTypeOK
  <2>6. WorkerTypeOK'
    BY <1>1 DEF Lose, GoTo, WorkerTypeOK
  <2>7. QED
    BY <1>1, <2>4, <2>5, <2>6
       DEF Lose, StoreTypeOK, ServiceTypeOK, CleanerTypeOK
<1>2. ASSUME NEW k \in Cleaners, Abort(k), UNCHANGED <<view, worker>>
      PROVE  TypeOK'
  <2>1. faults' \in 0..MaxFaults
    BY <1>2, BoundAssumption DEF Abort, StoreTypeOK
  <2>2. CleanerTypeOK'
    BY <1>2 DEF Abort, CleanerTo, CleanerTypeOK
  <2>3. QED
    BY <1>2, <2>1, <2>2 DEF Abort, StoreTypeOK, ServiceTypeOK, WorkerTypeOK
<1>3. QED
  BY <1>1, <1>2 DEF Faults

(* No sequence of requests, deliveries, sweeps, deadlines and faults takes *)
(* the state of the service out of its declared sets; in particular no     *)
(* handler applies more batches than its file has.                         *)
THEOREM TypeCorrect == Spec => []TypeOK
<1>1. Init => TypeOK
  <2> SUFFICES ASSUME Init PROVE TypeOK
    OBVIOUS
  <2> USE DEF Init
  <2>1. StoreTypeOK
    BY FileAssumption, BoundAssumption
       DEF StoreInit, StoreTypeOK, Row, Status, Deadline, FileOrNo, Objects,
           Event, Batch, History
  <2>2. ServiceTypeOK
    BY <2>1, SeenType DEF ServiceInit, ServiceTypeOK
  <2>3. QED
    BY <2>1, <2>2 DEF TypeOK, WorkerInit, WorkerTypeOK, CleanerInit, CleanerTypeOK
<1>2. TypeOK /\ [Next]_vars => TypeOK'
  <2> SUFFICES ASSUME TypeOK, [Next]_vars PROVE TypeOK'
    OBVIOUS
  <2>1. CASE Requests
    BY <2>1, ServiceStepType DEF Requests, TypeOK, WorkerTypeOK, CleanerTypeOK
  <2>2. ASSUME NEW w \in Workers, Work(w) PROVE TypeOK'
    BY <2>2, WorkerStepType DEF Work, TypeOK, ServiceTypeOK, CleanerTypeOK
  <2>3. ASSUME NEW k \in Cleaners, Sweep(k) PROVE TypeOK'
    BY <2>3, CleanerStepType DEF Sweep, TypeOK, ServiceTypeOK, WorkerTypeOK
  <2>4. ASSUME NEW j \in Jobs, Time(j) PROVE TypeOK'
    BY <2>4, DeadlineKeeps
       DEF Time, DeadlinePasses, TypeOK, StoreTypeOK, ServiceTypeOK,
           WorkerTypeOK, CleanerTypeOK
  <2>5. ASSUME NEW j \in Jobs, Purging(j) PROVE TypeOK'
    BY <2>5, DeleteKeeps
       DEF Purging, Purge, TypeOK, StoreTypeOK, ServiceTypeOK, WorkerTypeOK,
           CleanerTypeOK
  <2>6. CASE Faults
    BY <2>6, FaultsType
  <2>7. CASE UNCHANGED vars
    BY <2>7 DEF vars, TypeOK, StoreTypeOK, ServiceTypeOK, WorkerTypeOK,
                CleanerTypeOK
  <2>8. QED
    BY <2>1, <2>2, <2>3, <2>4, <2>5, <2>6, <2>7 DEF Next
<1>3. QED
  BY <1>1, <1>2, PTL DEF Spec
-----------------------------------------------------------------------------
(***************************************************************************)
(* What a step of the system can do to the rows: nothing that matters      *)
(* here, one edge of the life cycle under a new version, with a message if *)
(* a worker has to follow and a worker if the edge is a claim, or the      *)
(* deletion of an expired row.                                             *)
(***************************************************************************)
Same(i) ==
    /\ row'[i].version = row[i].version
    /\ row'[i].status = row[i].status
    /\ row'[i].sum = row[i].sum
    /\ row'[i].conf = row[i].conf
    /\ hist'[i].attempt = hist[i].attempt

Moves(j) ==
    /\ \A i \in Jobs \ {j} : Same(i)
    /\ row'[j].version = row[j].version + 1
    /\ row'[j].status \in Lifecycle!Successors[row[j].status]
    /\ \/ row'[j].conf = row[j].conf
       \/ row'[j].conf = NoKey
       \/ row'[j].status = "apply_queued"
    /\ (row'[j].status = "uploading" /\ row[j].status # "none") =>
            row'[j].conf = NoKey
    /\ \A kind \in EventKind : row'[j].status = Waiting(kind) =>
            [kind |-> kind, job |-> j, ver |-> row'[j].version] \in events'
    /\ \A kind \in EventKind : row'[j].status = Claimed(kind) =>
            \E w \in Workers : WorksOn(w, kind, j)'

Forgets(j) ==
    /\ \A i \in Jobs \ {j} : Same(i)
    /\ row[j].status = "expired"
    /\ row'[j].status = "purged"
    /\ row'[j].version = row[j].version
    /\ row'[j].sum = row[j].sum
    /\ row'[j].conf = row[j].conf
    /\ hist'[j].attempt = hist[j].attempt

RowStep ==
    \/ \A i \in Jobs : Same(i)
    \/ \E j \in Jobs : Moves(j)
    \/ \E j \in Jobs : Forgets(j)

LEMMA RowsUntouched ==
    ASSUME UNCHANGED row, \A i \in Jobs : hist'[i].attempt = hist[i].attempt
    PROVE  RowStep
BY DEF RowStep, Same

(* The history fields other than attempt leave attempt alone.              *)
LEMMA HistoryKeepsAttempt ==
    ASSUME hist \in [Jobs -> History], NEW j \in Jobs, NEW x,
           \/ hist' = [hist EXCEPT ![j].cut = x]
           \/ hist' = [hist EXCEPT ![j].swept = x]
           \/ hist' = [hist EXCEPT ![j].confirmed = x]
           \/ hist' = [hist EXCEPT ![j].lost = x]
    PROVE  \A i \in Jobs : hist'[i].attempt = hist[i].attempt
<1>1. hist[j] \in History
  OBVIOUS
<1>2. /\ [hist[j] EXCEPT !.cut = x].attempt = hist[j].attempt
      /\ [hist[j] EXCEPT !.swept = x].attempt = hist[j].attempt
      /\ [hist[j] EXCEPT !.confirmed = x].attempt = hist[j].attempt
      /\ [hist[j] EXCEPT !.lost = x].attempt = hist[j].attempt
  BY <1>1 DEF History
<1>3. QED
  BY <1>2

LEMMA ServiceRowStep ==
    ASSUME TypeOK, ServiceStep
    PROVE  RowStep
<1>a. row \in [Jobs -> Row] /\ hist \in [Jobs -> History]
  BY DEF TypeOK, StoreTypeOK
<1>1. ASSUME NEW j \in Jobs, Create(j)
      PROVE  RowStep
  <2>1. Sets(j, "uploading", row[j].sum, row[j].conf)
    BY <1>1, <1>a, CreateSets DEF Create
  <2>2. Moves(j)
    BY <1>1, <2>1 DEF Create, SqlCreate, Sets, Moves, Same, Waiting, Claimed, Lifecycle!Successors
  <2>3. QED
    BY <2>2 DEF RowStep
<1>2. ASSUME NEW j \in Jobs, NEW f \in Files, Upload(j, f)
      PROVE  RowStep
  BY <1>2, RowsUntouched DEF Upload
<1>3. ASSUME NEW j \in Jobs, NEW c \in Clients, Get(c, j)
      PROVE  RowStep
  BY <1>3, RowsUntouched DEF Get, storeVars
<1>4. ASSUME NEW j \in Jobs, NEW c \in Clients, NEW f \in Files,
             CompleteUploadStat(c, j, f)
      PROVE  RowStep
  BY <1>4, RowsUntouched DEF CompleteUploadStat, storeVars
<1>5. ASSUME NEW j \in Jobs, NEW c \in Clients, CompleteUpload(c, j)
      PROVE  RowStep
  <2>1. CASE UNCHANGED row
    BY <1>5, <2>1, RowsUntouched DEF CompleteUpload
  <2>2. CASE SqlCompleteUpload(j, view[c][j].version, view[c][j].claim)
    <3>1. view[c][j].claim \in FileOrNo
      BY DEF TypeOK, ServiceTypeOK, View
    <3>2. Sets(j, "queued", view[c][j].claim, row[j].conf)
      BY <1>a, <2>2, <3>1, CompleteUploadSets
    <3>3. Moves(j)
      BY <1>5, <2>2, <3>2
         DEF CompleteUpload, SqlCompleteUpload, Emit, EventKind, Sets, Moves, Same, Waiting, Claimed,
             Lifecycle!Successors
    <3>4. QED
      BY <3>3 DEF RowStep
  <2>3. QED
    BY <1>5, <2>1, <2>2 DEF CompleteUpload
<1>6. ASSUME NEW j \in Jobs, NEW c \in Clients, Cancel(c, j)
      PROVE  RowStep
  <2>1. Sets(j, "canceled", row[j].sum, row[j].conf)
    BY <1>6, <1>a, CancelSets DEF Cancel
  <2>2. \A i \in Jobs : hist'[i].attempt = hist[i].attempt
    BY <1>6, <1>a, HistoryKeepsAttempt DEF Cancel
  <2>3. Moves(j)
    BY <1>6, <2>1, <2>2
       DEF Cancel, SqlCancel, Cancelable, Sets, Moves, Same, Waiting, Claimed, Lifecycle!Successors
  <2>4. QED
    BY <2>3 DEF RowStep
<1>7. ASSUME NEW j \in Jobs, NEW c \in Clients, Retry(c, j)
      PROVE  RowStep
  <2>1. Sets(j, "uploading", NoFile, NoKey)
    BY <1>7, <1>a, RetrySets DEF Retry
  <2>2. \A i \in Jobs \ {j} : hist'[i].attempt = hist[i].attempt
    BY <1>7, <1>a DEF Retry
  <2>3. Moves(j)
    BY <1>7, <2>1, <2>2
       DEF Retry, SqlRetry, Retryable, Sets, Moves, Same, Waiting, Claimed, Lifecycle!Successors
  <2>4. QED
    BY <2>3 DEF RowStep
<1>8. ASSUME NEW j \in Jobs, NEW c \in Clients, NEW key \in ConfirmKeys,
             Confirm(c, j, key)
      PROVE  RowStep
  <2>1. Sets(j, "apply_queued", row[j].sum, key)
    BY <1>8, <1>a, ConfirmSets DEF Confirm
  <2>2. \A i \in Jobs : hist'[i].attempt = hist[i].attempt
    BY <1>8, <1>a, HistoryKeepsAttempt DEF Confirm
  <2>3. Moves(j)
    BY <1>8, <2>1, <2>2
       DEF Confirm, SqlConfirm, Emit, EventKind, Sets, Moves, Same, Waiting, Claimed, Lifecycle!Successors
  <2>4. QED
    BY <2>3 DEF RowStep
<1>9. QED
  BY <1>1, <1>2, <1>3, <1>4, <1>5, <1>6, <1>7, <1>8 DEF ServiceStep

LEMMA WorkerRowStep ==
    ASSUME TypeOK, NEW w \in Workers, WorkerStep(w)
    PROVE  RowStep
<1>a. row \in [Jobs -> Row] /\ StoreTypeOK /\ WorkerTypeOK
  BY DEF TypeOK, StoreTypeOK
<1>1. ASSUME NEW e \in events, Claim(w, e)
      PROVE  RowStep
  <2>1. e.job \in Jobs /\ e.kind \in EventKind
    BY <1>a DEF StoreTypeOK, Event
  <2>2. Sets(e.job, Claimed(e.kind), row[e.job].sum, row[e.job].conf)
    BY <1>1, <1>a, <2>1, ClaimSets DEF Claim
  <2>3. WorksOn(w, e.kind, e.job)'
    <3> DEFINE h == [pc |-> "claimed", ev |-> e, sum |-> NoFile, file |-> NoFile,
                     batch |-> 0, attempt |-> hist[e.job].attempt]
    <3>1. worker' = [worker EXCEPT ![w] = h] /\ hist' = hist
      BY <1>1 DEF Claim, GoTo
    <3>2. worker'[w] = h
      BY <1>a, <3>1 DEF WorkerTypeOK
    <3>3. QED
      BY <3>1, <3>2 DEF WorksOn, Busy, JobOf
  <2>4. Moves(e.job)
    BY <1>1, <2>1, <2>2, <2>3
       DEF Claim, SqlClaim, Waiting, Claimed, EventKind, Sets, Moves, Same,
           Lifecycle!Successors
  <2>5. QED
    BY <2>1, <2>4 DEF RowStep
<1>2. ASSUME NEW e \in events, SkipDelivery(w, e)
      PROVE  RowStep
  BY <1>2, RowsUntouched DEF SkipDelivery
<1>3. CASE ReadClaimed(w) \/ ReadNothing(w) \/ OpenSource(w) \/ OpenNormalized(w)
  BY <1>3, RowsUntouched
     DEF ReadClaimed, ReadNothing, OpenSource, OpenNormalized, storeVars
<1>4. CASE PutNormalized(w) \/ PutReport(w) \/ ApplyBatch(w)
  BY <1>4, RowsUntouched DEF PutNormalized, PutReport, ApplyBatch
<1>5. CASE FinishValidation(w)
  <2>1. CASE UNCHANGED row
    BY <1>5, <2>1, RowsUntouched DEF FinishValidation
  <2>2. CASE SqlFinishValidation(JobOf(w), HasInvalidRows(w))
    <3>1. JobOf(w) \in Jobs
      BY <1>5, <1>a, BusyType DEF FinishValidation, Validated, At, Busy
    <3>2. HasInvalidRows(w) \in BOOLEAN
      BY DEF HasInvalidRows
    <3>3. Sets(JobOf(w), IF HasInvalidRows(w) THEN "validation_failed" ELSE "ready",
               row[JobOf(w)].sum, row[JobOf(w)].conf)
      BY <1>a, <2>2, <3>1, <3>2, FinishValidationSets
    <3>4. Moves(JobOf(w))
      BY <1>5, <2>2, <3>3
         DEF FinishValidation, SqlFinishValidation, Sets, Moves, Same, Waiting, Claimed,
             Lifecycle!Successors
    <3>5. QED
      BY <3>1, <3>4 DEF RowStep
  <2>3. QED
    BY <1>5, <2>1, <2>2 DEF FinishValidation
<1>6. CASE FinishApply(w)
  <2>1. CASE UNCHANGED row
    BY <1>6, <2>1, RowsUntouched DEF FinishApply
  <2>2. CASE SqlFinishApply(JobOf(w))
    <3>1. JobOf(w) \in Jobs
      BY <1>6, <1>a, BusyType DEF FinishApply, At, Busy
    <3>2. Sets(JobOf(w), "succeeded", row[JobOf(w)].sum, row[JobOf(w)].conf)
      BY <1>a, <2>2, <3>1, FinishApplySets
    <3>3. Moves(JobOf(w))
      BY <1>6, <2>2, <3>2
         DEF FinishApply, SqlFinishApply, Sets, Moves, Same, Waiting, Claimed, Lifecycle!Successors
    <3>4. QED
      BY <3>1, <3>3 DEF RowStep
  <2>3. QED
    BY <1>6, <2>1, <2>2 DEF FinishApply
<1>7. CASE Fail(w)
  <2>1. CASE UNCHANGED row
    BY <1>7, <2>1, RowsUntouched DEF Fail
  <2>2. CASE SqlFail(JobOf(w), worker[w].ev.kind)
    <3>1. JobOf(w) \in Jobs /\ worker[w].ev.kind \in EventKind
      BY <1>7, <1>a, BusyType DEF Fail, Busy
    <3>2. Sets(JobOf(w), "failed", row[JobOf(w)].sum, row[JobOf(w)].conf)
      BY <1>a, <2>2, <3>1, FailSets
    <3>3. Moves(JobOf(w))
      BY <1>7, <2>2, <3>1, <3>2
         DEF Fail, SqlFail, EventKind, Sets, Moves, Same, Waiting, Claimed,
             Lifecycle!Successors
    <3>4. QED
      BY <3>1, <3>3 DEF RowStep
  <2>3. QED
    BY <1>7, <2>1, <2>2 DEF Fail
<1>8. QED
  BY <1>1, <1>2, <1>3, <1>4, <1>5, <1>6, <1>7 DEF WorkerStep

LEMMA CleanerRowStep ==
    ASSUME TypeOK, NEW k \in Cleaners, CleanerStep(k)
    PROVE  RowStep
<1>a. row \in [Jobs -> Row] /\ hist \in [Jobs -> History]
  BY DEF TypeOK, StoreTypeOK
<1>1. CASE List(k)
  BY <1>1, RowsUntouched DEF List, storeVars
<1>2. ASSUME NEW p \in cleaner[k].todo, DeleteSource(k, p)
      PROVE  RowStep
  <2>1. cleaner[k] \in Picking
    BY <1>2 DEF DeleteSource, TypeOK, CleanerTypeOK, Resting, Sweeping
  <2>2. p \in Jobs \X Listable
    BY <2>1 DEF Picking, Listing
  <2>3. p[1] \in Jobs
    BY <2>2
  <2>4. \A i \in Jobs : hist'[i].attempt = hist[i].attempt
    BY <1>2, <1>a, <2>3, HistoryKeepsAttempt DEF DeleteSource
  <2>5. QED
    BY <1>2, <2>4, RowsUntouched DEF DeleteSource
<1>3. CASE DeleteNormalized(k) \/ DeleteReport(k)
  BY <1>3, RowsUntouched DEF DeleteNormalized, DeleteReport
<1>4. CASE Expire(k)
  <2>1. CASE UNCHANGED row
    BY <1>4, <2>1, RowsUntouched DEF Expire
  <2>2. CASE SqlExpire(cleaner[k].job, cleaner[k].seen)
    <3>1. cleaner[k] \in Sweeping
      BY <1>4 DEF Expire, TypeOK, CleanerTypeOK, Resting, Picking
    <3>2. cleaner[k].job \in Jobs /\ cleaner[k].seen \in Listable
      BY <3>1 DEF Sweeping
    <3>3. Sets(cleaner[k].job, "expired", row[cleaner[k].job].sum,
               row[cleaner[k].job].conf)
      BY <1>a, <2>2, <3>2, ExpireSets
    <3>4. row[cleaner[k].job].status \in Listable
      BY <2>2, <3>2 DEF SqlExpire
    <3>5. Moves(cleaner[k].job)
      BY <1>4, <3>3, <3>4
         DEF Expire, Listable, Retained, Sets, Moves, Same, Waiting, Claimed, Lifecycle!Successors
    <3>6. QED
      BY <3>2, <3>5 DEF RowStep
  <2>3. QED
    BY <1>4, <2>1, <2>2 DEF Expire
<1>5. QED
  BY <1>1, <1>2, <1>3, <1>4 DEF CleanerStep

LEMMA NextRowStep ==
    ASSUME TypeOK, [Next]_vars
    PROVE  RowStep
<1>a. row \in [Jobs -> Row] /\ hist \in [Jobs -> History]
  BY DEF TypeOK, StoreTypeOK
<1>1. CASE Requests
  BY <1>1, ServiceRowStep DEF Requests
<1>2. ASSUME NEW w \in Workers, Work(w) PROVE RowStep
  BY <1>2, WorkerRowStep DEF Work
<1>3. ASSUME NEW k \in Cleaners, Sweep(k) PROVE RowStep
  BY <1>3, CleanerRowStep DEF Sweep
<1>4. ASSUME NEW j \in Jobs, Time(j) PROVE RowStep
  BY <1>4, <1>a, DeadlineKeeps DEF Time, DeadlinePasses, RowStep, Same
<1>5. ASSUME NEW j \in Jobs, Purging(j) PROVE RowStep
  <2>1. Forgets(j)
    BY <1>5, <1>a, DeleteKeeps
       DEF Purging, Purge, SqlDeleteExpired, Forgets, Same
  <2>2. QED
    BY <2>1 DEF RowStep
<1>6. CASE Faults
  <2>1. ASSUME NEW w \in Workers, Lose(w) PROVE RowStep
    <3>1. JobOf(w) \in Jobs
      BY <2>1, BusyType DEF Lose, TypeOK
    <3>2. \A i \in Jobs : hist'[i].attempt = hist[i].attempt
      BY <2>1, <1>a, <3>1, HistoryKeepsAttempt DEF Lose
    <3>3. QED
      BY <2>1, <3>2, RowsUntouched DEF Lose
  <2>2. ASSUME NEW k \in Cleaners, Abort(k) PROVE RowStep
    BY <2>2, RowsUntouched DEF Abort
  <2>3. QED
    BY <1>6, <2>1, <2>2 DEF Faults
<1>7. CASE UNCHANGED vars
  BY <1>7, RowsUntouched DEF vars
<1>8. QED
  BY <1>1, <1>2, <1>3, <1>4, <1>5, <1>6, <1>7 DEF Next
-----------------------------------------------------------------------------
(* The detailed specification implements the life cycle: every status      *)
(* change of every job is an edge of the documented diagram taken under a  *)
(* version of its own, whichever of clients, workers and cleaners race.    *)
THEOREM ImplementsLifecycle == Spec => LifecycleSpec
<1>1. Init => Lifecycle!Init
  BY DEF Init, StoreInit, Lifecycle!Init
<1>2. TypeOK /\ [Next]_vars => [Lifecycle!Next]_(Lifecycle!lifecycleVars)
  <2> SUFFICES ASSUME TypeOK, [Next]_vars
               PROVE  [Lifecycle!Next]_(Lifecycle!lifecycleVars)
    OBVIOUS
  <2> DEFINE st == [i \in Jobs |-> row[i].status]
             ve == [i \in Jobs |-> row[i].version]
  <2>1. CASE \A i \in Jobs : Same(i)
    BY <2>1 DEF Same, Lifecycle!lifecycleVars
  <2>2. ASSUME NEW j \in Jobs, Moves(j)
        PROVE  Lifecycle!Next
    <3>1. st' = [st EXCEPT ![j] = row'[j].status]
      BY <2>2 DEF Moves, Same
    <3>2. ve' = [ve EXCEPT ![j] = @ + 1]
      BY <2>2 DEF Moves, Same
    <3>3. Lifecycle!Advance(j)
      BY <2>2, <3>1, <3>2 DEF Moves, Lifecycle!Advance
    <3>4. QED
      BY <3>3 DEF Lifecycle!Next
  <2>3. ASSUME NEW j \in Jobs, Forgets(j)
        PROVE  Lifecycle!Next
    <3>1. st' = [st EXCEPT ![j] = "purged"] /\ ve' = ve
      BY <2>3 DEF Forgets, Same
    <3>2. Lifecycle!Forget(j)
      BY <2>3, <3>1 DEF Forgets, Lifecycle!Forget
    <3>3. QED
      BY <3>2 DEF Lifecycle!Next
  <2>4. QED
    BY <2>1, <2>2, <2>3, NextRowStep DEF RowStep
<1>3. QED
  BY <1>1, <1>2, TypeCorrect, PTL DEF Spec, LifecycleSpec, Lifecycle!Spec
-----------------------------------------------------------------------------
(* Optimistic locking.  A view changes only when the client reads the row. *)
ViewKept(c, j) ==
    /\ view'[c][j].version = view[c][j].version
    /\ view'[c][j].status = view[c][j].status
    /\ view'[c][j].attempt = view[c][j].attempt
    /\ view'[c][j].sum = view[c][j].sum

ViewStep ==
    \A c \in Clients, j \in Jobs :
        \/ ViewKept(c, j)
        \/ view'[c][j] = Seen(j) /\ row' = row /\ hist' = hist

LEMMA NextViewStep ==
    ASSUME TypeOK, [Next]_vars
    PROVE  ViewStep
<1>a. view \in [Clients -> [Jobs -> View]]
  BY DEF TypeOK, ServiceTypeOK
<1>b. ASSUME UNCHANGED view PROVE ViewStep
  BY <1>b DEF ViewStep, ViewKept
<1>1. CASE Requests
  <2>1. ASSUME NEW j \in Jobs, NEW c \in Clients, Get(c, j)
        PROVE  ViewStep
    <3>1. view' = [view EXCEPT ![c][j] = Seen(j)] /\ row' = row /\ hist' = hist
      BY <2>1 DEF Get, storeVars
    <3>2. ASSUME NEW d \in Clients, NEW i \in Jobs
          PROVE  view'[d][i] = Seen(i) \/ view'[d][i] = view[d][i]
      BY <1>a, <3>1
    <3>3. QED
      BY <3>1, <3>2 DEF ViewStep, ViewKept
  <2>2. ASSUME NEW j \in Jobs, NEW c \in Clients, NEW f,
               view' = [view EXCEPT ![c][j].claim = f]
        PROVE  ViewStep
    <3> DEFINE v == [view[c][j] EXCEPT !.claim = f]
    <3>1. /\ v.version = view[c][j].version
          /\ v.status = view[c][j].status
          /\ v.attempt = view[c][j].attempt
          /\ v.sum = view[c][j].sum
      <4>1. view[c][j] \in View
        BY <1>a
      <4>2. QED
        BY <4>1 DEF View
    <3>2. view' = [view EXCEPT ![c][j] = v]
      BY <2>2
    <3> HIDE DEF v
    <3>3. ASSUME NEW d \in Clients, NEW i \in Jobs
          PROVE  \/ d = c /\ i = j /\ view'[d][i] = v
                 \/ view'[d][i] = view[d][i]
      BY <1>a, <3>2
    <3>4. QED
      BY <3>1, <3>3 DEF ViewStep, ViewKept
  <2>3. QED
    BY <1>1, <1>b, <2>1, <2>2
       DEF Requests, ServiceStep, Create, Upload, CompleteUploadStat,
           CompleteUpload, Cancel, Retry, Confirm
<1>2. QED
  BY <1>1, <1>b
     DEF Next, Work, Sweep, Time, Purging, Faults, vars

(* The inductive invariant: a view is never ahead of its row.              *)
ViewBehind ==
    \A c \in Clients, j \in Jobs : view[c][j].version <= row[j].version

(* A guarded request always acts on the status, attempt and checksum that  *)
(* the client saw: the version is bumped by every change of them, also by  *)
(* those of workers and cleaners.                                          *)
THEOREM OptimisticLocking == Spec => []ViewIsCurrent
<1> DEFINE Inv == ViewBehind /\ ViewIsCurrent
<1>1. Init => Inv
  BY DEF Init, StoreInit, ServiceInit, Seen, ViewBehind, ViewIsCurrent
<1>2. TypeOK /\ Inv /\ [Next]_vars => Inv'
  <2> SUFFICES ASSUME TypeOK, Inv, [Next]_vars,
                      NEW c \in Clients, NEW j \in Jobs
               PROVE  /\ view'[c][j].version <= row'[j].version
                      /\ (/\ view'[c][j].version = row'[j].version
                          /\ row'[j].status # "purged") =>
                             /\ view'[c][j].status = row'[j].status
                             /\ view'[c][j].attempt = hist'[j].attempt
                             /\ view'[c][j].sum = row'[j].sum
    BY DEF ViewBehind, ViewIsCurrent
  <2>1. row[j].version \in Nat /\ view[c][j].version \in Nat
    <3>1. row[j] \in Row /\ view[c][j] \in View
      BY DEF TypeOK, StoreTypeOK, ServiceTypeOK
    <3>2. QED
      BY <3>1 DEF Row, View
  <2>2. /\ view[c][j].version <= row[j].version
        /\ (view[c][j].version = row[j].version /\ row[j].status # "purged") =>
               /\ view[c][j].status = row[j].status
               /\ view[c][j].attempt = hist[j].attempt
               /\ view[c][j].sum = row[j].sum
    BY DEF ViewBehind, ViewIsCurrent
  <2>3. CASE view'[c][j] = Seen(j) /\ row' = row /\ hist' = hist
    BY <2>1, <2>3 DEF Seen
  <2>4. CASE ViewKept(c, j)
    <3>1. CASE Same(j)
      BY <2>2, <2>4, <3>1 DEF ViewKept, Same
    <3>2. CASE Moves(j)
      BY <2>1, <2>2, <2>4, <3>2 DEF ViewKept, Moves
    <3>3. CASE Forgets(j)
      BY <2>2, <2>4, <3>3 DEF ViewKept, Forgets
    <3>4. QED
      BY <3>1, <3>2, <3>3, NextRowStep DEF RowStep, Moves, Forgets
  <2>5. QED
    BY <2>3, <2>4, NextViewStep DEF ViewStep
<1>3. QED
  BY <1>1, <1>2, TypeCorrect, PTL DEF Spec
-----------------------------------------------------------------------------
(* Confirm keys live from the confirm to the next retry.                   *)
ConfirmKeyPlaced ==
    \A j \in Jobs :
        row[j].conf # NoKey =>
            row[j].status \in {"apply_queued", "applying", "succeeded", "failed",
                              "canceled", "expired", "purged"}

(* A ready job accepts the confirm of its user: no key of an earlier       *)
(* attempt is left that would make the request look like a repetition.     *)
THEOREM ConfirmNotSwallowed == Spec => []ReadyAwaitsConfirm
<1>1. Init => ConfirmKeyPlaced
  BY DEF Init, StoreInit, ConfirmKeyPlaced
<1>2. TypeOK /\ ConfirmKeyPlaced /\ [Next]_vars => ConfirmKeyPlaced'
  <2> SUFFICES ASSUME TypeOK, ConfirmKeyPlaced, [Next]_vars,
                      NEW j \in Jobs, row'[j].conf # NoKey
               PROVE  row'[j].status \in {"apply_queued", "applying", "succeeded",
                              "failed", "canceled", "expired", "purged"}
    BY DEF ConfirmKeyPlaced
  <2>1. CASE Same(j)
    BY <2>1 DEF ConfirmKeyPlaced, Same
  <2>2. CASE Moves(j)
    BY <2>2 DEF ConfirmKeyPlaced, Moves, Lifecycle!Successors
  <2>3. CASE Forgets(j)
    BY <2>3 DEF Forgets
  <2>4. QED
    BY <2>1, <2>2, <2>3, NextRowStep DEF RowStep, Moves, Forgets
<1>3. ConfirmKeyPlaced => ReadyAwaitsConfirm
  BY DEF ConfirmKeyPlaced, ReadyAwaitsConfirm
<1>4. QED
  BY <1>1, <1>2, <1>3, TypeCorrect, PTL DEF Spec
-----------------------------------------------------------------------------
(* A message is acknowledged only when its job waits for it no more.       *)
LEMMA AckedNotAwaited ==
    ASSUME TypeOK, [Next]_vars, NEW e \in events, e \notin events'
    PROVE  row'[e.job].status # Waiting(e.kind)
<1>a. row \in [Jobs -> Row] /\ StoreTypeOK /\ WorkerTypeOK
  BY DEF TypeOK, StoreTypeOK
<1>1. ASSUME NEW w \in Workers, NEW d \in events, SkipDelivery(w, d)
      PROVE  row'[e.job].status # Waiting(e.kind)
  BY <1>1 DEF SkipDelivery, MayAck
<1>2. ASSUME NEW w \in Workers, FinishValidation(w)
      PROVE  row'[e.job].status # Waiting(e.kind)
  <2>1. JobOf(w) \in Jobs
    BY <1>2, <1>a, BusyType DEF FinishValidation, Validated, At, Busy
  <2>2. HasInvalidRows(w) \in BOOLEAN
    BY DEF HasInvalidRows
  <2>3. /\ SqlFinishValidation(JobOf(w), HasInvalidRows(w))
        /\ e = worker[w].ev
    BY <1>2 DEF FinishValidation, MayAck
  <2>4. row'[JobOf(w)].status \in {"validation_failed", "ready"}
    BY <1>a, <2>1, <2>2, <2>3, FinishValidationSets DEF Sets
  <2>5. QED
    BY <2>3, <2>4 DEF JobOf, Waiting
<1>3. ASSUME NEW w \in Workers, FinishApply(w)
      PROVE  row'[e.job].status # Waiting(e.kind)
  <2>1. JobOf(w) \in Jobs
    BY <1>3, <1>a, BusyType DEF FinishApply, At, Busy
  <2>2. SqlFinishApply(JobOf(w)) /\ e = worker[w].ev
    BY <1>3 DEF FinishApply, MayAck
  <2>3. row'[JobOf(w)].status = "succeeded"
    BY <1>a, <2>1, <2>2, FinishApplySets DEF Sets
  <2>4. QED
    BY <2>2, <2>3 DEF JobOf, Waiting
<1>4. ASSUME NEW w \in Workers, WorkerStep(w)
      PROVE  row'[e.job].status # Waiting(e.kind)
  BY <1>1, <1>2, <1>3, <1>4
     DEF WorkerStep, Claim, ReadClaimed, ReadNothing, OpenSource, PutNormalized,
         PutReport, OpenNormalized, ApplyBatch, Fail, storeVars
<1>5. ASSUME ServiceStep PROVE FALSE
  BY <1>5
     DEF ServiceStep, Create, Upload, Get, CompleteUploadStat, CompleteUpload,
         Cancel, Retry, Confirm, Emit, storeVars
<1>6. ASSUME NEW k \in Cleaners, CleanerStep(k) PROVE FALSE
  BY <1>6
     DEF CleanerStep, List, DeleteSource, DeleteNormalized, DeleteReport, Expire,
         storeVars
<1>7. QED
  BY <1>4, <1>5, <1>6
     DEF Next, Requests, Work, Sweep, Time, DeadlinePasses, Purging, Purge,
         Faults, Lose, Abort, vars

(* A job never waits for a worker without a message on the bus that will   *)
(* bring one: the update and the message are one transaction, and stale or *)
(* repeated deliveries never take the message of the current attempt away. *)
THEOREM NoMessageLost == Spec => []QueuedHasMessage
<1>1. Init => QueuedHasMessage
  BY DEF Init, StoreInit, QueuedHasMessage, Waiting
<1>2. TypeOK /\ QueuedHasMessage /\ [Next]_vars => QueuedHasMessage'
  <2> SUFFICES ASSUME TypeOK, QueuedHasMessage, [Next]_vars,
                      NEW j \in Jobs, NEW kind \in EventKind,
                      row'[j].status = Waiting(kind)
               PROVE  [kind |-> kind, job |-> j, ver |-> row'[j].version]
                         \in events'
    BY DEF QueuedHasMessage, Waiting
  <2>1. CASE Same(j)
    <3> DEFINE e == [kind |-> kind, job |-> j, ver |-> row[j].version]
    <3>1. e \in events
      BY <2>1 DEF QueuedHasMessage, Same
    <3>2. e.job = j /\ e.kind = kind
      OBVIOUS
    <3> HIDE DEF e
    <3>3. e \in events'
      BY <3>1, <3>2, AckedNotAwaited
    <3>4. QED
      BY <2>1, <3>3 DEF Same, e
  <2>2. CASE Moves(j)
    BY <2>2 DEF Moves
  <2>3. CASE Forgets(j)
    BY <2>3 DEF Forgets, Waiting
  <2>4. QED
    BY <2>1, <2>2, <2>3, NextRowStep DEF RowStep, Moves, Forgets
<1>3. QED
  BY <1>1, <1>2, TypeCorrect, PTL DEF Spec
-----------------------------------------------------------------------------
(* What becomes of a busy worker in a step: it goes on with its message,   *)
(* its job has left the status it claimed, or the claim is recorded lost.  *)
GoesOn(w) ==
    /\ worker'[w].pc # "idle"
    /\ worker'[w].ev = worker[w].ev
    /\ worker'[w].attempt = worker[w].attempt

Settled(w) == row'[JobOf(w)].status # Claimed(worker[w].ev.kind)

RecordedLost(w) ==
    <<worker[w].ev.kind, worker[w].attempt>> \in hist'[JobOf(w)].lost

(* A step of a handler that is not its last one.                           *)
LEMMA HandlerGoesOn ==
    ASSUME TypeOK, NEW v \in Workers, Busy(v),
           \/ ReadClaimed(v)
           \/ OpenSource(v) \/ OpenNormalized(v)
           \/ PutNormalized(v) \/ PutReport(v) \/ ApplyBatch(v)
    PROVE  \A w \in Workers : Busy(w) => GoesOn(w)
<1>1. worker \in [Workers -> {Idle} \cup Handler] /\ worker[v] \in Handler
  BY BusyType DEF TypeOK, WorkerTypeOK
<1>2. ASSUME NEW h, GoTo(v, h), h.pc # "idle", h.ev = worker[v].ev,
             h.attempt = worker[v].attempt
      PROVE  \A w \in Workers : Busy(w) => GoesOn(w)
  BY <1>1, <1>2 DEF GoTo, Busy, GoesOn
<1>3. CASE ReadClaimed(v)
  <2> DEFINE h == [worker[v] EXCEPT !.pc = "read", !.sum = row[JobOf(v)].sum]
  <2>1. h.pc # "idle" /\ h.ev = worker[v].ev /\ h.attempt = worker[v].attempt
    BY <1>1 DEF Handler, Opening, Opened
  <2>2. GoTo(v, h)
    BY <1>3 DEF ReadClaimed
  <2> HIDE DEF h
  <2>3. QED
    BY <1>2, <2>1, <2>2
<1>4. ASSUME NEW f, GoTo(v, [worker[v] EXCEPT !.pc = "opened", !.file = f])
      PROVE  \A w \in Workers : Busy(w) => GoesOn(w)
  <2> DEFINE h == [worker[v] EXCEPT !.pc = "opened", !.file = f]
  <2>1. h.pc # "idle" /\ h.ev = worker[v].ev /\ h.attempt = worker[v].attempt
    BY <1>1 DEF Handler, Opening, Opened
  <2>2. GoTo(v, h)
    BY <1>4
  <2> HIDE DEF h
  <2>3. QED
    BY <1>2, <2>1, <2>2
<1>5. CASE OpenSource(v)
  BY <1>4, <1>5 DEF OpenSource
<1>6. CASE OpenNormalized(v)
  BY <1>4, <1>6 DEF OpenNormalized
<1>7. ASSUME NEW pc, pc # "idle", GoTo(v, [worker[v] EXCEPT !.pc = pc])
      PROVE  \A w \in Workers : Busy(w) => GoesOn(w)
  <2> DEFINE h == [worker[v] EXCEPT !.pc = pc]
  <2>1. h.pc # "idle" /\ h.ev = worker[v].ev /\ h.attempt = worker[v].attempt
    BY <1>1, <1>7 DEF Handler, Opening, Opened
  <2>2. GoTo(v, h)
    BY <1>7
  <2> HIDE DEF h
  <2>3. QED
    BY <1>2, <2>1, <2>2
<1>8. CASE PutNormalized(v)
  BY <1>7, <1>8 DEF PutNormalized
<1>9. CASE PutReport(v)
  BY <1>7, <1>9 DEF PutReport
<1>10. CASE ApplyBatch(v)
  <2> DEFINE h == [worker[v] EXCEPT !.batch = @ + 1]
  <2>1. h.pc # "idle" /\ h.ev = worker[v].ev /\ h.attempt = worker[v].attempt
    BY <1>1 DEF Handler, Opening, Opened, Busy
  <2>2. GoTo(v, h)
    BY <1>10 DEF ApplyBatch
  <2> HIDE DEF h
  <2>3. QED
    BY <1>2, <2>1, <2>2
<1>11. QED
  BY <1>3, <1>5, <1>6, <1>8, <1>9, <1>10

(* The return paths of Validate and Apply.                                 *)
LEMMA HandlerReturns ==
    ASSUME TypeOK, NEW v \in Workers,
           ReadNothing(v) \/ FinishValidation(v) \/ FinishApply(v) \/ Fail(v)
    PROVE  Busy(v) /\ Settled(v)
<1>a. row \in [Jobs -> Row] /\ StoreTypeOK /\ WorkerTypeOK
  BY DEF TypeOK, StoreTypeOK
<1>b. Busy(v)
  <2>1. CASE ReadNothing(v)
    BY <2>1 DEF ReadNothing, Busy
  <2>2. CASE FinishValidation(v)
    BY <2>2 DEF FinishValidation, Validated, At, Busy
  <2>3. CASE FinishApply(v)
    BY <2>3 DEF FinishApply, At, Busy
  <2>4. CASE Fail(v)
    BY <2>4 DEF Fail, Busy
  <2>5. QED
    BY <2>1, <2>2, <2>3, <2>4
<1>c. JobOf(v) \in Jobs /\ worker[v].ev.kind \in EventKind
  BY <1>a, <1>b, BusyType
<1> SUFFICES Settled(v)
  BY <1>b
<1>1. CASE ReadNothing(v)
  <2>1. row'[JobOf(v)].status = "purged"
    BY <1>1 DEF ReadNothing, storeVars
  <2>2. QED
    BY <2>1 DEF Settled, Claimed
<1>2. CASE FinishValidation(v)
  <2>1. worker[v].ev.kind = "requested"
    BY <1>2 DEF FinishValidation, Validated, At
  <2>2. CASE row[JobOf(v)].status # "validating" /\ UNCHANGED row
    BY <2>1, <2>2 DEF Settled, Claimed
  <2>3. CASE SqlFinishValidation(JobOf(v), HasInvalidRows(v))
    <3>1. HasInvalidRows(v) \in BOOLEAN
      BY DEF HasInvalidRows
    <3>2. row'[JobOf(v)].status \in {"validation_failed", "ready"}
      BY <1>a, <1>c, <2>3, <3>1, FinishValidationSets DEF Sets
    <3>3. QED
      BY <2>1, <3>2 DEF Settled, Claimed
  <2>4. QED
    BY <1>2, <2>2, <2>3 DEF FinishValidation
<1>3. CASE FinishApply(v)
  <2>1. worker[v].ev.kind = "apply-requested"
    BY <1>3 DEF FinishApply, At
  <2>2. CASE row[JobOf(v)].status # "applying" /\ UNCHANGED row
    BY <2>1, <2>2 DEF Settled, Claimed
  <2>3. CASE SqlFinishApply(JobOf(v))
    <3>1. row'[JobOf(v)].status = "succeeded"
      BY <1>a, <1>c, <2>3, FinishApplySets DEF Sets
    <3>2. QED
      BY <2>1, <3>1 DEF Settled, Claimed
  <2>4. QED
    BY <1>3, <2>2, <2>3 DEF FinishApply
<1>4. CASE Fail(v)
  <2>1. CASE SqlFail(JobOf(v), worker[v].ev.kind)
    <3>1. row'[JobOf(v)].status = "failed"
      BY <1>a, <1>c, <2>1, FailSets DEF Sets
    <3>2. QED
      BY <3>1 DEF Settled, Claimed
  <2>2. CASE row[JobOf(v)].status # Claimed(worker[v].ev.kind) /\ UNCHANGED row
    BY <2>2 DEF Settled
  <2>3. QED
    BY <1>4, <2>1, <2>2 DEF Fail
<1>5. QED
  BY <1>1, <1>2, <1>3, <1>4

LEMMA BusyWorkerStep ==
    ASSUME TypeOK, [Next]_vars, NEW w \in Workers, Busy(w)
    PROVE  GoesOn(w) \/ Settled(w) \/ RecordedLost(w)
<1>a. worker \in [Workers -> {Idle} \cup Handler]
  BY DEF TypeOK, WorkerTypeOK
<1>b. ASSUME NEW v \in Workers, NEW h, GoTo(v, h), v # w
      PROVE  GoesOn(w)
  BY <1>a, <1>b DEF GoTo, GoesOn, Busy
<1>c. ASSUME UNCHANGED worker PROVE GoesOn(w)
  BY <1>c DEF GoesOn, Busy
<1>1. ASSUME NEW v \in Workers, WorkerStep(v)
      PROVE  GoesOn(w) \/ Settled(w)
  <2>1. ASSUME NEW e \in events, Claim(v, e) PROVE GoesOn(w)
    BY <1>b, <2>1 DEF Claim, Busy, Idle
  <2>2. ASSUME NEW e \in events, SkipDelivery(v, e) PROVE GoesOn(w)
    BY <1>c, <2>2 DEF SkipDelivery
  <2>3. CASE \/ ReadClaimed(v)
             \/ OpenSource(v) \/ OpenNormalized(v)
             \/ PutNormalized(v) \/ PutReport(v) \/ ApplyBatch(v)
    <3>1. Busy(v)
      BY <2>3
         DEF ReadClaimed, OpenSource, OpenNormalized, PutNormalized, PutReport,
             ApplyBatch, At, Busy
    <3>2. QED
      BY <2>3, <3>1, HandlerGoesOn
  <2>4. CASE ReadNothing(v) \/ FinishValidation(v) \/ FinishApply(v) \/ Fail(v)
    <3>1. GoTo(v, Idle)
      BY <2>4 DEF ReadNothing, FinishValidation, FinishApply, Fail
    <3>2. QED
      BY <1>b, <2>4, <3>1, HandlerReturns
  <2>5. QED
    BY <1>1, <2>1, <2>2, <2>3, <2>4 DEF WorkerStep
<1>2. ASSUME NEW v \in Workers, Lose(v)
      PROVE  GoesOn(w) \/ RecordedLost(w)
  <2>1. CASE v # w
    BY <1>2, <1>b, <2>1 DEF Lose
  <2>2. CASE v = w
    <3>1. JobOf(w) \in Jobs /\ hist[JobOf(w)] \in History
      BY BusyType DEF TypeOK
    <3> DEFINE h == [hist[JobOf(w)] EXCEPT !.lost =
                        @ \cup {<<worker[w].ev.kind, worker[w].attempt>>}]
    <3>2. <<worker[w].ev.kind, worker[w].attempt>> \in h.lost
      BY <3>1 DEF History
    <3>3. hist' = [hist EXCEPT ![JobOf(w)] = h]
      BY <1>2, <2>2 DEF Lose
    <3> HIDE DEF h
    <3>4. hist'[JobOf(w)] = h
      BY <3>1, <3>3 DEF TypeOK, StoreTypeOK
    <3>5. QED
      BY <3>2, <3>4 DEF RecordedLost
  <2>3. QED
    BY <2>1, <2>2
<1>3. QED
  BY <1>1, <1>2, <1>c
     DEF Next, Requests, Work, Sweep, Time, Purging, Faults, vars

(* The record of lost claims only grows.                                   *)
LEMMA LostGrows ==
    ASSUME TypeOK, [Next]_vars, NEW j \in Jobs
    PROVE  hist[j].lost \subseteq hist'[j].lost
<1>a. hist \in [Jobs -> History]
  BY DEF TypeOK, StoreTypeOK
<1>b. ASSUME UNCHANGED hist
      PROVE  hist[j].lost \subseteq hist'[j].lost
  BY <1>b
<1>c. ASSUME NEW i \in Jobs, NEW h, hist' = [hist EXCEPT ![i] = h],
             hist[i].lost \subseteq h.lost
      PROVE  hist[j].lost \subseteq hist'[j].lost
  BY <1>a, <1>c
<1>1. CASE ServiceStep
  <2> SUFFICES ASSUME NEW i \in Jobs,
                      \/ Create(i)
                      \/ \E f \in Files : Upload(i, f)
                      \/ \E c \in Clients :
                          \/ Get(c, i)
                          \/ \E f \in Files : CompleteUploadStat(c, i, f)
                          \/ CompleteUpload(c, i)
                          \/ Cancel(c, i)
                          \/ Retry(c, i)
                          \/ \E key \in ConfirmKeys : Confirm(c, i, key)
               PROVE  hist[j].lost \subseteq hist'[j].lost
    BY <1>1 DEF ServiceStep
  <2>0. hist[i] \in History
    BY <1>a
  <2>1. CASE Create(i)
    BY <1>b, <2>1 DEF Create
  <2>2. ASSUME NEW f \in Files, Upload(i, f)
        PROVE  hist[j].lost \subseteq hist'[j].lost
    BY <1>b, <2>2 DEF Upload
  <2>3. ASSUME NEW c \in Clients, Get(c, i)
        PROVE  hist[j].lost \subseteq hist'[j].lost
    BY <1>b, <2>3 DEF Get, storeVars
  <2>4. ASSUME NEW c \in Clients, NEW f \in Files, CompleteUploadStat(c, i, f)
        PROVE  hist[j].lost \subseteq hist'[j].lost
    BY <1>b, <2>4 DEF CompleteUploadStat, storeVars
  <2>5. ASSUME NEW c \in Clients, CompleteUpload(c, i)
        PROVE  hist[j].lost \subseteq hist'[j].lost
    BY <1>b, <2>5 DEF CompleteUpload
  <2>6. ASSUME NEW c \in Clients, Cancel(c, i)
        PROVE  hist[j].lost \subseteq hist'[j].lost
    <3> DEFINE h == [hist[i] EXCEPT !.cut = @ \/ row[i].status \in Running]
    <3>1. h.lost = hist[i].lost
      BY <2>0 DEF History
    <3>2. hist' = [hist EXCEPT ![i] = h]
      BY <2>6 DEF Cancel
    <3> HIDE DEF h
    <3>3. QED
      BY <1>c, <3>1, <3>2
  <2>7. ASSUME NEW c \in Clients, Retry(c, i)
        PROVE  hist[j].lost \subseteq hist'[j].lost
    <3> DEFINE h == [hist[i] EXCEPT !.attempt = @ + 1]
    <3>1. h.lost = hist[i].lost
      BY <2>0 DEF History
    <3>2. hist' = [hist EXCEPT ![i] = h]
      BY <2>7 DEF Retry
    <3> HIDE DEF h
    <3>3. QED
      BY <1>c, <3>1, <3>2
  <2>8. ASSUME NEW c \in Clients, NEW key \in ConfirmKeys, Confirm(c, i, key)
        PROVE  hist[j].lost \subseteq hist'[j].lost
    <3> DEFINE h == [hist[i] EXCEPT !.confirmed = @ \cup {row[i].sum}]
    <3>1. h.lost = hist[i].lost
      BY <2>0 DEF History
    <3>2. hist' = [hist EXCEPT ![i] = h]
      BY <2>8 DEF Confirm
    <3> HIDE DEF h
    <3>3. QED
      BY <1>c, <3>1, <3>2
  <2>9. QED
    BY <2>1, <2>2, <2>3, <2>4, <2>5, <2>6, <2>7, <2>8
<1>2. ASSUME NEW w \in Workers, WorkerStep(w)
      PROVE  hist[j].lost \subseteq hist'[j].lost
  <2>1. UNCHANGED hist
    BY <1>2 DEF WorkerStep, Claim, SkipDelivery, ReadClaimed, ReadNothing,
                OpenSource, PutNormalized, PutReport, FinishValidation,
                OpenNormalized, ApplyBatch, FinishApply, Fail, storeVars
  <2>2. QED
    BY <1>b, <2>1
<1>3. ASSUME NEW k \in Cleaners, CleanerStep(k)
      PROVE  hist[j].lost \subseteq hist'[j].lost
  <2>1. ASSUME NEW p \in cleaner[k].todo, cleaner[k].pc = "pick",
               DeleteSource(k, p)
        PROVE  hist[j].lost \subseteq hist'[j].lost
    <3>1. cleaner[k] \in {Resting} \cup Picking \cup Sweeping
      BY DEF TypeOK, CleanerTypeOK
    <3>2. cleaner[k].todo \in Listing
      BY <2>1, <3>1 DEF Resting, Picking, Sweeping
    <3>3. p[1] \in Jobs
      BY <2>1, <3>2 DEF Listing
    <3>4. hist[p[1]] \in History
      BY <1>a, <3>3
    <3> DEFINE h == [hist[p[1]] EXCEPT !.swept = TRUE]
    <3>5. h.lost = hist[p[1]].lost
      BY <3>4 DEF History
    <3>6. hist' = [hist EXCEPT ![p[1]] = h]
      BY <2>1 DEF DeleteSource
    <3> HIDE DEF h
    <3>7. QED
      BY <1>c, <3>3, <3>5, <3>6
  <2>2. CASE List(k) \/ DeleteNormalized(k) \/ DeleteReport(k) \/ Expire(k)
    <3>1. UNCHANGED hist
      BY <2>2 DEF List, DeleteNormalized, DeleteReport, Expire, storeVars
    <3>2. QED
      BY <1>b, <3>1
  <2>3. QED
    BY <1>3, <2>1, <2>2 DEF CleanerStep
<1>4. ASSUME NEW w \in Workers, Lose(w)
      PROVE  hist[j].lost \subseteq hist'[j].lost
  <2>1. JobOf(w) \in Jobs
    BY <1>4, BusyType DEF TypeOK, Lose
  <2>2. hist[JobOf(w)] \in History
    BY <1>a, <2>1
  <2> DEFINE h == [hist[JobOf(w)] EXCEPT !.lost =
                      @ \cup {<<worker[w].ev.kind, worker[w].attempt>>}]
  <2>3. hist[JobOf(w)].lost \subseteq h.lost
    BY <2>2 DEF History
  <2>4. hist' = [hist EXCEPT ![JobOf(w)] = h]
    BY <1>4 DEF Lose
  <2> HIDE DEF h
  <2>5. QED
    BY <1>c, <2>1, <2>3, <2>4
<1>5. ASSUME NEW i \in Jobs, DeadlinePasses(i) \/ Purge(i)
      PROVE  hist[j].lost \subseteq hist'[j].lost
  <2>1. UNCHANGED hist
    BY <1>5 DEF DeadlinePasses, Purge
  <2>2. QED
    BY <1>b, <2>1
<1>6. ASSUME NEW k \in Cleaners, Abort(k)
      PROVE  hist[j].lost \subseteq hist'[j].lost
  BY <1>b, <1>6 DEF Abort
<1>7. CASE UNCHANGED vars
  BY <1>b, <1>7 DEF vars
<1>8. QED
  BY <1>1, <1>2, <1>3, <1>4, <1>5, <1>6, <1>7
     DEF Next, Requests, Work, Sweep, Time, Purging, Faults

(* A claimed job has a worker of its attempt on it or that worker was      *)
(* lost: every return path of Validate and Apply moves the job on.  The    *)
(* invariant is inductive together with the type invariant.                *)
THEOREM ClaimNotForgotten == Spec => []RunningHasWorker
<1>1. Init => RunningHasWorker
  BY DEF Init, StoreInit, RunningHasWorker, Claimed
<1>2. TypeOK /\ RunningHasWorker /\ [Next]_vars => RunningHasWorker'
  <2> SUFFICES ASSUME TypeOK, RunningHasWorker, [Next]_vars,
                      NEW j \in Jobs, NEW kind \in EventKind,
                      row'[j].status = Claimed(kind)
               PROVE  \/ <<kind, hist'[j].attempt>> \in hist'[j].lost
                      \/ \E w \in Workers : WorksOn(w, kind, j)'
    BY DEF RunningHasWorker, Claimed
  <2>1. CASE Same(j)
    <3>1. row[j].status = Claimed(kind) /\ hist'[j].attempt = hist[j].attempt
      BY <2>1 DEF Same
    <3>2. CASE <<kind, hist[j].attempt>> \in hist[j].lost
      BY <3>1, <3>2, LostGrows
    <3>3. ASSUME NEW w \in Workers, WorksOn(w, kind, j)
          PROVE  \/ <<kind, hist'[j].attempt>> \in hist'[j].lost
                 \/ WorksOn(w, kind, j)'
      <4>1. /\ Busy(w)
            /\ JobOf(w) = j
            /\ worker[w].ev.kind = kind
            /\ worker[w].attempt = hist[j].attempt
        BY <3>3 DEF WorksOn
      <4>2. ~Settled(w)
        BY <4>1 DEF Settled
      <4>3. CASE GoesOn(w)
        BY <3>1, <4>1, <4>3 DEF GoesOn, WorksOn, Busy, JobOf
      <4>4. CASE RecordedLost(w)
        BY <3>1, <4>1, <4>4 DEF RecordedLost
      <4>5. QED
        BY <4>1, <4>2, <4>3, <4>4, BusyWorkerStep
    <3>4. QED
      BY <3>1, <3>2, <3>3 DEF RunningHasWorker
  <2>2. CASE Moves(j)
    BY <2>2 DEF Moves
  <2>3. CASE Forgets(j)
    BY <2>3 DEF Forgets, Claimed
  <2>4. QED
    BY <2>1, <2>2, <2>3, NextRowStep DEF RowStep, Moves, Forgets
<1>3. QED
  BY <1>1, <1>2, TypeCorrect, PTL DEF Spec
-----------------------------------------------------------------------------
(***************************************************************************)
(* What the objects of a job and the provider hold.                        *)
(***************************************************************************)
Handles(w, j) == Busy(w) /\ JobOf(w) = j
Validates(w, j) == Handles(w, j) /\ worker[w].ev.kind = "requested"

(* An object made from the source of the job, or deleted by a cleaner.     *)
IsSource(j, f) == f = row[j].sum \/ (f = NoFile /\ hist[j].swept)

(* A job that no cancel cut off from its worker has at most one worker,    *)
(* and only while it is claimed: no statement but a cancel takes a running *)
(* job away from its worker.                                               *)
AloneOnJob ==
    \A j \in Jobs : ~hist[j].cut =>
        \A w \in Workers : Handles(w, j) =>
            /\ row[j].status = Claimed(worker[w].ev.kind)
            /\ \A v \in Workers : Handles(v, j) => v = w

(* A cleaner that deletes has left its mark.                               *)
SweepIsMarked ==
    \A k \in Cleaners :
        cleaner[k].pc \in {"norm", "rep", "expire"} => hist[cleaner[k].job].swept

(* What a worker holds in memory, and what it put into the store, is of    *)
(* the source the row names.                                               *)
WorkerHasSource ==
    \A w \in Workers, j \in Jobs : Handles(w, j) /\ ~hist[j].cut =>
        /\ worker[w].pc # "claimed" => worker[w].sum = row[j].sum
        /\ At(w, "requested", "normalized") \/ At(w, "requested", "reported") =>
               worker[w].file = row[j].sum /\ IsSource(j, obj[j].norm)
        /\ At(w, "requested", "reported") => IsSource(j, obj[j].rep)
        /\ At(w, "apply-requested", "opened") => worker[w].file = row[j].sum

(* A job with invalid rows is at rest, with the report on its source.      *)
BadIsReported ==
    \A j \in Jobs : row[j].bad /\ ~hist[j].cut =>
        /\ row[j].status \in {"validation_failed", "canceled", "expired", "purged"}
        /\ IsSource(j, obj[j].rep)

(* What is about to be applied was confirmed.                              *)
ApplyIsConfirmed ==
    \A j \in Jobs : row[j].status \in {"apply_queued", "applying"} /\ ~hist[j].cut =>
        row[j].sum \in hist[j].confirmed

AttemptInv ==
    /\ AloneOnJob /\ SweepIsMarked /\ WorkerHasSource /\ BadIsReported
    /\ ReadyIsValidated /\ ApplyIsConfirmed /\ AppliedWasConfirmed

(* The rest is about the first attempt of a job.                           *)
NotApplied ==
    {"none", "uploading", "queued", "validating", "validation_failed", "ready", "apply_queued"}
NotValidated == {"none", "uploading", "queued", "validating"}

Empty(j) == \A b \in Batch : applied[j][b] = NoFile
WrittenUpTo(j, f, n) ==
    \A b \in Batch : applied[j][b] = IF b <= n THEN f ELSE NoFile

(* A job canceled under its worker stays canceled.                         *)
CutIsFinal(j) == hist[j].cut => row[j].status \in {"canceled", "expired", "purged"}

(* The provider has what the worker sent so far.                           *)
WrittenSoFar(j) ==
    /\ row[j].status \in NotApplied => Empty(j)
    /\ ~hist[j].cut =>
        \A w \in Workers : Handles(w, j) /\ worker[w].ev.kind = "apply-requested" =>
            IF worker[w].pc = "opened"
            THEN /\ worker[w].batch <= BatchesOf[worker[w].file]
                 /\ WrittenUpTo(j, worker[w].file, worker[w].batch)
            ELSE Empty(j)

(* A job has a deadline for its results once its validation is over.       *)
NoLateValidation(j) ==
    /\ row[j].status \in NotValidated => row[j].res = "null"
    /\ row[j].res # "null" \/ row[j].status \in {"expired", "purged"} =>
           \A w \in Workers : ~Validates(w, j)

(* Result objects appear when a worker validates.                          *)
NoEarlyResults(j) ==
    row[j].status \in {"none", "uploading", "queued"} =>
        obj[j].norm = NoFile /\ obj[j].rep = NoFile

FirstAttempt(j) ==
    /\ CutIsFinal(j) /\ WrittenSoFar(j) /\ WroteItsSource(j)
    /\ NoLateValidation(j) /\ NoEarlyResults(j) /\ ResultsGone(j)

Tracks(k, j, s) ==
    \/ cleaner[k].pc # "rest" /\ <<j, s>> \in cleaner[k].todo
    \/ cleaner[k].pc \in {"norm", "rep", "expire"} /\ cleaner[k].job = j /\ cleaner[k].seen = s

(* What a listing says of a deadline stays true.                           *)
ListedIsDue(j) ==
    \A k \in Cleaners, s \in Listable : Tracks(k, j, s) =>
        IF s = "uploading"
        THEN row[j].status # "none" /\ row[j].up = "past"
        ELSE row[j].status \in Retained \cup {"expired", "purged"} /\ row[j].res = "past"

(* What a cleaner deleted stays deleted.                                   *)
DeletedIsGone(j) ==
    \A k \in Cleaners :
        cleaner[k].pc \in {"rep", "expire"} /\ cleaner[k].job = j /\ cleaner[k].seen \in Retained =>
            /\ obj[j].norm = NoFile
            /\ cleaner[k].pc = "expire" => obj[j].rep = NoFile

JobInv(j) == FirstAttempt(j) /\ ListedIsDue(j) /\ DeletedIsGone(j)
FirstInv == \A j \in Jobs : hist[j].attempt = 0 => JobInv(j)
-----------------------------------------------------------------------------
(* What a statement does to the columns these invariants look at.          *)
Columns(j, s, f, b, u, r) ==
    /\ \A i \in Jobs \ {j} : row'[i] = row[i]
    /\ row'[j].status = s
    /\ row'[j].sum = f
    /\ row'[j].bad = b
    /\ row'[j].up = u
    /\ row'[j].res = r

(* The statements of the service, column by column.                        *)
LEMMA ServiceColumns ==
    ASSUME row \in [Jobs -> Row], NEW j \in Jobs, NEW v, NEW f, NEW key
    PROVE  /\ SqlCreate(j) =>
                Columns(j, "uploading", row[j].sum, row[j].bad, "future", row[j].res)
           /\ SqlCompleteUpload(j, v, f) =>
                Columns(j, "queued", f, row[j].bad, row[j].up, row[j].res)
           /\ SqlCancel(j, v) =>
                Columns(j, "canceled", row[j].sum, row[j].bad, row[j].up, row[j].res)
           /\ SqlRetry(j, v) =>
                Columns(j, "uploading", NoFile, FALSE, "future", "null")
           /\ SqlConfirm(j, v, key) =>
                Columns(j, "apply_queued", row[j].sum, row[j].bad, row[j].up, row[j].res)
<1> row[j] \in Row
  OBVIOUS
<1> USE DEF Row, Update, Columns
<1>1. SqlCreate(j) => Columns(j, "uploading", row[j].sum, row[j].bad, "future", row[j].res)
  BY DEF SqlCreate
<1>2. SqlCompleteUpload(j, v, f) => Columns(j, "queued", f, row[j].bad, row[j].up, row[j].res)
  BY DEF SqlCompleteUpload
<1>3. SqlCancel(j, v) =>
        Columns(j, "canceled", row[j].sum, row[j].bad, row[j].up, row[j].res)
  BY DEF SqlCancel
<1>4. SqlRetry(j, v) => Columns(j, "uploading", NoFile, FALSE, "future", "null")
  BY DEF SqlRetry
<1>5. SqlConfirm(j, v, key) =>
        Columns(j, "apply_queued", row[j].sum, row[j].bad, row[j].up, row[j].res)
  BY DEF SqlConfirm
<1>6. QED
  BY <1>1, <1>2, <1>3, <1>4, <1>5

(* The statements of a worker.                                             *)
LEMMA WorkerColumns ==
    ASSUME row \in [Jobs -> Row], NEW j \in Jobs, NEW kind, NEW invalid
    PROVE  /\ SqlClaim(j, kind) =>
                Columns(j, Claimed(kind), row[j].sum, row[j].bad, row[j].up, row[j].res)
           /\ SqlFinishValidation(j, invalid) =>
                Columns(j, IF invalid THEN "validation_failed" ELSE "ready", row[j].sum,
                        invalid, row[j].up, "future")
           /\ SqlFinishApply(j) =>
                Columns(j, "succeeded", row[j].sum, row[j].bad, row[j].up, "future")
           /\ SqlFail(j, kind) =>
                Columns(j, "failed", row[j].sum, row[j].bad, row[j].up, "future")
<1> row[j] \in Row
  OBVIOUS
<1> USE DEF Row, Update, Columns
<1>1. SqlClaim(j, kind) =>
        Columns(j, Claimed(kind), row[j].sum, row[j].bad, row[j].up, row[j].res)
  BY DEF SqlClaim
<1>2. SqlFinishValidation(j, invalid) =>
        Columns(j, IF invalid THEN "validation_failed" ELSE "ready", row[j].sum,
                invalid, row[j].up, "future")
  BY DEF SqlFinishValidation
<1>3. SqlFinishApply(j) => Columns(j, "succeeded", row[j].sum, row[j].bad, row[j].up, "future")
  BY DEF SqlFinishApply
<1>4. SqlFail(j, kind) => Columns(j, "failed", row[j].sum, row[j].bad, row[j].up, "future")
  BY DEF SqlFail
<1>5. QED
  BY <1>1, <1>2, <1>3, <1>4

(* The statements of a cleaner, and the passage of time.                   *)
LEMMA CleanerColumns ==
    ASSUME row \in [Jobs -> Row], NEW j \in Jobs, NEW s
    PROVE  /\ SqlExpire(j, s) =>
                Columns(j, "expired", row[j].sum, row[j].bad, row[j].up, row[j].res)
           /\ SqlDeleteExpired(j) =>
                Columns(j, "purged", row[j].sum, row[j].bad, row[j].up, row[j].res)
           /\ DeadlinePasses(j) =>
                \/ /\ row[j].up = "future"
                   /\ Columns(j, row[j].status, row[j].sum, row[j].bad, "past", row[j].res)
                \/ /\ row[j].res = "future"
                   /\ Columns(j, row[j].status, row[j].sum, row[j].bad, row[j].up, "past")
<1> row[j] \in Row
  OBVIOUS
<1> USE DEF Row, Columns
<1>1. SqlExpire(j, s) =>
        Columns(j, "expired", row[j].sum, row[j].bad, row[j].up, row[j].res)
  BY DEF SqlExpire, Update
<1>2. SqlDeleteExpired(j) =>
        Columns(j, "purged", row[j].sum, row[j].bad, row[j].up, row[j].res)
  BY DEF SqlDeleteExpired
<1>3. DeadlinePasses(j) =>
        \/ /\ row[j].up = "future"
           /\ Columns(j, row[j].status, row[j].sum, row[j].bad, "past", row[j].res)
        \/ /\ row[j].res = "future"
           /\ Columns(j, row[j].status, row[j].sum, row[j].bad, row[j].up, "past")
  BY DEF DeadlinePasses
<1>4. QED
  BY <1>1, <1>2, <1>3

(* The columns have their types.                                           *)
LEMMA RowTypes ==
    ASSUME StoreTypeOK, NEW j \in Jobs
    PROVE  /\ row \in [Jobs -> Row]
           /\ row[j].status \in Status /\ row[j].sum \in FileOrNo /\ row[j].bad \in BOOLEAN
           /\ row[j].up \in Deadline /\ row[j].res \in Deadline
           /\ hist[j].cut \in BOOLEAN /\ hist[j].swept \in BOOLEAN
           /\ hist[j].attempt \in Nat
  BY BoundAssumption DEF StoreTypeOK, Row, History
-----------------------------------------------------------------------------
(* Requests.  A job that no cancel cut off is not running when one of them *)
(* changes its source or its status, or else is cut off by it.             *)
LEMMA ServiceKeepsAttemptInv ==
    ASSUME TypeOK, AttemptInv, ServiceStep, UNCHANGED <<worker, cleaner>>
    PROVE  AttemptInv'
<1> USE DEF TypeOK, AttemptInv
<1> USE DEF Handles, Busy, JobOf, At, IsSource, WrittenWasConfirmed
<1>q. ASSUME UNCHANGED <<row, obj, applied, hist>>
      PROVE  AttemptInv'
  BY <1>q DEF AloneOnJob, SweepIsMarked, WorkerHasSource, BadIsReported, ReadyIsValidated,
              ApplyIsConfirmed, AppliedWasConfirmed
<1>t. \A j \in Jobs : row[j].status \in Status /\ row[j].bad \in BOOLEAN
  BY RowTypes
<1>r. row \in [Jobs -> Row]
  BY DEF StoreTypeOK
<1>1. ASSUME NEW j \in Jobs, Create(j)
      PROVE  AttemptInv'
  <2>1. Columns(j, "uploading", row[j].sum, row[j].bad, "future", row[j].res)
    BY <1>1, <1>r, ServiceColumns DEF Create
  <2>2. row[j].status = "none" /\ UNCHANGED <<obj, applied, hist>>
    BY <1>1 DEF Create, SqlCreate
  <2>3. AloneOnJob' /\ SweepIsMarked'
    BY <2>1, <2>2 DEF Columns, AloneOnJob, SweepIsMarked, Claimed
  <2>4. WorkerHasSource' /\ BadIsReported' /\ ReadyIsValidated'
    BY <2>1, <2>2 DEF Columns, WorkerHasSource, BadIsReported, ReadyIsValidated
  <2>5. ApplyIsConfirmed' /\ AppliedWasConfirmed'
    BY <2>1, <2>2 DEF Columns, ApplyIsConfirmed, AppliedWasConfirmed
  <2>6. QED
    BY <2>3, <2>4, <2>5
<1>2. ASSUME NEW j \in Jobs, NEW f \in Files, Upload(j, f)
      PROVE  AttemptInv'
  <2>1. \A i \in Jobs : obj'[i].norm = obj[i].norm /\ obj'[i].rep = obj[i].rep
    BY <1>2 DEF Upload, StoreTypeOK, Objects
  <2>2. UNCHANGED <<row, applied, hist>>
    BY <1>2 DEF Upload
  <2>3. QED
    BY <2>1, <2>2 DEF AloneOnJob, SweepIsMarked, WorkerHasSource, BadIsReported,
                      ReadyIsValidated, ApplyIsConfirmed, AppliedWasConfirmed
<1>3. ASSUME NEW j \in Jobs, NEW c \in Clients, CompleteUpload(c, j)
      PROVE  AttemptInv'
  <2>1. CASE UNCHANGED row
    BY <1>3, <1>q, <2>1 DEF CompleteUpload
  <2>2. CASE SqlCompleteUpload(j, view[c][j].version, view[c][j].claim)
    <3>1. Columns(j, "queued", view[c][j].claim, row[j].bad, row[j].up, row[j].res)
      BY <2>2, <1>r, ServiceColumns
    <3>2. row[j].status = "uploading" /\ UNCHANGED <<obj, applied, hist>>
      BY <1>3, <2>2 DEF CompleteUpload, SqlCompleteUpload
    <3>3. AloneOnJob' /\ SweepIsMarked'
      BY <3>1, <3>2 DEF Columns, AloneOnJob, SweepIsMarked, Claimed
    <3>4. WorkerHasSource'
      BY <3>1, <3>2 DEF Columns, WorkerHasSource, AloneOnJob, Claimed
    <3>5. BadIsReported' /\ ReadyIsValidated'
      BY <3>1, <3>2 DEF Columns, BadIsReported, ReadyIsValidated
    <3>6. ApplyIsConfirmed' /\ AppliedWasConfirmed'
      BY <3>1, <3>2 DEF Columns, ApplyIsConfirmed, AppliedWasConfirmed
    <3>7. QED
      BY <3>3, <3>4, <3>5, <3>6
  <2>3. QED
    BY <1>3, <2>1, <2>2 DEF CompleteUpload
<1>4. ASSUME NEW j \in Jobs, NEW c \in Clients, Cancel(c, j)
      PROVE  AttemptInv'
  <2>1. Columns(j, "canceled", row[j].sum, row[j].bad, row[j].up, row[j].res)
    BY <1>4, <1>r, ServiceColumns DEF Cancel
  <2>2. /\ \A i \in Jobs \ {j} : hist'[i] = hist[i]
        /\ ~hist'[j].cut => ~hist[j].cut /\ row[j].status \notin Running
        /\ hist'[j].swept = hist[j].swept /\ hist'[j].confirmed = hist[j].confirmed
        /\ UNCHANGED <<obj, applied>>
    BY <1>4 DEF Cancel, StoreTypeOK, History
  <2>3. AloneOnJob'
    BY <2>1, <2>2 DEF Columns, AloneOnJob, Claimed, Running
  <2>4. SweepIsMarked'
    BY <2>2 DEF SweepIsMarked, CleanerTypeOK, Resting, Picking, Sweeping
  <2>5. WorkerHasSource'
    BY <2>1, <2>2 DEF Columns, WorkerHasSource
  <2>6. BadIsReported' /\ ReadyIsValidated'
    BY <2>1, <2>2 DEF Columns, BadIsReported, ReadyIsValidated
  <2>7. ApplyIsConfirmed' /\ AppliedWasConfirmed'
    BY <2>1, <2>2 DEF Columns, ApplyIsConfirmed, AppliedWasConfirmed
  <2>8. QED
    BY <2>3, <2>4, <2>5, <2>6, <2>7
<1>5. ASSUME NEW j \in Jobs, NEW c \in Clients, Retry(c, j)
      PROVE  AttemptInv'
  <2>1. Columns(j, "uploading", NoFile, FALSE, "future", "null")
    BY <1>5, <1>r, ServiceColumns DEF Retry
  <2>2. /\ row[j].status \in Retryable
        /\ \A i \in Jobs \ {j} : hist'[i] = hist[i]
        /\ hist'[j].cut = hist[j].cut
        /\ hist'[j].swept = hist[j].swept /\ hist'[j].confirmed = hist[j].confirmed
        /\ UNCHANGED <<obj, applied>>
    BY <1>5 DEF Retry, SqlRetry, StoreTypeOK, History
  <2>3. AloneOnJob'
    BY <2>1, <2>2 DEF Columns, AloneOnJob, Claimed, Retryable
  <2>4. SweepIsMarked'
    BY <2>2 DEF SweepIsMarked, CleanerTypeOK, Resting, Picking, Sweeping
  <2>5. WorkerHasSource'
    BY <2>1, <2>2 DEF Columns, WorkerHasSource, AloneOnJob, Claimed, Retryable
  <2>6. BadIsReported' /\ ReadyIsValidated'
    BY <2>1, <2>2 DEF Columns, BadIsReported, ReadyIsValidated
  <2>7. ApplyIsConfirmed' /\ AppliedWasConfirmed'
    BY <2>1, <2>2 DEF Columns, ApplyIsConfirmed, AppliedWasConfirmed
  <2>8. QED
    BY <2>3, <2>4, <2>5, <2>6, <2>7
<1>6. ASSUME NEW j \in Jobs, NEW c \in Clients, NEW key \in ConfirmKeys, Confirm(c, j, key)
      PROVE  AttemptInv'
  <2>1. Columns(j, "apply_queued", row[j].sum, row[j].bad, row[j].up, row[j].res)
    BY <1>6, <1>r, ServiceColumns DEF Confirm
  <2>2. /\ row[j].status = "ready"
        /\ \A i \in Jobs \ {j} : hist'[i] = hist[i]
        /\ hist'[j].cut = hist[j].cut /\ hist'[j].swept = hist[j].swept
        /\ hist'[j].confirmed = hist[j].confirmed \cup {row[j].sum}
        /\ UNCHANGED <<obj, applied>>
    BY <1>6 DEF Confirm, SqlConfirm, StoreTypeOK, History
  <2>3. AloneOnJob'
    BY <2>1, <2>2 DEF Columns, AloneOnJob, Claimed
  <2>4. SweepIsMarked'
    BY <2>2 DEF SweepIsMarked, CleanerTypeOK, Resting, Picking, Sweeping
  <2>5. WorkerHasSource'
    BY <2>1, <2>2 DEF Columns, WorkerHasSource
  <2>6. BadIsReported' /\ ReadyIsValidated'
    BY <2>1, <2>2 DEF Columns, BadIsReported, ReadyIsValidated
  <2>7. ApplyIsConfirmed' /\ AppliedWasConfirmed'
    BY <2>1, <2>2 DEF Columns, ApplyIsConfirmed, AppliedWasConfirmed
  <2>8. QED
    BY <2>3, <2>4, <2>5, <2>6, <2>7
<1>7. ASSUME NEW j \in Jobs, NEW c \in Clients, NEW f \in Files, CompleteUploadStat(c, j, f)
      PROVE  AttemptInv'
  BY <1>7, <1>q DEF CompleteUploadStat, storeVars
<1>8. ASSUME NEW j \in Jobs, NEW c \in Clients, Get(c, j)
      PROVE  AttemptInv'
  BY <1>8, <1>q DEF Get, storeVars
<1>9. QED
  BY <1>1, <1>2, <1>3, <1>4, <1>5, <1>6, <1>7, <1>8 DEF ServiceStep
-----------------------------------------------------------------------------
(* What a step of one worker does to the workers.                          *)
Becomes(w, h) ==
    /\ worker'[w] = h
    /\ \A v \in Workers \ {w} : worker'[v] = worker[v]

(* One worker moves, the others stay.                                      *)
LEMMA WorkerBecomes ==
    ASSUME WorkerTypeOK, NEW w \in Workers, NEW h, GoTo(w, h)
    PROVE  Becomes(w, h)
  BY DEF WorkerTypeOK, GoTo, Becomes

(* A handler that returns leaves the invariants to the other workers.      *)
LEMMA ReturnKeepsWorkers ==
    ASSUME AloneOnJob, WorkerHasSource, NEW w \in Workers, Becomes(w, Idle),
           UNCHANGED <<obj, hist>>,
           \A j \in Jobs : row'[j].sum = row[j].sum,
           \A j \in Jobs : row'[j].status = row[j].status \/ Handles(w, j)
    PROVE  AloneOnJob' /\ WorkerHasSource'
<1> USE DEF Handles, Busy, JobOf, At, IsSource
<1>1. \A v \in Workers : Busy(v)' => v # w /\ worker'[v] = worker[v]
  BY DEF Becomes, Idle
<1>2. AloneOnJob'
  BY <1>1 DEF AloneOnJob
<1>3. WorkerHasSource'
  BY <1>1 DEF WorkerHasSource
<1>4. QED
  BY <1>2, <1>3

(* A worker reads its row, or opens its object.                            *)
LEMMA ReadingMoves ==
    ASSUME WorkerTypeOK, NEW w \in Workers, worker[w] \in Opening,
           ReadClaimed(w) \/ OpenSource(w) \/ OpenNormalized(w)
    PROVE  /\ \A v \in Workers \ {w} : worker'[v] = worker[v]
           /\ worker[w].pc \in {"claimed", "read"}
           /\ worker'[w].pc \in {"read", "opened"}
           /\ worker'[w].ev = worker[w].ev
           /\ worker'[w].batch = 0
           /\ worker[w].pc = "claimed" => worker'[w].sum = row[JobOf(w)].sum
           /\ worker[w].pc # "claimed" => worker'[w].sum = worker[w].sum
           /\ worker[w].ev.kind = "apply-requested" /\ worker'[w].pc = "opened" =>
                  worker'[w].file = obj[JobOf(w)].norm /\ obj[JobOf(w)].norm # NoFile
<1>1. ASSUME NEW h, GoTo(w, h)
      PROVE  worker'[w] = h /\ \A v \in Workers \ {w} : worker'[v] = worker[v]
  BY <1>1 DEF GoTo, WorkerTypeOK
<1>2. worker[w].batch = 0
  BY DEF Opening
<1>3. CASE ReadClaimed(w)
  <2> DEFINE h == [worker[w] EXCEPT !.pc = "read", !.sum = row[JobOf(w)].sum]
  <2>1. GoTo(w, h) /\ worker[w].pc = "claimed"
    BY <1>3 DEF ReadClaimed
  <2>2. h.pc = "read" /\ h.ev = worker[w].ev /\ h.batch = worker[w].batch
        /\ h.sum = row[JobOf(w)].sum
    BY DEF Opening
  <2> HIDE DEF h
  <2>3. QED
    BY <1>1, <1>2, <2>1, <2>2
<1>4. CASE OpenSource(w)
  <2> DEFINE h == [worker[w] EXCEPT !.pc = "opened", !.file = obj[JobOf(w)].src]
  <2>1. GoTo(w, h) /\ worker[w].pc = "read" /\ worker[w].ev.kind = "requested"
    BY <1>4 DEF OpenSource, At
  <2>2. h.pc = "opened" /\ h.ev = worker[w].ev /\ h.batch = worker[w].batch
        /\ h.sum = worker[w].sum
    BY DEF Opening
  <2> HIDE DEF h
  <2>3. QED
    BY <1>1, <1>2, <2>1, <2>2
<1>5. CASE OpenNormalized(w)
  <2> DEFINE h == [worker[w] EXCEPT !.pc = "opened", !.file = obj[JobOf(w)].norm]
  <2>1. GoTo(w, h) /\ worker[w].pc = "read" /\ obj[JobOf(w)].norm # NoFile
    BY <1>5 DEF OpenNormalized, At
  <2>2. h.pc = "opened" /\ h.ev = worker[w].ev /\ h.batch = worker[w].batch
        /\ h.sum = worker[w].sum /\ h.file = obj[JobOf(w)].norm
    BY DEF Opening
  <2> HIDE DEF h
  <2>3. QED
    BY <1>1, <1>2, <2>1, <2>2
<1>6. QED
  BY <1>3, <1>4, <1>5

(* Steps that touch neither a status nor a result object.                  *)
LEMMA ReadingKeepsAttemptInv ==
    ASSUME TypeOK, AttemptInv, NEW w \in Workers, UNCHANGED <<view, cleaner>>,
           \/ ReadClaimed(w) \/ ReadNothing(w) \/ OpenSource(w) \/ OpenNormalized(w)
    PROVE  AttemptInv'
<1> USE DEF TypeOK, AttemptInv
<1> USE DEF Handles, Busy, JobOf, At, IsSource, WrittenWasConfirmed, storeVars
<1>1. PICK j \in Jobs : JobOf(w) = j
  BY DEF ReadClaimed, ReadNothing, OpenSource, OpenNormalized,
         WorkerTypeOK, Handler, Opening, Opened, Idle, Event
<1>2. worker[w] \in Handler /\ worker[w].ev.kind \in EventKind
  BY DEF ReadClaimed, ReadNothing, OpenSource, OpenNormalized,
         WorkerTypeOK, Handler, Opening, Opened, Idle, Event
<1>3. UNCHANGED <<row, obj, applied, hist, cleaner>>
  BY DEF ReadClaimed, ReadNothing, OpenSource, OpenNormalized
<1>4. SweepIsMarked' /\ BadIsReported' /\ ReadyIsValidated' /\ ApplyIsConfirmed'
        /\ AppliedWasConfirmed'
  BY <1>3 DEF SweepIsMarked, BadIsReported, ReadyIsValidated, ApplyIsConfirmed,
              AppliedWasConfirmed
<1>5. CASE ReadNothing(w)
  <2>1. Becomes(w, Idle)
    BY <1>5, WorkerBecomes DEF ReadNothing
  <2>2. QED
    BY <1>3, <1>4, <2>1, ReturnKeepsWorkers
<1>6. CASE ReadClaimed(w) \/ OpenSource(w) \/ OpenNormalized(w)
  <2>a. worker[w] \in Opening
    BY <1>2, <1>6 DEF ReadClaimed, OpenSource, OpenNormalized, Handler, Opened
  <2>1. /\ \A v \in Workers \ {w} : worker'[v] = worker[v]
        /\ worker[w].pc \in {"claimed", "read"}
        /\ worker'[w].pc \in {"read", "opened"}
        /\ worker'[w].ev = worker[w].ev
    BY <1>6, <2>a, ReadingMoves
  <2>2. worker[w].pc = "claimed" => worker'[w].sum = row[j].sum
    BY <1>1, <1>6, <2>a, ReadingMoves
  <2>3. worker[w].pc # "claimed" => worker'[w].sum = worker[w].sum
    BY <1>1, <1>6, <2>a, ReadingMoves
  <2>4. worker[w].ev.kind = "apply-requested" /\ worker'[w].pc = "opened" =>
            worker'[w].file = obj[j].norm /\ obj[j].norm # NoFile
    BY <1>1, <1>6, <2>a, ReadingMoves
  <2>5. AloneOnJob'
    BY <1>3, <2>1 DEF AloneOnJob
  <2>6. WorkerHasSource'
    <3> SUFFICES ASSUME NEW v \in Workers, NEW i \in Jobs, Handles(v, i)', ~hist[i].cut
                 PROVE  /\ worker'[v].pc # "claimed" => worker'[v].sum = row[i].sum
                        /\ At(v, "requested", "normalized")' \/ At(v, "requested", "reported")' =>
                             worker'[v].file = row[i].sum /\ IsSource(i, obj[i].norm)
                        /\ At(v, "requested", "reported")' => IsSource(i, obj[i].rep)
                        /\ At(v, "apply-requested", "opened")' => worker'[v].file = row[i].sum
      BY <1>3 DEF WorkerHasSource
    <3>1. CASE v # w
      BY <2>1, <3>1 DEF WorkerHasSource
    <3>2. CASE v = w
      <4>1. i = j
        BY <1>1, <2>1, <3>2
      <4>2. worker'[w].sum = row[j].sum
        BY <1>1, <2>1, <2>2, <2>3, <3>2, <4>1 DEF WorkerHasSource
      <4>3. At(w, "apply-requested", "opened")' => worker'[w].file = row[j].sum
        <5>1. At(w, "apply-requested", "opened")' => row[j].status = "applying"
          BY <1>1, <2>1, <3>2, <4>1 DEF AloneOnJob, Claimed
        <5>2. QED
          BY <2>1, <2>4, <3>2, <4>1, <5>1 DEF ReadyIsValidated
      <4>4. QED
        BY <2>1, <3>2, <4>1, <4>2, <4>3
    <3>3. QED
      BY <3>1, <3>2
  <2>7. QED
    BY <1>4, <2>5, <2>6
<1>7. QED
  BY <1>5, <1>6

(* Validate uploads what it made of the source.                            *)
LEMMA PuttingKeepsAttemptInv ==
    ASSUME TypeOK, AttemptInv, NEW w \in Workers, UNCHANGED <<view, cleaner>>,
           PutNormalized(w) \/ PutReport(w)
    PROVE  AttemptInv'
<1> USE DEF TypeOK, AttemptInv
<1> USE DEF Handles, Busy, JobOf, At, IsSource, WrittenWasConfirmed
<1>1. PICK j \in Jobs : JobOf(w) = j
  BY DEF PutNormalized, PutReport, WorkerTypeOK, Handler, Opening, Opened, Idle, Event
<1>2. worker[w] \in Handler /\ worker[w].ev.kind = "requested" /\ worker[w].file \in FileOrNo
  BY DEF PutNormalized, PutReport, WorkerTypeOK, Handler, Opening, Opened, Idle, Event, FileOrNo
<1>3. UNCHANGED <<row, applied, hist, cleaner>>
  BY DEF PutNormalized, PutReport
<1>4. /\ \A v \in Workers \ {w} : worker'[v] = worker[v]
      /\ worker[w].pc \in {"opened", "normalized"}
      /\ worker'[w].pc \in {"normalized", "reported"}
      /\ worker'[w].ev = worker[w].ev /\ worker'[w].sum = worker[w].sum
      /\ worker'[w].file = worker[w].file
      /\ worker'[w].pc = "normalized" => worker[w].pc = "opened"
      /\ worker[w].pc = "opened" => worker[w].file = worker[w].sum
  BY <1>2 DEF PutNormalized, PutReport, GoTo, WorkerTypeOK, Handler, Opening, Opened,
              ChecksumMatches
<1>5. /\ \A i \in Jobs \ {j} : obj'[i] = obj[i]
      /\ worker[w].pc = "opened" => /\ worker'[w].pc = "normalized"
                                    /\ obj'[j].norm = worker[w].file
                                    /\ obj'[j].rep = obj[j].rep
      /\ worker[w].pc = "normalized" => /\ worker'[w].pc = "reported"
                                        /\ obj'[j].rep = worker[w].file
                                        /\ obj'[j].norm = obj[j].norm
  BY <1>1, <1>2 DEF PutNormalized, PutReport, GoTo, WorkerTypeOK, Handler, Opening, Opened,
                    StoreTypeOK, Objects
<1>6. ~hist[j].cut => /\ row[j].status = "validating"
                      /\ worker[w].file = row[j].sum
                      /\ \A v \in Workers : Handles(v, j) => v = w
  BY <1>1, <1>2, <1>4 DEF AloneOnJob, WorkerHasSource, Claimed
<1>7. AloneOnJob' /\ SweepIsMarked'
  BY <1>3, <1>4 DEF AloneOnJob, SweepIsMarked
<1>8. WorkerHasSource'
  <2> SUFFICES ASSUME NEW v \in Workers, NEW i \in Jobs, Handles(v, i)', ~hist[i].cut
               PROVE  /\ worker'[v].pc # "claimed" => worker'[v].sum = row[i].sum
                      /\ At(v, "requested", "normalized")' \/ At(v, "requested", "reported")' =>
                           worker'[v].file = row[i].sum /\ IsSource(i, obj[i].norm)'
                      /\ At(v, "requested", "reported")' => IsSource(i, obj[i].rep)'
                      /\ At(v, "apply-requested", "opened")' => worker'[v].file = row[i].sum
    BY <1>3 DEF WorkerHasSource
  <2>1. CASE v # w
    BY <1>1, <1>3, <1>4, <1>5, <1>6, <2>1 DEF WorkerHasSource
  <2>2. CASE v = w
    <3>1. i = j
      BY <1>1, <1>4, <2>2
    <3>2. worker[w].sum = row[j].sum
      BY <1>1, <1>4, <2>2, <3>1 DEF WorkerHasSource
    <3>3. worker[w].pc = "normalized" => IsSource(j, obj[j].norm)
      BY <1>1, <1>2, <2>2, <3>1 DEF WorkerHasSource
    <3>4. QED
      BY <1>2, <1>3, <1>4, <1>5, <1>6, <2>2, <3>1, <3>2, <3>3
  <2>3. QED
    BY <2>1, <2>2
<1>9. BadIsReported' /\ ReadyIsValidated'
  BY <1>3, <1>5, <1>6 DEF BadIsReported, ReadyIsValidated
<1>10. ApplyIsConfirmed' /\ AppliedWasConfirmed'
  BY <1>3 DEF ApplyIsConfirmed, AppliedWasConfirmed
<1>11. QED
  BY <1>7, <1>8, <1>9, <1>10

(* The provider is sent the source, which was confirmed.                   *)
LEMMA ApplyKeepsAttemptInv ==
    ASSUME TypeOK, AttemptInv, NEW w \in Workers, UNCHANGED <<view, cleaner>>, ApplyBatch(w)
    PROVE  AttemptInv'
<1> USE DEF TypeOK, AttemptInv
<1> USE DEF Handles, Busy, JobOf, At, IsSource, WrittenWasConfirmed
<1>1. PICK j \in Jobs : JobOf(w) = j
  BY DEF ApplyBatch, WorkerTypeOK, Handler, Opening, Opened, Idle, Event
<1>2. worker[w] \in Handler /\ worker[w].ev.kind = "apply-requested" /\ worker[w].pc = "opened"
  BY DEF ApplyBatch, WorkerTypeOK, Handler, Opening, Opened, Idle, Event
<1>3. UNCHANGED <<row, obj, hist, cleaner>>
  BY DEF ApplyBatch
<1>4. /\ \A v \in Workers \ {w} : worker'[v] = worker[v]
      /\ worker'[w].pc = worker[w].pc /\ worker'[w].ev = worker[w].ev
      /\ worker'[w].sum = worker[w].sum /\ worker'[w].file = worker[w].file
  BY <1>2 DEF ApplyBatch, GoTo, WorkerTypeOK, Handler, Opening, Opened
<1>5. /\ \A i \in Jobs \ {j} : applied'[i] = applied[i]
      /\ \A b \in Batch : applied'[j][b] = applied[j][b] \/ applied'[j][b] = worker[w].file
  BY <1>1 DEF ApplyBatch, ProviderApply, StoreTypeOK
<1>6. ~hist[j].cut => worker[w].file \in hist[j].confirmed
  BY <1>1, <1>2 DEF AloneOnJob, WorkerHasSource, ApplyIsConfirmed, Claimed
<1>7. AloneOnJob' /\ SweepIsMarked' /\ WorkerHasSource'
  BY <1>3, <1>4 DEF AloneOnJob, SweepIsMarked, WorkerHasSource
<1>8. BadIsReported' /\ ReadyIsValidated' /\ ApplyIsConfirmed'
  BY <1>3 DEF BadIsReported, ReadyIsValidated, ApplyIsConfirmed
<1>9. AppliedWasConfirmed'
  BY <1>3, <1>5, <1>6 DEF AppliedWasConfirmed
<1>10. QED
  BY <1>7, <1>8, <1>9

(* The statements of a worker, and a message that has nothing to claim.    *)
LEMMA ClaimKeepsAttemptInv ==
    ASSUME TypeOK, AttemptInv, NEW w \in Workers, UNCHANGED <<view, cleaner>>,
           NEW e \in events, Claim(w, e) \/ SkipDelivery(w, e)
    PROVE  AttemptInv'
<1> USE DEF TypeOK, AttemptInv
<1> USE DEF Handles, Busy, JobOf, At, IsSource, WrittenWasConfirmed
<1>1. e.job \in Jobs /\ e.kind \in EventKind /\ row \in [Jobs -> Row]
  BY DEF StoreTypeOK, Event
<1>2. CASE SkipDelivery(w, e)
  BY <1>2 DEF SkipDelivery, AloneOnJob, SweepIsMarked, WorkerHasSource, BadIsReported,
              ReadyIsValidated, ApplyIsConfirmed, AppliedWasConfirmed
<1>3. CASE Claim(w, e)
  <2> DEFINE j == e.job
  <2>1. Columns(j, Claimed(e.kind), row[j].sum, row[j].bad, row[j].up, row[j].res)
    BY <1>1, <1>3, WorkerColumns DEF Claim
  <2>2. /\ worker'[w].pc = "claimed" /\ worker'[w].ev = e
        /\ \A v \in Workers \ {w} : worker'[v] = worker[v]
    BY <1>3, WorkerBecomes DEF Claim, Becomes
  <2>3. /\ row[j].status = Waiting(e.kind)
        /\ UNCHANGED <<obj, applied, hist, cleaner>>
    BY <1>3 DEF Claim, SqlClaim
  <2>4. AloneOnJob'
    BY <1>1, <2>1, <2>2, <2>3 DEF Columns, AloneOnJob, Claimed, Waiting, EventKind
  <2>5. WorkerHasSource'
    BY <1>1, <2>1, <2>2, <2>3 DEF Columns, WorkerHasSource
  <2>6. SweepIsMarked' /\ BadIsReported'
    BY <1>1, <2>1, <2>3 DEF Columns, SweepIsMarked, BadIsReported, Waiting, EventKind
  <2>7. ReadyIsValidated' /\ ApplyIsConfirmed' /\ AppliedWasConfirmed'
    BY <1>1, <2>1, <2>3 DEF Columns, ReadyIsValidated, ApplyIsConfirmed, AppliedWasConfirmed,
                            Waiting, Claimed, EventKind
  <2>8. QED
    BY <2>4, <2>5, <2>6, <2>7
<1>4. QED
  BY <1>2, <1>3

(* The statements that end a handler store what was made of the source.    *)
LEMMA ReturnKeepsAttemptInv ==
    ASSUME TypeOK, AttemptInv, NEW w \in Workers, UNCHANGED <<view, cleaner>>,
           FinishValidation(w) \/ FinishApply(w) \/ Fail(w)
    PROVE  AttemptInv'
<1> USE DEF TypeOK, AttemptInv
<1> USE DEF JobOf, IsSource, WrittenWasConfirmed
<1>1. worker[w].pc # "idle"
  BY DEF FinishValidation, FinishApply, Fail, Validated, At
<1>2. PICK j \in Jobs : JobOf(w) = j /\ Handles(w, j)
  BY <1>1, BusyType DEF Handles, Busy
<1>3. Becomes(w, Idle) /\ UNCHANGED <<obj, applied, hist, cleaner>>
  BY WorkerBecomes DEF FinishValidation, FinishApply, Fail
<1>4. SweepIsMarked' /\ AppliedWasConfirmed'
  BY <1>3 DEF SweepIsMarked, AppliedWasConfirmed
<1>5. row \in [Jobs -> Row] /\ worker[w].ev.kind \in EventKind
  BY <1>1, BusyType DEF StoreTypeOK, Busy
<1>6. CASE UNCHANGED row
  BY <1>3, <1>4, <1>6, ReturnKeepsWorkers
     DEF BadIsReported, ReadyIsValidated, ApplyIsConfirmed
<1>7. CASE FinishValidation(w) /\ SqlFinishValidation(j, HasInvalidRows(w))
  <2>1. Columns(j, IF HasInvalidRows(w) THEN "validation_failed" ELSE "ready", row[j].sum,
                HasInvalidRows(w), row[j].up, "future")
    BY <1>5, <1>7, WorkerColumns
  <2>2. ~hist[j].cut =>
          /\ worker[w].file = row[j].sum
          /\ IsSource(j, obj[j].norm)
          /\ HasInvalidRows(w) => IsSource(j, obj[j].rep)
    BY <1>2, <1>7 DEF WorkerHasSource, FinishValidation, Validated, At
  <2>3. AloneOnJob' /\ WorkerHasSource'
    BY <1>2, <1>3, <2>1, ReturnKeepsWorkers DEF Columns
  <2>4. BadIsReported'
    BY <1>3, <2>1, <2>2 DEF BadIsReported, Columns
  <2>5. ReadyIsValidated'
    <3>1. row'[j].status \in {"ready", "apply_queued", "applying"} => ~HasInvalidRows(w)
      BY <2>1 DEF Columns
    <3>2. ~hist[j].cut /\ ~HasInvalidRows(w) => row[j].sum \in GoodFiles
      BY <2>2 DEF HasInvalidRows, WorkerTypeOK
    <3>3. QED
      BY <1>3, <2>1, <2>2, <3>1, <3>2 DEF ReadyIsValidated, Columns
  <2>6. ApplyIsConfirmed'
    BY <1>3, <2>1 DEF ApplyIsConfirmed, Columns
  <2>7. QED
    BY <1>4, <2>3, <2>4, <2>5, <2>6
<1>8. CASE \/ FinishApply(w) /\ SqlFinishApply(j)
           \/ Fail(w) /\ SqlFail(j, worker[w].ev.kind)
  <2>1. \/ Columns(j, "succeeded", row[j].sum, row[j].bad, row[j].up, "future")
        \/ Columns(j, "failed", row[j].sum, row[j].bad, row[j].up, "future")
    BY <1>5, <1>8, WorkerColumns
  <2>2. row[j].status \in {"validating", "applying"}
    BY <1>5, <1>8 DEF SqlFinishApply, SqlFail, Claimed, EventKind
  <2>3. AloneOnJob' /\ WorkerHasSource'
    BY <1>2, <1>3, <2>1, ReturnKeepsWorkers DEF Columns
  <2>4. BadIsReported'
    BY <1>3, <2>1, <2>2 DEF BadIsReported, Columns
  <2>5. ReadyIsValidated' /\ ApplyIsConfirmed'
    BY <1>3, <2>1 DEF ReadyIsValidated, ApplyIsConfirmed, Columns
  <2>6. QED
    BY <1>4, <2>3, <2>4, <2>5
<1>9. QED
  BY <1>2, <1>6, <1>7, <1>8 DEF FinishValidation, FinishApply, Fail
-----------------------------------------------------------------------------
(* A cleaner deletes and expires; it works through an old listing, so it   *)
(* may do so to any job.                                                   *)
LEMMA CleanerKeepsAttemptInv ==
    ASSUME TypeOK, AttemptInv, NEW k \in Cleaners, CleanerStep(k), UNCHANGED <<view, worker>>
    PROVE  AttemptInv'
<1> USE DEF TypeOK, AttemptInv
<1> USE DEF Handles, Busy, JobOf, At, IsSource, WrittenWasConfirmed
<1>a. cleaner \in [Cleaners -> {Resting} \cup Picking \cup Sweeping]
  BY DEF CleanerTypeOK
<1>b. row \in [Jobs -> Row]
  BY DEF StoreTypeOK
<1>1. CASE List(k)
  <2>1. UNCHANGED <<row, obj, applied, hist>>
    BY <1>1 DEF List, storeVars
  <2>2. SweepIsMarked'
    BY <1>a, <1>1, <2>1 DEF SweepIsMarked, List, CleanerTo
  <2>3. QED
    BY <2>1, <2>2 DEF AloneOnJob, WorkerHasSource, BadIsReported, ReadyIsValidated,
                      ApplyIsConfirmed, AppliedWasConfirmed
<1>2. ASSUME NEW p \in cleaner[k].todo, DeleteSource(k, p), cleaner[k].pc = "pick"
      PROVE  AttemptInv'
  <2>1. p[1] \in Jobs
    BY <1>a, <1>2 DEF Resting, Picking, Sweeping, Listing
  <2>2. UNCHANGED <<row, applied>>
    BY <1>2 DEF DeleteSource
  <2>3. /\ \A j \in Jobs : obj'[j].norm = obj[j].norm /\ obj'[j].rep = obj[j].rep
        /\ \A j \in Jobs : /\ hist'[j].cut = hist[j].cut
                           /\ hist'[j].confirmed = hist[j].confirmed
                           /\ hist[j].swept => hist'[j].swept
        /\ hist'[p[1]].swept
    BY <1>2, <2>1 DEF DeleteSource, StoreTypeOK, Objects, History
  <2>4. SweepIsMarked'
    <3>1. /\ cleaner'[k].job = p[1]
          /\ \A m \in Cleaners \ {k} : cleaner'[m] = cleaner[m]
      BY <1>a, <1>2 DEF DeleteSource, CleanerTo
    <3>2. QED
      BY <1>a, <2>3, <3>1 DEF SweepIsMarked, Resting, Picking, Sweeping
  <2>5. AloneOnJob' /\ WorkerHasSource'
    BY <2>2, <2>3 DEF AloneOnJob, WorkerHasSource
  <2>6. BadIsReported' /\ ReadyIsValidated'
    BY <2>2, <2>3 DEF BadIsReported, ReadyIsValidated
  <2>7. ApplyIsConfirmed' /\ AppliedWasConfirmed'
    BY <2>2, <2>3 DEF ApplyIsConfirmed, AppliedWasConfirmed
  <2>8. QED
    BY <2>4, <2>5, <2>6, <2>7
<1>3. CASE DeleteNormalized(k) \/ DeleteReport(k)
  <2>1. cleaner[k] \in Sweeping
    BY <1>a, <1>3 DEF DeleteNormalized, DeleteReport, Resting, Picking, Sweeping
  <2>2. PICK j \in Jobs : cleaner[k].job = j
    BY <2>1 DEF Sweeping
  <2>3. UNCHANGED <<row, applied, hist>> /\ hist[j].swept
    BY <1>3, <2>1, <2>2 DEF DeleteNormalized, DeleteReport, SweepIsMarked
  <2>4. /\ \A i \in Jobs \ {j} : obj'[i] = obj[i]
        /\ obj'[j].norm = obj[j].norm \/ obj'[j].norm = NoFile
        /\ obj'[j].rep = obj[j].rep \/ obj'[j].rep = NoFile
    BY <1>3, <2>2 DEF DeleteNormalized, DeleteReport, StoreTypeOK, Objects
  <2>5. SweepIsMarked'
    <3>1. /\ cleaner'[k].job = j
          /\ \A m \in Cleaners \ {k} : cleaner'[m] = cleaner[m]
      BY <1>a, <1>3, <2>1, <2>2 DEF DeleteNormalized, DeleteReport, CleanerTo, Sweeping
    <3>2. QED
      BY <2>3, <3>1 DEF SweepIsMarked
  <2>6. AloneOnJob' /\ WorkerHasSource'
    BY <2>3, <2>4 DEF AloneOnJob, WorkerHasSource
  <2>7. BadIsReported' /\ ReadyIsValidated'
    BY <2>3, <2>4 DEF BadIsReported, ReadyIsValidated
  <2>8. ApplyIsConfirmed' /\ AppliedWasConfirmed'
    BY <2>3 DEF ApplyIsConfirmed, AppliedWasConfirmed
  <2>9. QED
    BY <2>5, <2>6, <2>7, <2>8
<1>4. CASE Expire(k)
  <2>1. cleaner[k] \in Sweeping
    BY <1>a, <1>4 DEF Expire, Resting, Picking, Sweeping
  <2>2. PICK j \in Jobs : cleaner[k].job = j
    BY <2>1 DEF Sweeping
  <2>3. UNCHANGED <<obj, applied, hist>>
    BY <1>4 DEF Expire
  <2>4. SweepIsMarked'
    <3>1. /\ cleaner'[k].pc \in {"rest", "pick"}
          /\ \A m \in Cleaners \ {k} : cleaner'[m] = cleaner[m]
      BY <1>a, <1>4 DEF Expire, CleanerTo, Resting
    <3>2. QED
      BY <2>3, <3>1 DEF SweepIsMarked
  <2>5. CASE UNCHANGED row
    BY <2>3, <2>4, <2>5 DEF AloneOnJob, WorkerHasSource, BadIsReported, ReadyIsValidated,
                            ApplyIsConfirmed, AppliedWasConfirmed
  <2>6. CASE SqlExpire(j, cleaner[k].seen)
    <3>1. Columns(j, "expired", row[j].sum, row[j].bad, row[j].up, row[j].res)
      BY <1>b, <2>6, CleanerColumns
    <3>2. row[j].status \in Listable
      BY <2>1, <2>6 DEF SqlExpire, Sweeping
    <3>3. AloneOnJob' /\ WorkerHasSource'
      BY <2>3, <3>1, <3>2 DEF AloneOnJob, WorkerHasSource, Columns, Listable, Retained, Claimed
    <3>4. BadIsReported' /\ ReadyIsValidated'
      BY <2>3, <3>1 DEF BadIsReported, ReadyIsValidated, Columns
    <3>5. ApplyIsConfirmed' /\ AppliedWasConfirmed'
      BY <2>3, <3>1 DEF ApplyIsConfirmed, AppliedWasConfirmed, Columns
    <3>6. QED
      BY <2>4, <3>3, <3>4, <3>5
  <2>7. QED
    BY <1>4, <2>2, <2>5, <2>6 DEF Expire
<1>5. QED
  BY <1>1, <1>2, <1>3, <1>4 DEF CleanerStep

(* Time, the deletion of rows and the loss of a worker or a cleaner.       *)
LEMMA RestKeepsAttemptInv ==
    ASSUME TypeOK, AttemptInv,
           (\E j \in Jobs : Time(j) \/ Purging(j)) \/ Faults
    PROVE  AttemptInv'
<1> USE DEF TypeOK, AttemptInv
<1> USE DEF Handles, Busy, JobOf, At, IsSource, WrittenWasConfirmed
<1>b. row \in [Jobs -> Row]
  BY DEF StoreTypeOK
<1>1. ASSUME NEW j \in Jobs, Time(j) \/ Purging(j)
      PROVE  AttemptInv'
  <2>1. UNCHANGED <<obj, applied, hist, worker, cleaner>>
    BY <1>1 DEF Time, Purging, DeadlinePasses, Purge
  <2>2. /\ \A i \in Jobs \ {j} : row'[i] = row[i]
        /\ row'[j].sum = row[j].sum /\ row'[j].bad = row[j].bad
        /\ \/ row'[j].status = row[j].status
           \/ row[j].status = "expired" /\ row'[j].status = "purged"
    BY <1>b, <1>1, CleanerColumns DEF Time, Purging, Purge, SqlDeleteExpired, Columns
  <2>3. AloneOnJob' /\ SweepIsMarked' /\ WorkerHasSource'
    BY <2>1, <2>2 DEF AloneOnJob, SweepIsMarked, WorkerHasSource, Claimed
  <2>4. BadIsReported' /\ ReadyIsValidated'
    BY <2>1, <2>2 DEF BadIsReported, ReadyIsValidated
  <2>5. ApplyIsConfirmed' /\ AppliedWasConfirmed'
    BY <2>1, <2>2 DEF ApplyIsConfirmed, AppliedWasConfirmed
  <2>6. QED
    BY <2>3, <2>4, <2>5
<1>2. ASSUME NEW w \in Workers, Lose(w), UNCHANGED <<view, cleaner>>
      PROVE  AttemptInv'
  <2>1. /\ UNCHANGED <<row, obj, applied>>
        /\ \A v \in Workers : Busy(v)' => v # w /\ worker'[v] = worker[v]
    BY <1>2 DEF Lose, GoTo, WorkerTypeOK, Idle
  <2>2. \A i \in Jobs : /\ hist'[i].cut = hist[i].cut
                        /\ hist'[i].swept = hist[i].swept
                        /\ hist'[i].confirmed = hist[i].confirmed
    BY <1>2 DEF Lose, StoreTypeOK, History
  <2>3. AloneOnJob' /\ WorkerHasSource'
    BY <2>1, <2>2 DEF AloneOnJob, WorkerHasSource
  <2>4. SweepIsMarked'
    BY <1>2, <2>2 DEF SweepIsMarked, CleanerTypeOK, Resting, Picking, Sweeping
  <2>5. BadIsReported' /\ ReadyIsValidated' /\ ApplyIsConfirmed' /\ AppliedWasConfirmed'
    BY <2>1, <2>2 DEF BadIsReported, ReadyIsValidated, ApplyIsConfirmed, AppliedWasConfirmed
  <2>6. QED
    BY <2>3, <2>4, <2>5
<1>3. ASSUME NEW k \in Cleaners, Abort(k), UNCHANGED <<view, worker>>
      PROVE  AttemptInv'
  <2>1. UNCHANGED <<row, obj, applied, hist>>
    BY <1>3 DEF Abort
  <2>2. SweepIsMarked'
    BY <1>3, <2>1 DEF Abort, SweepIsMarked, CleanerTypeOK, CleanerTo, Resting
  <2>3. QED
    BY <1>3, <2>1, <2>2 DEF AloneOnJob, WorkerHasSource, BadIsReported, ReadyIsValidated,
                            ApplyIsConfirmed, AppliedWasConfirmed
<1>4. QED
  BY <1>1, <1>2, <1>3 DEF Faults

(* The invariant of one attempt.                                           *)
LEMMA NextKeepsAttemptInv ==
    ASSUME TypeOK, AttemptInv, [Next]_vars
    PROVE  AttemptInv'
<1>1. CASE UNCHANGED vars
  BY <1>1 DEF vars, AttemptInv, AloneOnJob, SweepIsMarked, WorkerHasSource, BadIsReported,
              ReadyIsValidated, ApplyIsConfirmed, AppliedWasConfirmed, Handles, Busy, JobOf, At,
              IsSource, WrittenWasConfirmed
<1>2. CASE Requests
  BY <1>2, ServiceKeepsAttemptInv DEF Requests
<1>3. ASSUME NEW w \in Workers, Work(w)
      PROVE  AttemptInv'
  BY <1>3, ReadingKeepsAttemptInv, PuttingKeepsAttemptInv, ApplyKeepsAttemptInv,
     ClaimKeepsAttemptInv, ReturnKeepsAttemptInv DEF Work, WorkerStep
<1>4. ASSUME NEW k \in Cleaners, Sweep(k)
      PROVE  AttemptInv'
  BY <1>4, CleanerKeepsAttemptInv DEF Sweep
<1>5. CASE (\E j \in Jobs : Time(j) \/ Purging(j)) \/ Faults
  BY <1>5, RestKeepsAttemptInv
<1>6. QED
  BY <1>1, <1>2, <1>3, <1>4, <1>5 DEF Next

(* It holds at the start: no job, no worker on it, nothing written.        *)
LEMMA InitAttemptInv == Init => AttemptInv
<1> SUFFICES ASSUME Init PROVE AttemptInv
  OBVIOUS
<1> USE DEF Init, StoreInit, WorkerInit, CleanerInit
<1>1. AloneOnJob /\ WorkerHasSource
  BY DEF AloneOnJob, WorkerHasSource, Handles, Busy, Idle
<1>2. SweepIsMarked
  BY DEF SweepIsMarked, Resting
<1>3. BadIsReported /\ ReadyIsValidated /\ ApplyIsConfirmed
  BY DEF BadIsReported, ReadyIsValidated, ApplyIsConfirmed
<1>4. AppliedWasConfirmed
  BY DEF AppliedWasConfirmed, WrittenWasConfirmed
<1>5. QED
  BY <1>1, <1>2, <1>3, <1>4 DEF AttemptInv

(* The content of a job's objects is what the invariant of the attempt     *)
(* says.                                                                   *)
THEOREM AttemptsAreConsistent == Spec => []AttemptInv
<1>1. TypeOK /\ AttemptInv /\ [Next]_vars => AttemptInv'
  BY NextKeepsAttemptInv
<1>2. QED
  BY <1>1, InitAttemptInv, TypeCorrect, PTL DEF Spec

(* A ready job, and one about to be applied, has the fully valid source    *)
(* the client announced and its normalized object: Validate finishes only  *)
(* after a checksum comparison against the row it claimed, and no one but  *)
(* a cancel takes the row away from it.                                    *)
THEOREM ReadyWasValidated == Spec => []ReadyIsValidated
<1>1. AttemptInv => ReadyIsValidated
  BY DEF AttemptInv
<1>2. QED
  BY <1>1, AttemptsAreConsistent, PTL

(* No batch reaches the provider of a source the user did not confirm.     *)
THEOREM OnlyConfirmedApplied == Spec => []AppliedWasConfirmed
<1>1. AttemptInv => AppliedWasConfirmed
  BY DEF AttemptInv
<1>2. QED
  BY <1>1, AttemptsAreConsistent, PTL

(* The report offered for download is on the announced source: it is put   *)
(* before the finishing transaction counts an invalid row.                 *)
THEOREM ReportMatchesSource == Spec => []ReportIsOfSource
<1>1. AttemptInv => ReportIsOfSource
  BY DEF AttemptInv, BadIsReported, ReportIsOfSource, ReportOffered, IsSource
<1>2. QED
  BY <1>1, AttemptsAreConsistent, PTL
-----------------------------------------------------------------------------
(* A step that touches nothing the invariant of job j looks at.            *)
OthersOnly(j) ==
    /\ row'[j] = row[j]
    /\ obj'[j].norm = obj[j].norm /\ obj'[j].rep = obj[j].rep
    /\ applied'[j] = applied[j]
    /\ hist'[j].cut = hist[j].cut

WorkersKeep(j) ==
    \A w \in Workers : Handles(w, j)' => Handles(w, j) /\ worker'[w] = worker[w]

CleanersKeep(j) ==
    \A k \in Cleaners :
        /\ \A s \in Listable : Tracks(k, j, s)' => Tracks(k, j, s)
        /\ cleaner'[k].pc \in {"rep", "expire"} /\ cleaner'[k].job = j =>
               cleaner'[k] = cleaner[k]

(* Requests and workers do not touch a cleaner.                            *)
LEMMA CleanersUntouched ==
    ASSUME UNCHANGED cleaner, NEW j \in Jobs
    PROVE  CleanersKeep(j)
  BY DEF CleanersKeep, Tracks

(* Such a step keeps the invariant of job j.                               *)
LEMMA JobFrame ==
    ASSUME NEW j \in Jobs, JobInv(j), OthersOnly(j), WorkersKeep(j), CleanersKeep(j)
    PROVE  JobInv(j)'
<1> USE DEF JobInv, FirstAttempt, OthersOnly
<1>1. CutIsFinal(j)' /\ WroteItsSource(j)' /\ NoEarlyResults(j)' /\ ResultsGone(j)'
  BY DEF CutIsFinal, WroteItsSource, NoEarlyResults, ResultsGone
<1>2. WrittenSoFar(j)'
  BY DEF WrittenSoFar, WorkersKeep, Empty, WrittenUpTo
<1>3. NoLateValidation(j)'
  BY DEF NoLateValidation, Validates, WorkersKeep
<1>4. ListedIsDue(j)' /\ DeletedIsGone(j)'
  BY DEF ListedIsDue, DeletedIsGone, CleanersKeep
<1>5. QED
  BY <1>1, <1>2, <1>3, <1>4

(* Requests: a retry ends the first attempt, a cancel is its end.          *)
LEMMA ServiceKeepsFirstInv ==
    ASSUME TypeOK, AttemptInv, FirstInv, ServiceStep, UNCHANGED <<worker, cleaner>>
    PROVE  FirstInv'
<1> SUFFICES ASSUME NEW j \in Jobs, hist'[j].attempt = 0
             PROVE  JobInv(j)'
  BY DEF FirstInv
<1> USE DEF TypeOK, JobInv, FirstAttempt
<1>r. row \in [Jobs -> Row]
  BY DEF StoreTypeOK
<1>w. WorkersKeep(j) /\ CleanersKeep(j)
  BY CleanersUntouched DEF WorkersKeep, Handles, Busy, JobOf
<1>k. \A k \in Cleaners, s \in Listable : Tracks(k, j, s)' = Tracks(k, j, s)
  BY DEF Tracks
<1>v. \A w \in Workers : Handles(w, j)' = Handles(w, j) /\ Validates(w, j)' = Validates(w, j)
  BY DEF Handles, Busy, JobOf, Validates
<1>f. ASSUME OthersOnly(j), hist[j].attempt = 0
      PROVE  JobInv(j)'
  BY <1>f, <1>w, JobFrame DEF FirstInv
<1>c. ASSUME NEW s, NEW f, NEW b, NEW u, NEW r,
             Columns(j, s, f, b, u, r), JobInv(j),
             UNCHANGED <<obj, applied>>,
             ~hist'[j].cut => ~hist[j].cut,
             hist'[j].cut => s = "canceled",
             s \in NotApplied => row[j].status \in NotApplied,
             s \in NotValidated => row[j].status \in NotValidated,
             s \in {"uploading", "queued"} => row[j].status \in {"none", "uploading", "queued"},
             s \notin {"none", "succeeded", "expired", "purged"},
             s \in Retained \/ row[j].status \notin Retained \cup {"expired", "purged"},
             u = row[j].up \/ row[j].status = "none", r = row[j].res
      PROVE  JobInv(j)'
  <2>1. CutIsFinal(j)' /\ WroteItsSource(j)' /\ NoEarlyResults(j)' /\ ResultsGone(j)'
    BY <1>c DEF CutIsFinal, WroteItsSource, NoEarlyResults, ResultsGone, Columns
  <2>2. WrittenSoFar(j)'
    BY <1>c, <1>v DEF WrittenSoFar, Columns, Empty, WrittenUpTo
  <2>3. NoLateValidation(j)'
    BY <1>c, <1>v DEF NoLateValidation, Columns
  <2>4. ListedIsDue(j)'
    BY <1>c, <1>k DEF ListedIsDue, Columns, Listable
  <2>5. DeletedIsGone(j)'
    BY <1>c DEF DeletedIsGone
  <2>6. QED
    BY <2>1, <2>2, <2>3, <2>4, <2>5
<1> USE DEF NotApplied, NotValidated, Retained
<1>1. ASSUME NEW i \in Jobs, Create(i)
      PROVE  JobInv(j)'
  <2>1. Columns(i, "uploading", row[i].sum, row[i].bad, "future", row[i].res)
    BY <1>1, <1>r, ServiceColumns DEF Create
  <2>2. row[i].status = "none" /\ UNCHANGED <<obj, applied, hist>>
    BY <1>1 DEF Create, SqlCreate
  <2>3. CASE i = j
    <3>1. JobInv(j) /\ ~hist[j].cut
      BY <2>2, <2>3 DEF FirstInv, CutIsFinal, StoreTypeOK, History
    <3>2. QED
      BY <1>c, <2>1, <2>2, <2>3, <3>1
  <2>4. CASE i # j
    BY <1>f, <2>1, <2>2, <2>4 DEF OthersOnly, Columns
  <2>5. QED
    BY <2>3, <2>4
<1>2. ASSUME NEW i \in Jobs, NEW f \in Files, Upload(i, f)
      PROVE  JobInv(j)'
  <2>1. OthersOnly(j) /\ UNCHANGED hist
    BY <1>2 DEF Upload, StoreTypeOK, Objects, OthersOnly
  <2>2. QED
    BY <1>f, <2>1
<1>3. ASSUME NEW i \in Jobs, NEW c \in Clients, CompleteUpload(c, i)
      PROVE  JobInv(j)'
  <2>1. UNCHANGED <<obj, applied, hist>>
    BY <1>3 DEF CompleteUpload
  <2>2. CASE UNCHANGED row
    BY <1>f, <2>1, <2>2 DEF OthersOnly
  <2>3. CASE SqlCompleteUpload(i, view[c][i].version, view[c][i].claim)
    <3>1. Columns(i, "queued", view[c][i].claim, row[i].bad, row[i].up, row[i].res)
      BY <2>3, <1>r, ServiceColumns
    <3>2. row[i].status = "uploading"
      BY <2>3 DEF SqlCompleteUpload
    <3>3. CASE i = j
      <4>1. JobInv(j) /\ ~hist[j].cut
        BY <2>1, <3>2, <3>3 DEF FirstInv, CutIsFinal, StoreTypeOK, History
      <4>2. QED
        BY <1>c, <2>1, <3>1, <3>2, <3>3, <4>1
    <3>4. CASE i # j
      BY <1>f, <2>1, <3>1, <3>4 DEF OthersOnly, Columns
    <3>5. QED
      BY <3>3, <3>4
  <2>4. QED
    BY <1>3, <2>2, <2>3 DEF CompleteUpload
<1>4. ASSUME NEW i \in Jobs, NEW c \in Clients, Cancel(c, i)
      PROVE  JobInv(j)'
  <2>1. Columns(i, "canceled", row[i].sum, row[i].bad, row[i].up, row[i].res)
    BY <1>4, <1>r, ServiceColumns DEF Cancel
  <2>2. /\ UNCHANGED <<obj, applied>>
        /\ hist'[j].attempt = hist[j].attempt
        /\ i # j => hist'[j].cut = hist[j].cut
        /\ ~hist'[j].cut => ~hist[j].cut
    BY <1>4 DEF Cancel, StoreTypeOK, History
  <2>3. row[i].status \in Cancelable
    BY <1>4 DEF Cancel, SqlCancel
  <2>4. CASE i = j
    <3>1. JobInv(j)
      BY <2>2 DEF FirstInv
    <3>2. QED
      BY <1>c, <2>1, <2>2, <2>3, <2>4, <3>1 DEF Cancelable
  <2>5. CASE i # j
    BY <1>f, <2>1, <2>2, <2>5 DEF OthersOnly, Columns
  <2>6. QED
    BY <2>4, <2>5
<1>5. ASSUME NEW i \in Jobs, NEW c \in Clients, Retry(c, i)
      PROVE  JobInv(j)'
  <2>1. Columns(i, "uploading", NoFile, FALSE, "future", "null")
    BY <1>5, <1>r, ServiceColumns DEF Retry
  <2>2. /\ UNCHANGED <<obj, applied>>
        /\ hist'[i].attempt = hist[i].attempt + 1
        /\ i # j => hist'[j] = hist[j]
    BY <1>5 DEF Retry, StoreTypeOK, History
  <2>3. i # j
    BY <2>2, RowTypes
  <2>4. QED
    BY <1>f, <2>1, <2>2, <2>3 DEF OthersOnly, Columns
<1>6. ASSUME NEW i \in Jobs, NEW c \in Clients, NEW key \in ConfirmKeys, Confirm(c, i, key)
      PROVE  JobInv(j)'
  <2>1. Columns(i, "apply_queued", row[i].sum, row[i].bad, row[i].up, row[i].res)
    BY <1>6, <1>r, ServiceColumns DEF Confirm
  <2>2. /\ UNCHANGED <<obj, applied>>
        /\ row[i].status = "ready"
        /\ hist'[j].attempt = hist[j].attempt
        /\ hist'[j].cut = hist[j].cut
    BY <1>6 DEF Confirm, SqlConfirm, StoreTypeOK, History
  <2>3. CASE i = j
    <3>1. JobInv(j) /\ ~hist[j].cut
      BY <2>2, <2>3 DEF FirstInv, CutIsFinal, StoreTypeOK, History
    <3>2. QED
      BY <1>c, <2>1, <2>2, <2>3, <3>1
  <2>4. CASE i # j
    BY <1>f, <2>1, <2>2, <2>4 DEF OthersOnly, Columns
  <2>5. QED
    BY <2>3, <2>4
<1>7. CASE UNCHANGED storeVars
  BY <1>f, <1>7 DEF OthersOnly, storeVars
<1>8. ASSUME NEW i \in Jobs, NEW c \in Clients, NEW f \in Files,
             CompleteUploadStat(c, i, f)
      PROVE  UNCHANGED storeVars
  BY <1>8 DEF CompleteUploadStat
<1>9. ASSUME NEW i \in Jobs, NEW c \in Clients, Get(c, i)
      PROVE  UNCHANGED storeVars
  BY <1>9 DEF Get
<1>10. QED
  BY <1>1, <1>2, <1>3, <1>4, <1>5, <1>6, <1>7, <1>8, <1>9 DEF ServiceStep

(* A worker that turns to job i, or to nothing, leaves the other jobs.     *)
LEMMA WorkersKeepOthers ==
    ASSUME NEW w \in Workers, NEW h, Becomes(w, h), NEW i \in Jobs, NEW j \in Jobs,
           h = Idle \/ (h.ev.job = i /\ i # j)
    PROVE  WorkersKeep(j)
  BY DEF Becomes, WorkersKeep, Handles, Busy, JobOf, Idle

(* The parts of the invariant that say nothing of workers.                 *)
LEMMA StillJobFrame ==
    ASSUME NEW j \in Jobs, JobInv(j), OthersOnly(j), CleanersKeep(j),
           WrittenSoFar(j)', NoLateValidation(j)'
    PROVE  JobInv(j)'
<1> USE DEF JobInv, FirstAttempt, OthersOnly
<1>1. CutIsFinal(j)' /\ WroteItsSource(j)' /\ NoEarlyResults(j)' /\ ResultsGone(j)'
  BY DEF CutIsFinal, WroteItsSource, NoEarlyResults, ResultsGone
<1>2. ListedIsDue(j)' /\ DeletedIsGone(j)'
  BY DEF ListedIsDue, DeletedIsGone, CleanersKeep
<1>3. QED
  BY <1>1, <1>2

(* A worker reads the row and opens its object: nothing is written yet.    *)
LEMMA ReadingKeepsFirstInv ==
    ASSUME TypeOK, AttemptInv, FirstInv, NEW w \in Workers, UNCHANGED <<view, cleaner>>,
           \/ ReadClaimed(w) \/ ReadNothing(w) \/ OpenSource(w) \/ OpenNormalized(w)
    PROVE  FirstInv'
<1> SUFFICES ASSUME NEW j \in Jobs, hist'[j].attempt = 0
             PROVE  JobInv(j)'
  BY DEF FirstInv
<1> USE DEF TypeOK, JobInv, FirstAttempt, JobOf
<1>1. worker[w] \in Handler /\ worker[w].ev.kind \in EventKind /\ JobOf(w) \in Jobs
  BY DEF ReadClaimed, ReadNothing, OpenSource, OpenNormalized, At,
         WorkerTypeOK, Handler, Opening, Opened, Idle, Event
<1>2. UNCHANGED <<row, obj, applied, hist, cleaner>>
  BY DEF ReadClaimed, ReadNothing, OpenSource, OpenNormalized, storeVars
<1>3. OthersOnly(j) /\ CleanersKeep(j) /\ JobInv(j)
  BY <1>2, CleanersUntouched DEF OthersOnly, FirstInv
<1>4. CASE ReadNothing(w)
  <2>1. Becomes(w, Idle)
    BY <1>4, WorkerBecomes DEF ReadNothing
  <2>2. QED
    BY <1>3, <2>1, WorkersKeepOthers, JobFrame
<1>5. CASE ReadClaimed(w) \/ OpenSource(w) \/ OpenNormalized(w)
  <2>a. worker[w] \in Opening
    BY <1>1, <1>5 DEF ReadClaimed, OpenSource, OpenNormalized, Handler, Opened, At
  <2>1. /\ \A v \in Workers \ {w} : worker'[v] = worker[v]
        /\ worker[w].pc \in {"claimed", "read"}
        /\ worker'[w].pc \in {"read", "opened"}
        /\ worker'[w].ev = worker[w].ev
        /\ worker'[w].batch = 0
    BY <2>a, <1>5, ReadingMoves
  <2>2. worker[w].ev.kind = "apply-requested" /\ worker'[w].pc = "opened" =>
            worker'[w].file \in Files
    <3>1. obj[JobOf(w)].norm \in FileOrNo
      BY <1>1 DEF StoreTypeOK, Objects
    <3>2. QED
      BY <2>a, <3>1, <1>5, ReadingMoves DEF FileOrNo
  <2>3. \A v \in Workers : Handles(v, j)' = Handles(v, j) /\ Validates(v, j)' = Validates(v, j)
    BY <2>1 DEF Handles, Validates, Busy
  <2>4. NoLateValidation(j)'
    BY <1>2, <1>3, <2>3 DEF NoLateValidation
  <2>5. WrittenSoFar(j)'
    <3>1. row'[j].status \in NotApplied => Empty(j)'
      BY <1>2, <1>3 DEF WrittenSoFar, Empty
    <3>2. ASSUME ~hist'[j].cut, NEW v \in Workers, Handles(v, j)',
                 worker'[v].ev.kind = "apply-requested"
          PROVE  IF worker'[v].pc = "opened"
                 THEN /\ worker'[v].batch <= BatchesOf[worker'[v].file]
                      /\ WrittenUpTo(j, worker[v].file, worker[v].batch)'
                 ELSE Empty(j)'
      <4>1. CASE v # w
        BY <1>2, <1>3, <2>1, <2>3, <3>2, <4>1 DEF WrittenSoFar, Empty, WrittenUpTo
      <4>2. CASE v = w
        <5>1. Empty(j)
          BY <1>2, <1>3, <2>1, <2>3, <3>2, <4>2 DEF WrittenSoFar
        <5>2. worker'[w].pc = "opened" => BatchesOf[worker'[w].file] \in 0..MaxBatches
          BY <2>1, <2>2, <3>2, <4>2, FileAssumption
        <5>3. WrittenUpTo(j, worker[w].file, worker[w].batch)'
          BY <1>2, <2>1, <5>1, FileAssumption DEF WrittenUpTo, Empty, Batch
        <5>4. QED
          BY <1>2, <2>1, <4>2, <5>1, <5>2, <5>3, FileAssumption DEF Empty
      <4>3. QED
        BY <4>1, <4>2
    <3>3. QED
      BY <3>1, <3>2 DEF WrittenSoFar
  <2>6. QED
    BY <1>3, <2>4, <2>5, StillJobFrame
<1>6. QED
  BY <1>4, <1>5

(* Result objects are put only where no deadline for them is set yet.      *)
LEMMA PuttingKeepsFirstInv ==
    ASSUME TypeOK, AttemptInv, FirstInv, NEW w \in Workers, UNCHANGED <<view, cleaner>>,
           PutNormalized(w) \/ PutReport(w)
    PROVE  FirstInv'
<1> SUFFICES ASSUME NEW j \in Jobs, hist'[j].attempt = 0
             PROVE  JobInv(j)'
  BY DEF FirstInv
<1> USE DEF TypeOK, JobInv, FirstAttempt, JobOf
<1>1. worker[w] \in Handler /\ worker[w].ev.kind = "requested" /\ JobOf(w) \in Jobs
  BY DEF PutNormalized, PutReport, At,
         WorkerTypeOK, Handler, Opening, Opened, Idle, Event
<1>2. UNCHANGED <<row, applied, hist, cleaner>>
  BY DEF PutNormalized, PutReport
<1>3. JobInv(j) /\ CleanersKeep(j)
  BY <1>2, CleanersUntouched DEF FirstInv
<1>4. /\ \A v \in Workers \ {w} : worker'[v] = worker[v]
      /\ worker[w].pc # "idle" /\ worker'[w].pc # "idle"
      /\ worker'[w].ev = worker[w].ev
  BY <1>1 DEF PutNormalized, PutReport, GoTo, WorkerTypeOK, Handler, Opening, Opened, At
<1>5. \A v \in Workers : Handles(v, j)' = Handles(v, j) /\ Validates(v, j)' = Validates(v, j)
  BY <1>4 DEF Handles, Validates, Busy
<1>6. NoLateValidation(j)'
  BY <1>2, <1>3, <1>5 DEF NoLateValidation
<1>7. WrittenSoFar(j)'
  BY <1>1, <1>2, <1>3, <1>4, <1>5 DEF WrittenSoFar, Empty, WrittenUpTo
<1>8. CASE JobOf(w) # j
  <2>1. OthersOnly(j)
    BY <1>2, <1>8 DEF PutNormalized, PutReport, OthersOnly, StoreTypeOK
  <2>2. QED
    BY <1>3, <1>6, <1>7, <2>1, StillJobFrame
<1>9. CASE JobOf(w) = j
  <2>1. Validates(w, j)
    BY <1>1, <1>4, <1>9 DEF Validates, Handles, Busy
  <2>2. row[j].res = "null" /\ row[j].status \notin {"expired", "purged"}
    BY <1>3, <2>1 DEF NoLateValidation
  <2>3. row[j].status \notin {"none", "uploading", "queued"}
    <3>1. hist[j].cut => row[j].status \in {"canceled", "expired", "purged"}
      BY <1>3 DEF CutIsFinal
    <3>2. ~hist[j].cut => row[j].status = "validating"
      BY <1>1, <2>1 DEF AttemptInv, AloneOnJob, Validates, Claimed
    <3>3. QED
      BY <3>1, <3>2
  <2>4. CutIsFinal(j)' /\ WroteItsSource(j)' /\ NoEarlyResults(j)' /\ ResultsGone(j)'
    BY <1>2, <1>3, <2>2, <2>3 DEF CutIsFinal, WroteItsSource, NoEarlyResults, ResultsGone
  <2>5. ListedIsDue(j)'
    BY <1>2, <1>3 DEF ListedIsDue, CleanersKeep
  <2>6. DeletedIsGone(j)'
    BY <1>2, <1>3, <2>2 DEF DeletedIsGone, ListedIsDue, Tracks, Listable, Retained
  <2>7. QED
    BY <1>6, <1>7, <2>4, <2>5, <2>6
<1>10. QED
  BY <1>8, <1>9

(* A batch extends what is written by one.                                 *)
LEMMA ApplyKeepsFirstInv ==
    ASSUME TypeOK, AttemptInv, FirstInv, NEW w \in Workers, UNCHANGED <<view, cleaner>>,
           ApplyBatch(w)
    PROVE  FirstInv'
<1> SUFFICES ASSUME NEW j \in Jobs, hist'[j].attempt = 0
             PROVE  JobInv(j)'
  BY DEF FirstInv
<1> USE DEF TypeOK, JobInv, FirstAttempt, JobOf
<1>1. /\ worker[w] \in Opened /\ worker[w].ev.kind = "apply-requested"
      /\ JobOf(w) \in Jobs /\ worker[w].pc = "opened"
      /\ worker[w].batch \in Nat /\ worker[w].file \in Files
  BY FileAssumption DEF ApplyBatch, At, WorkerTypeOK, Handler, Opening, Opened, Idle, Event
<1>2. UNCHANGED <<row, obj, hist, cleaner>>
  BY DEF ApplyBatch
<1>3. JobInv(j) /\ CleanersKeep(j)
  BY <1>2, CleanersUntouched DEF FirstInv
<1>4. /\ \A v \in Workers \ {w} : worker'[v] = worker[v]
      /\ worker'[w].pc = "opened" /\ worker'[w].ev = worker[w].ev
      /\ worker'[w].file = worker[w].file /\ worker'[w].batch = worker[w].batch + 1
  BY <1>1 DEF ApplyBatch, GoTo, WorkerTypeOK, Opened
<1>5. \A v \in Workers : Handles(v, j)' = Handles(v, j) /\ Validates(v, j)' = Validates(v, j)
  BY <1>1, <1>4 DEF Handles, Validates, Busy
<1>6. NoLateValidation(j)'
  BY <1>2, <1>3, <1>5 DEF NoLateValidation
<1>7. CASE JobOf(w) # j
  <2>1. OthersOnly(j)
    BY <1>1, <1>2, <1>7 DEF ApplyBatch, ProviderApply, OthersOnly, StoreTypeOK
  <2>2. WorkersKeep(j)
    BY <1>4, <1>5, <1>7 DEF WorkersKeep, Handles
  <2>3. QED
    BY <1>3, <2>1, <2>2, JobFrame
<1>8. CASE JobOf(w) = j
  <2>1. Handles(w, j)
    BY <1>1, <1>8 DEF Handles, Busy
  <2>2. row[j].status \in {"applying", "canceled", "expired", "purged"}
    <3>1. hist[j].cut => row[j].status \in {"canceled", "expired", "purged"}
      BY <1>3 DEF CutIsFinal
    <3>2. ~hist[j].cut => row[j].status = "applying"
      BY <1>1, <2>1 DEF AttemptInv, AloneOnJob, Claimed
    <3>3. QED
      BY <3>1, <3>2
  <2>3. CutIsFinal(j)' /\ WroteItsSource(j)' /\ NoEarlyResults(j)' /\ ResultsGone(j)'
    BY <1>2, <1>3, <2>2 DEF CutIsFinal, WroteItsSource, NoEarlyResults, ResultsGone
  <2>4. ListedIsDue(j)' /\ DeletedIsGone(j)'
    BY <1>2, <1>3 DEF ListedIsDue, DeletedIsGone, CleanersKeep
  <2>5. ~hist[j].cut =>
          /\ \A v \in Workers : Handles(v, j) => v = w
          /\ worker'[w].batch <= BatchesOf[worker'[w].file]
          /\ WrittenUpTo(j, worker[w].file, worker[w].batch)'
    <3> SUFFICES ASSUME ~hist[j].cut
                 PROVE  /\ \A v \in Workers : Handles(v, j) => v = w
                        /\ worker'[w].batch <= BatchesOf[worker'[w].file]
                        /\ WrittenUpTo(j, worker[w].file, worker[w].batch)'
      OBVIOUS
    <3>1. \A v \in Workers : Handles(v, j) => v = w
      BY <2>1 DEF AttemptInv, AloneOnJob
    <3>2. BatchesOf[worker[w].file] \in 0..MaxBatches /\ MaxBatches \in Nat
      BY <1>1, FileAssumption
    <3>3. worker[w].batch < BatchesOf[worker[w].file]
      BY DEF ApplyBatch, BatchLeft
    <3>4. WrittenUpTo(j, worker[w].file, worker[w].batch)
      BY <1>1, <1>3, <2>1 DEF WrittenSoFar
    <3>5. \A b \in Batch : applied'[j][b] = IF b = worker[w].batch + 1 /\ applied[j][b] = NoFile
                                            THEN worker[w].file ELSE applied[j][b]
      BY <1>8 DEF ApplyBatch, ProviderApply, StoreTypeOK
    <3>6. WrittenUpTo(j, worker[w].file, worker[w].batch)'
      BY <1>1, <1>4, <3>2, <3>4, <3>5 DEF WrittenUpTo, Batch
    <3>7. QED
      BY <1>1, <1>4, <3>1, <3>2, <3>3, <3>6
  <2>6. WrittenSoFar(j)'
    BY <1>2, <1>4, <1>5, <2>2, <2>5 DEF WrittenSoFar, NotApplied
  <2>7. QED
    BY <1>6, <2>3, <2>4, <2>6
<1>9. QED
  BY <1>7, <1>8

(* A job that waits to be applied has nothing written.                     *)
LEMMA ClaimKeepsFirstInv ==
    ASSUME TypeOK, AttemptInv, FirstInv, NEW w \in Workers, UNCHANGED <<view, cleaner>>,
           NEW e \in events, Claim(w, e) \/ SkipDelivery(w, e)
    PROVE  FirstInv'
<1> SUFFICES ASSUME NEW j \in Jobs, hist'[j].attempt = 0
             PROVE  JobInv(j)'
  BY DEF FirstInv
<1> USE DEF TypeOK, JobInv, FirstAttempt, JobOf
<1>1. e.job \in Jobs /\ e.kind \in EventKind /\ row \in [Jobs -> Row]
  BY DEF StoreTypeOK, Event
<1>2. UNCHANGED <<obj, applied, hist, cleaner>>
  BY DEF Claim, SkipDelivery
<1>3. JobInv(j) /\ CleanersKeep(j)
  BY <1>2, CleanersUntouched DEF FirstInv
<1>4. CASE SkipDelivery(w, e)
  BY <1>2, <1>3, <1>4, JobFrame
     DEF SkipDelivery, OthersOnly, WorkersKeep, Handles, Busy
<1>5. CASE Claim(w, e)
  <2>1. Columns(e.job, Claimed(e.kind), row[e.job].sum, row[e.job].bad,
                row[e.job].up, row[e.job].res)
    BY <1>1, <1>5, WorkerColumns DEF Claim
  <2>2. /\ worker'[w].pc = "claimed" /\ worker'[w].ev = e
        /\ \A v \in Workers \ {w} : worker'[v] = worker[v]
    BY <1>5, WorkerBecomes DEF Claim, Becomes
  <2>3. CASE e.job # j
    <3>1. OthersOnly(j) /\ WorkersKeep(j)
      BY <1>2, <2>1, <2>2, <2>3 DEF OthersOnly, WorkersKeep, Columns, Handles, Busy
    <3>2. QED
      BY <1>3, <3>1, JobFrame
  <2>4. CASE e.job = j
    <3>1. row[j].status = Waiting(e.kind) /\ row[j].status \in {"queued", "apply_queued"}
      BY <1>1, <1>5, <2>4 DEF Claim, SqlClaim, Waiting, EventKind
    <3>2. ~hist[j].cut
      BY <1>3, <3>1 DEF CutIsFinal, StoreTypeOK, History
    <3>3. \A v \in Workers : ~Handles(v, j)
      BY <3>1, <3>2 DEF AttemptInv, AloneOnJob, Claimed
    <3>4. \A v \in Workers : Handles(v, j)' => v = w
      BY <2>2, <3>3 DEF Handles, Busy
    <3>5. Empty(j)
      BY <1>3, <3>1 DEF WrittenSoFar, NotApplied
    <3>6. row'[j].status = Claimed(e.kind) /\ row'[j].up = row[j].up /\ row'[j].res = row[j].res
      BY <2>1, <2>4 DEF Columns
    <3>7. row'[j].status \in {"validating", "applying"}
      BY <1>1, <3>6 DEF Claimed, EventKind
    <3>8. CutIsFinal(j)' /\ WroteItsSource(j)' /\ NoEarlyResults(j)' /\ ResultsGone(j)'
      BY <1>2, <3>2, <3>7 DEF CutIsFinal, WroteItsSource, NoEarlyResults, ResultsGone
    <3>9. WrittenSoFar(j)'
      BY <1>2, <2>2, <3>4, <3>5 DEF WrittenSoFar, Empty
    <3>10. NoLateValidation(j)'
      BY <1>1, <1>3, <2>2, <3>1, <3>4, <3>6, <3>7
         DEF NoLateValidation, NotValidated, Validates, Waiting, Claimed, EventKind
    <3>11. ListedIsDue(j)' /\ DeletedIsGone(j)'
      BY <1>2, <1>3, <3>1, <3>6, <3>7
         DEF ListedIsDue, DeletedIsGone, CleanersKeep, Listable, Retained
    <3>12. QED
      BY <3>8, <3>9, <3>10, <3>11
  <2>5. QED
    BY <2>3, <2>4
<1>6. QED
  BY <1>4, <1>5

(* A success is stored when the last batch is written.                     *)
LEMMA ReturnKeepsFirstInv ==
    ASSUME TypeOK, AttemptInv, FirstInv, NEW w \in Workers, UNCHANGED <<view, cleaner>>,
           FinishValidation(w) \/ FinishApply(w) \/ Fail(w)
    PROVE  FirstInv'
<1> SUFFICES ASSUME NEW j \in Jobs, hist'[j].attempt = 0
             PROVE  JobInv(j)'
  BY DEF FirstInv
<1> USE DEF TypeOK, JobInv, FirstAttempt, JobOf
<1>1. worker[w].pc # "idle"
  BY DEF FinishValidation, FinishApply, Fail, Validated, At
<1>2. PICK i \in Jobs : JobOf(w) = i /\ Handles(w, i)
  BY <1>1, BusyType DEF Handles, Busy
<1>3. Becomes(w, Idle) /\ UNCHANGED <<obj, applied, hist, cleaner>>
  BY WorkerBecomes DEF FinishValidation, FinishApply, Fail
<1>4. row \in [Jobs -> Row] /\ worker[w].ev.kind \in EventKind
  BY <1>1, BusyType DEF StoreTypeOK, Busy
<1>5. JobInv(j) /\ CleanersKeep(j) /\ WorkersKeep(j)
  BY <1>3, CleanersUntouched, WorkersKeepOthers DEF FirstInv
<1>6. CASE row'[j] = row[j]
  BY <1>3, <1>5, <1>6, JobFrame DEF OthersOnly
<1>7. ASSUME i = j,
             row[j].status \in {"validating", "applying"},
             row'[j].status \in {"validation_failed", "ready", "succeeded", "failed"},
             row[j].status = "applying" => row'[j].status \in {"succeeded", "failed"},
             row'[j].up = row[j].up,
             row'[j].status = "succeeded" =>
                 FinishApply(w) /\ row[j].status = "applying" /\ row'[j].sum = row[j].sum
      PROVE  JobInv(j)'
  <2>1. ~hist[j].cut
    BY <1>5, <1>7 DEF CutIsFinal, StoreTypeOK, History
  <2>2. \A v \in Workers : ~Handles(v, j)'
    BY <1>2, <1>3, <1>7, <2>1 DEF AttemptInv, AloneOnJob, Handles, Becomes, Busy, Idle
  <2>3. CutIsFinal(j)' /\ NoEarlyResults(j)' /\ ResultsGone(j)'
    BY <1>3, <1>7, <2>1 DEF CutIsFinal, NoEarlyResults, ResultsGone
  <2>4. row'[j].status \in NotApplied => Empty(j)'
    BY <1>3, <1>5, <1>7 DEF WrittenSoFar, NotApplied, Empty
  <2>5. WrittenSoFar(j)' /\ NoLateValidation(j)'
    BY <1>7, <2>2, <2>4 DEF WrittenSoFar, NoLateValidation, Validates, NotValidated
  <2>6. WroteItsSource(j)'
    <3> SUFFICES ASSUME row'[j].status = "succeeded"
                 PROVE  \A b \in Batch : applied[j][b] = IF b <= BatchesOf[row[j].sum]
                                                         THEN row[j].sum ELSE NoFile
      BY <1>3, <1>7 DEF WroteItsSource
    <3>1. At(w, "apply-requested", "opened") /\ worker[w].batch = BatchesOf[worker[w].file]
      BY <1>7 DEF FinishApply, AllApplied
    <3>2. worker[w].file = row[j].sum
      BY <1>2, <1>7, <2>1, <3>1 DEF AttemptInv, WorkerHasSource
    <3>3. WrittenUpTo(j, worker[w].file, worker[w].batch)
      BY <1>2, <1>5, <1>7, <2>1, <3>1 DEF WrittenSoFar, At
    <3>4. QED
      BY <3>1, <3>2, <3>3 DEF WrittenUpTo
  <2>7. ListedIsDue(j)' /\ DeletedIsGone(j)'
    BY <1>3, <1>5, <1>7 DEF ListedIsDue, DeletedIsGone, CleanersKeep, Listable, Retained
  <2>8. QED
    BY <2>3, <2>5, <2>6, <2>7
<1>8. CASE FinishValidation(w) /\ SqlFinishValidation(i, HasInvalidRows(w))
  <2>1. Columns(i, IF HasInvalidRows(w) THEN "validation_failed" ELSE "ready", row[i].sum,
                HasInvalidRows(w), row[i].up, "future")
    BY <1>4, <1>8, WorkerColumns
  <2>2. row[i].status = "validating"
    BY <1>8 DEF SqlFinishValidation
  <2>3. QED
    BY <1>6, <1>7, <2>1, <2>2 DEF Columns
<1>9. CASE FinishApply(w) /\ SqlFinishApply(i)
  <2>1. Columns(i, "succeeded", row[i].sum, row[i].bad, row[i].up, "future")
    BY <1>4, <1>9, WorkerColumns
  <2>2. row[i].status = "applying"
    BY <1>9 DEF SqlFinishApply
  <2>3. QED
    BY <1>6, <1>7, <1>9, <2>1, <2>2 DEF Columns
<1>10. CASE Fail(w) /\ SqlFail(i, worker[w].ev.kind)
  <2>1. Columns(i, "failed", row[i].sum, row[i].bad, row[i].up, "future")
    BY <1>4, <1>10, WorkerColumns
  <2>2. row[i].status \in {"validating", "applying"}
    BY <1>4, <1>10 DEF SqlFail, Claimed, EventKind
  <2>3. QED
    BY <1>6, <1>7, <2>1, <2>2 DEF Columns
<1>11. QED
  BY <1>2, <1>6, <1>8, <1>9, <1>10 DEF FinishValidation, FinishApply, Fail

(* A cleaner that takes up a job listed it when it was due, which it still *)
(* is; no worker makes result objects of it any more.                      *)
LEMMA CleanerKeepsFirstInv ==
    ASSUME TypeOK, AttemptInv, FirstInv, NEW k \in Cleaners, CleanerStep(k),
           UNCHANGED <<view, worker>>
    PROVE  FirstInv'
<1> SUFFICES ASSUME NEW j \in Jobs, hist'[j].attempt = 0
             PROVE  JobInv(j)'
  BY DEF FirstInv
<1> USE DEF TypeOK, JobInv, FirstAttempt
<1>a. cleaner \in [Cleaners -> {Resting} \cup Picking \cup Sweeping]
  BY DEF CleanerTypeOK
<1>w. WorkersKeep(j)
  BY DEF WorkersKeep, Handles, Busy, JobOf
<1>f. \A w \in Workers : Handles(w, j)' = Handles(w, j) /\ Validates(w, j)' = Validates(w, j)
  BY DEF Handles, Busy, JobOf, Validates
<1>1. CASE List(k)
  <2>1. UNCHANGED <<row, obj, applied, hist>>
    BY <1>1 DEF List, storeVars
  <2>2. JobInv(j)
    BY <2>1 DEF FirstInv
  <2>3. PICK S \in SUBSET ListExpired :
            cleaner' = [cleaner EXCEPT ![k] =
                            [pc |-> "pick", todo |-> {<<i, row[i].status>> : i \in S}]]
    BY <1>1 DEF List, CleanerTo
  <2>4. /\ cleaner'[k].pc = "pick" /\ cleaner'[k].todo = {<<i, row[i].status>> : i \in S}
        /\ \A m \in Cleaners \ {k} : cleaner'[m] = cleaner[m]
    BY <1>a, <2>3
  <2>5. ListedIsDue(j)'
    <3> SUFFICES ASSUME NEW m \in Cleaners, NEW s \in Listable, Tracks(m, j, s)'
                 PROVE  IF s = "uploading"
                        THEN row[j].status # "none" /\ row[j].up = "past"
                        ELSE row[j].status \in Retained \cup {"expired", "purged"}
                               /\ row[j].res = "past"
      BY <2>1 DEF ListedIsDue
    <3>1. CASE m # k
      BY <2>2, <2>4, <3>1 DEF ListedIsDue, Tracks
    <3>2. CASE m = k
      <4>1. j \in ListExpired /\ s = row[j].status
        BY <2>4, <3>2 DEF Tracks
      <4>2. QED
        BY <4>1 DEF ListExpired, Retained
    <3>3. QED
      BY <3>1, <3>2
  <2>6. DeletedIsGone(j)'
    BY <2>1, <2>2, <2>4 DEF DeletedIsGone
  <2>7. CutIsFinal(j)' /\ WroteItsSource(j)' /\ NoEarlyResults(j)' /\ ResultsGone(j)'
    BY <2>1, <2>2 DEF CutIsFinal, WroteItsSource, NoEarlyResults, ResultsGone
  <2>8. WrittenSoFar(j)' /\ NoLateValidation(j)'
    BY <1>f, <2>1, <2>2 DEF WrittenSoFar, NoLateValidation, Empty, WrittenUpTo
  <2>9. QED
    BY <2>5, <2>6, <2>7, <2>8
<1>2. ASSUME NEW p \in cleaner[k].todo, DeleteSource(k, p), cleaner[k].pc = "pick"
      PROVE  JobInv(j)'
  <2>1. p \in Jobs \X Listable
    BY <1>a, <1>2 DEF Resting, Picking, Sweeping, Listing
  <2>2. /\ OthersOnly(j)
        /\ hist'[j].attempt = hist[j].attempt
    BY <1>2, <2>1 DEF DeleteSource, StoreTypeOK, Objects, History, OthersOnly
  <2>3. /\ cleaner'[k].pc = "norm" /\ cleaner'[k].todo = cleaner[k].todo \ {p}
        /\ cleaner'[k].job = p[1] /\ cleaner'[k].seen = p[2]
        /\ \A m \in Cleaners \ {k} : cleaner'[m] = cleaner[m]
    BY <1>a, <1>2 DEF DeleteSource, CleanerTo
  <2>4. CleanersKeep(j)
    <3>1. \A s \in Listable : Tracks(k, j, s)' => Tracks(k, j, s)
      BY <1>2, <2>1, <2>3 DEF Tracks
    <3>2. QED
      BY <2>3, <3>1 DEF CleanersKeep, Tracks
  <2>5. QED
    BY <1>w, <2>2, <2>4, JobFrame DEF FirstInv
<1>3. CASE DeleteNormalized(k) \/ DeleteReport(k)
  <2>1. cleaner[k] \in Sweeping
    BY <1>a, <1>3 DEF DeleteNormalized, DeleteReport, Resting, Picking, Sweeping
  <2>2. UNCHANGED <<row, applied, hist>>
    BY <1>3 DEF DeleteNormalized, DeleteReport
  <2>3. JobInv(j)
    BY <2>2 DEF FirstInv
  <2>4. /\ \A m \in Cleaners \ {k} : cleaner'[m] = cleaner[m]
        /\ cleaner'[k].job = cleaner[k].job /\ cleaner'[k].seen = cleaner[k].seen
        /\ cleaner'[k].todo = cleaner[k].todo
        /\ \/ cleaner[k].pc = "norm" /\ cleaner'[k].pc = "rep"
           \/ cleaner[k].pc = "rep" /\ cleaner'[k].pc = "expire"
    BY <1>a, <1>3, <2>1 DEF DeleteNormalized, DeleteReport, CleanerTo, Sweeping
  <2>5. /\ obj'[j].norm = obj[j].norm \/ obj'[j].norm = NoFile
        /\ obj'[j].rep = obj[j].rep \/ obj'[j].rep = NoFile
        /\ cleaner[k].job = j /\ cleaner[k].pc = "norm" => obj'[j].norm = NoFile
        /\ cleaner[k].job = j /\ cleaner[k].pc = "rep" => obj'[j].rep = NoFile
    BY <1>3, <2>1 DEF DeleteNormalized, DeleteReport, StoreTypeOK, Objects, Sweeping
  <2>6. ListedIsDue(j)'
    <3>1. \A m \in Cleaners, s \in Listable : Tracks(m, j, s)' => Tracks(m, j, s)
      BY <2>4 DEF Tracks
    <3>2. QED
      BY <2>2, <2>3, <3>1 DEF ListedIsDue
  <2>7. DeletedIsGone(j)'
    BY <2>3, <2>4, <2>5 DEF DeletedIsGone
  <2>8. CutIsFinal(j)' /\ WroteItsSource(j)' /\ NoEarlyResults(j)' /\ ResultsGone(j)'
    BY <2>2, <2>3, <2>5 DEF CutIsFinal, WroteItsSource, NoEarlyResults, ResultsGone
  <2>9. WrittenSoFar(j)' /\ NoLateValidation(j)'
    BY <1>f, <2>2, <2>3 DEF WrittenSoFar, NoLateValidation, Empty, WrittenUpTo
  <2>10. QED
    BY <2>6, <2>7, <2>8, <2>9
<1>4. CASE Expire(k)
  <2>1. cleaner[k] \in Sweeping
    BY <1>a, <1>4 DEF Expire, Resting, Picking, Sweeping
  <2>2. UNCHANGED <<obj, applied, hist>>
    BY <1>4 DEF Expire
  <2>3. JobInv(j)
    BY <2>2 DEF FirstInv
  <2>4. /\ \A m \in Cleaners \ {k} : cleaner'[m] = cleaner[m]
        /\ \/ cleaner'[k].pc = "rest"
           \/ cleaner'[k].pc = "pick" /\ cleaner'[k].todo = cleaner[k].todo
    BY <1>a, <1>4 DEF Expire, CleanerTo, Resting
  <2>5. CleanersKeep(j)
    BY <1>4, <2>4 DEF CleanersKeep, Tracks, Expire
  <2>6. CASE row'[j] = row[j]
    BY <1>w, <2>2, <2>3, <2>5, <2>6, JobFrame DEF OthersOnly
  <2>7. CASE SqlExpire(cleaner[k].job, cleaner[k].seen) /\ cleaner[k].job = j
    <3>1. Columns(j, "expired", row[j].sum, row[j].bad, row[j].up, row[j].res)
      BY <2>7, CleanerColumns DEF StoreTypeOK
    <3>2. cleaner[k].pc = "expire" /\ row[j].status = cleaner[k].seen /\ cleaner[k].seen \in Listable
      BY <1>4, <2>1, <2>7 DEF Expire, SqlExpire, Sweeping
    <3>3. obj[j].norm = NoFile /\ obj[j].rep = NoFile
      BY <2>3, <2>7, <3>2 DEF DeletedIsGone, NoEarlyResults, Listable
    <3>4. \A w \in Workers : ~Validates(w, j)
      <4>1. CASE cleaner[k].seen = "uploading"
        BY <2>3, <3>2, <4>1 DEF AttemptInv, AloneOnJob, CutIsFinal, Validates, Claimed,
                                StoreTypeOK, History
      <4>2. CASE cleaner[k].seen # "uploading"
        <5>1. row[j].res = "past"
          BY <2>3, <2>7, <3>2, <4>2 DEF ListedIsDue, Tracks
        <5>2. QED
          BY <2>3, <5>1 DEF NoLateValidation
      <4>3. QED
        BY <4>1, <4>2
    <3>5. CutIsFinal(j)' /\ WroteItsSource(j)' /\ NoEarlyResults(j)' /\ ResultsGone(j)'
      BY <2>2, <3>1, <3>3 DEF CutIsFinal, WroteItsSource, NoEarlyResults, ResultsGone, Columns
    <3>6. NoLateValidation(j)'
      BY <1>f, <3>1, <3>4 DEF NoLateValidation, NotValidated, Columns
    <3>7. WrittenSoFar(j)'
      BY <1>f, <2>2, <2>3, <3>1 DEF WrittenSoFar, Empty, WrittenUpTo, NotApplied, Columns
    <3>8. ListedIsDue(j)' /\ DeletedIsGone(j)'
      BY <2>2, <2>3, <2>5, <3>1 DEF ListedIsDue, DeletedIsGone, CleanersKeep, Columns
    <3>9. QED
      BY <3>5, <3>6, <3>7, <3>8
  <2>8. SqlExpire(cleaner[k].job, cleaner[k].seen) /\ cleaner[k].job # j => row'[j] = row[j]
    BY <2>1, CleanerColumns DEF StoreTypeOK, Columns, Sweeping
  <2>9. QED
    BY <1>4, <2>6, <2>7, <2>8 DEF Expire
<1>5. QED
  BY <1>1, <1>2, <1>3, <1>4 DEF CleanerStep

(* Time, the deletion of rows and the loss of a worker or a cleaner.       *)
LEMMA RestKeepsFirstInv ==
    ASSUME TypeOK, AttemptInv, FirstInv,
           (\E j \in Jobs : Time(j) \/ Purging(j)) \/ Faults
    PROVE  FirstInv'
<1> SUFFICES ASSUME NEW j \in Jobs, hist'[j].attempt = 0
             PROVE  JobInv(j)'
  BY DEF FirstInv
<1> USE DEF TypeOK, JobInv, FirstAttempt
<1>r. row \in [Jobs -> Row]
  BY DEF StoreTypeOK
<1>1. ASSUME NEW i \in Jobs, Time(i) \/ Purging(i)
      PROVE  JobInv(j)'
  <2>1. UNCHANGED <<obj, applied, hist, worker, cleaner>>
    BY <1>1 DEF Time, Purging, DeadlinePasses, Purge
  <2>2. JobInv(j) /\ CleanersKeep(j) /\ WorkersKeep(j)
    BY <2>1, CleanersUntouched DEF FirstInv, WorkersKeep, Handles, Busy, JobOf
  <2>3. CASE row'[j] = row[j]
    BY <2>1, <2>2, <2>3, JobFrame DEF OthersOnly
  <2>4. /\ i # j => row'[j] = row[j]
        /\ i = j => /\ row'[j].sum = row[j].sum
                    /\ \/ row'[j].status = row[j].status
                       \/ row[j].status = "expired" /\ row'[j].status = "purged"
                    /\ row'[j].up = row[j].up \/ (row[j].up = "future" /\ row'[j].up = "past")
                    /\ row'[j].res = row[j].res \/ (row[j].res = "future" /\ row'[j].res = "past")
    BY <1>r, <1>1, CleanerColumns DEF Time, Purging, Purge, SqlDeleteExpired, Columns
  <2>5. CASE i = j
    <3>1. \A w \in Workers : Handles(w, j)' = Handles(w, j) /\ Validates(w, j)' = Validates(w, j)
      BY <2>1 DEF Handles, Busy, JobOf, Validates
    <3>2. CutIsFinal(j)' /\ WroteItsSource(j)' /\ NoEarlyResults(j)' /\ ResultsGone(j)'
      BY <2>1, <2>2, <2>4, <2>5 DEF CutIsFinal, WroteItsSource, NoEarlyResults, ResultsGone
    <3>3. NoLateValidation(j)'
      BY <2>2, <2>4, <2>5, <3>1 DEF NoLateValidation, NotValidated
    <3>4. WrittenSoFar(j)'
      BY <2>1, <2>2, <2>4, <2>5, <3>1 DEF WrittenSoFar, NotApplied, Empty, WrittenUpTo
    <3>5. ListedIsDue(j)' /\ DeletedIsGone(j)'
      BY <2>1, <2>2, <2>4, <2>5 DEF ListedIsDue, DeletedIsGone, CleanersKeep, Retained
    <3>6. QED
      BY <3>2, <3>3, <3>4, <3>5
  <2>6. QED
    BY <2>3, <2>4, <2>5
<1>2. ASSUME NEW w \in Workers, Lose(w), UNCHANGED <<view, cleaner>>
      PROVE  JobInv(j)'
  <2>1. OthersOnly(j) /\ hist'[j].attempt = hist[j].attempt
    BY <1>2 DEF Lose, StoreTypeOK, History, OthersOnly
  <2>2. WorkersKeep(j)
    BY <1>2, WorkerBecomes, WorkersKeepOthers DEF Lose
  <2>3. QED
    BY <1>2, <2>1, <2>2, CleanersUntouched, JobFrame DEF FirstInv
<1>3. ASSUME NEW k \in Cleaners, Abort(k), UNCHANGED <<view, worker>>
      PROVE  JobInv(j)'
  <2>1. OthersOnly(j) /\ hist'[j].attempt = hist[j].attempt
    BY <1>3 DEF Abort, OthersOnly
  <2>2. /\ cleaner'[k].pc = "rest"
        /\ \A m \in Cleaners \ {k} : cleaner'[m] = cleaner[m]
    BY <1>3 DEF Abort, CleanerTo, CleanerTypeOK, Resting
  <2>3. CleanersKeep(j)
    BY <2>2 DEF CleanersKeep, Tracks
  <2>4. WorkersKeep(j)
    BY <1>3 DEF WorkersKeep, Handles, Busy, JobOf
  <2>5. QED
    BY <2>1, <2>3, <2>4, JobFrame DEF FirstInv
<1>4. QED
  BY <1>1, <1>2, <1>3 DEF Faults

(* The invariant of first attempts is inductive.                           *)
LEMMA NextKeepsFirstInv ==
    ASSUME TypeOK, AttemptInv, FirstInv, [Next]_vars
    PROVE  FirstInv'
<1>1. CASE UNCHANGED vars
  <2> SUFFICES ASSUME NEW j \in Jobs, hist'[j].attempt = 0
               PROVE  JobInv(j)'
    BY DEF FirstInv
  <2>1. OthersOnly(j) /\ WorkersKeep(j) /\ CleanersKeep(j) /\ JobInv(j)
    BY <1>1, CleanersUntouched DEF vars, OthersOnly, WorkersKeep, Handles, Busy, JobOf, FirstInv
  <2>2. QED
    BY <2>1, JobFrame
<1>2. CASE Requests
  BY <1>2, ServiceKeepsFirstInv DEF Requests
<1>3. ASSUME NEW w \in Workers, Work(w)
      PROVE  FirstInv'
  BY <1>3, ReadingKeepsFirstInv, PuttingKeepsFirstInv, ApplyKeepsFirstInv,
     ClaimKeepsFirstInv, ReturnKeepsFirstInv DEF Work, WorkerStep
<1>4. ASSUME NEW k \in Cleaners, Sweep(k)
      PROVE  FirstInv'
  BY <1>4, CleanerKeepsFirstInv DEF Sweep
<1>5. CASE (\E j \in Jobs : Time(j) \/ Purging(j)) \/ Faults
  BY <1>5, RestKeepsFirstInv
<1>6. QED
  BY <1>1, <1>2, <1>3, <1>4, <1>5 DEF Next

(* It holds at the start.                                                  *)
LEMMA InitFirstInv == Init => FirstInv
<1> SUFFICES ASSUME Init, NEW j \in Jobs
             PROVE  JobInv(j)
  BY DEF FirstInv
<1> USE DEF Init, StoreInit, WorkerInit, CleanerInit
<1>1. \A w \in Workers : ~Handles(w, j)
  BY DEF Handles, Busy, Idle
<1>2. \A k \in Cleaners : cleaner[k].pc = "rest"
  BY DEF Resting
<1>3. CutIsFinal(j) /\ WroteItsSource(j) /\ NoEarlyResults(j) /\ ResultsGone(j)
  BY DEF CutIsFinal, WroteItsSource, NoEarlyResults, ResultsGone
<1>4. WrittenSoFar(j) /\ NoLateValidation(j)
  BY <1>1 DEF WrittenSoFar, NoLateValidation, Validates, Empty
<1>5. ListedIsDue(j) /\ DeletedIsGone(j)
  BY <1>2 DEF ListedIsDue, DeletedIsGone, Tracks
<1>6. QED
  BY <1>3, <1>4, <1>5 DEF JobInv, FirstAttempt

(* The invariant of a job that was never retried.                          *)
THEOREM FirstAttemptsAreClean == Spec => []FirstInv
<1>1. TypeOK /\ AttemptInv /\ FirstInv /\ [Next]_vars => FirstInv'
  BY NextKeepsFirstInv
<1>2. QED
  BY <1>1, InitFirstInv, AttemptsAreConsistent, TypeCorrect, PTL DEF Spec

(* A first attempt that succeeded has written every batch of its source    *)
(* and nothing else: no second worker applies, no batch is skipped, none   *)
(* is taken from another object.                                           *)
THEOREM SuccessIsComplete == Spec => []SucceededAppliedSource
<1>1. FirstInv => SucceededAppliedSource
  BY DEF FirstInv, JobInv, FirstAttempt, SucceededAppliedSource
<1>2. QED
  BY <1>1, FirstAttemptsAreClean, PTL

(* The result objects of an expired first attempt are gone for good: no    *)
(* worker that was cut off writes them again after the cleaner was there.  *)
THEOREM ResultsDoNotOutlive == Spec => []ExpiredResultsGone
<1>1. FirstInv => ExpiredResultsGone
  BY DEF FirstInv, JobInv, FirstAttempt, ExpiredResultsGone
<1>2. QED
  BY <1>1, FirstAttemptsAreClean, PTL

(* No job expires in a step that sets the columns of one to another status.*)
NoneExpires == \A i \in Jobs : row'[i].status = "expired" => row[i].status = "expired"

(* Such a step expires nothing.                                            *)
LEMMA OtherStatusSet ==
    ASSUME NEW i \in Jobs, NEW s, NEW f, NEW b, NEW u, NEW r, Columns(i, s, f, b, u, r),
           s # "expired"
    PROVE  NoneExpires
  BY DEF Columns, NoneExpires

(* No request expires a job.                                               *)
LEMMA ServiceExpiresNone ==
    ASSUME TypeOK, ServiceStep
    PROVE  NoneExpires
<1>r. row \in [Jobs -> Row]
  BY DEF TypeOK, StoreTypeOK
<1>u. ASSUME UNCHANGED row PROVE NoneExpires
  BY <1>u DEF NoneExpires
<1>1. ASSUME NEW j \in Jobs, Create(j) PROVE NoneExpires
  BY <1>r, <1>1, ServiceColumns, OtherStatusSet DEF Create
<1>2. ASSUME NEW j \in Jobs, NEW c \in Clients, CompleteUpload(c, j) PROVE NoneExpires
  <2>1. CASE SqlCompleteUpload(j, view[c][j].version, view[c][j].claim)
    BY <1>r, <2>1, ServiceColumns, OtherStatusSet
  <2>2. QED
    BY <1>u, <1>2, <2>1 DEF CompleteUpload
<1>3. ASSUME NEW j \in Jobs, NEW c \in Clients, Cancel(c, j) PROVE NoneExpires
  BY <1>r, <1>3, ServiceColumns, OtherStatusSet DEF Cancel
<1>4. ASSUME NEW j \in Jobs, NEW c \in Clients, Retry(c, j) PROVE NoneExpires
  BY <1>r, <1>4, ServiceColumns, OtherStatusSet DEF Retry
<1>5. ASSUME NEW j \in Jobs, NEW c \in Clients, NEW key \in ConfirmKeys, Confirm(c, j, key)
      PROVE  NoneExpires
  BY <1>r, <1>5, ServiceColumns, OtherStatusSet DEF Confirm
<1>6. QED
  BY <1>u, <1>1, <1>2, <1>3, <1>4, <1>5
     DEF ServiceStep, Upload, Get, CompleteUploadStat, storeVars

(* No worker expires a job.                                                *)
LEMMA WorkerExpiresNone ==
    ASSUME TypeOK, NEW w \in Workers, WorkerStep(w)
    PROVE  NoneExpires
<1>r. row \in [Jobs -> Row]
  BY DEF TypeOK, StoreTypeOK
<1>u. ASSUME UNCHANGED row PROVE NoneExpires
  BY <1>u DEF NoneExpires
<1>1. ASSUME NEW e \in events, Claim(w, e) PROVE NoneExpires
  <2>1. e.job \in Jobs /\ Claimed(e.kind) # "expired"
    BY DEF TypeOK, StoreTypeOK, Event, Claimed
  <2>2. QED
    BY <1>r, <1>1, <2>1, WorkerColumns, OtherStatusSet DEF Claim
<1>2. ASSUME FinishValidation(w) \/ FinishApply(w) \/ Fail(w)
      PROVE  NoneExpires
  <2>1. JobOf(w) \in Jobs
    BY <1>2, BusyType DEF TypeOK, Busy, FinishValidation, FinishApply, Fail, Validated, At
  <2>2. CASE SqlFinishValidation(JobOf(w), HasInvalidRows(w))
    BY <1>r, <2>1, <2>2, WorkerColumns, OtherStatusSet
  <2>3. CASE SqlFinishApply(JobOf(w)) \/ SqlFail(JobOf(w), worker[w].ev.kind)
    BY <1>r, <2>1, <2>3, WorkerColumns, OtherStatusSet
  <2>4. QED
    BY <1>u, <1>2, <2>2, <2>3 DEF FinishValidation, FinishApply, Fail
<1>3. QED
  BY <1>u, <1>1, <1>2
     DEF WorkerStep, SkipDelivery, ReadClaimed, ReadNothing, OpenSource, PutNormalized, PutReport,
         OpenNormalized, ApplyBatch, storeVars

(* Only the statement of a cleaner that is through with its deletions      *)
(* expires a job.                                                          *)
LEMMA OnlyCleanersExpire ==
    ASSUME TypeOK, [Next]_vars, NEW j \in Jobs,
           row'[j].status = "expired", row[j].status # "expired"
    PROVE  \E k \in Cleaners : /\ cleaner[k] \in Sweeping
                               /\ cleaner[k].pc = "expire"
                               /\ cleaner[k].job = j
                               /\ cleaner[k].seen = row[j].status
<1>r. row \in [Jobs -> Row]
  BY DEF TypeOK, StoreTypeOK
<1>1. ~NoneExpires
  BY DEF NoneExpires
<1>2. ~UNCHANGED row
  OBVIOUS
<1>3. ASSUME NEW i \in Jobs, Time(i) \/ Purging(i) PROVE FALSE
  <2>1. \/ row'[i].status = row[i].status \/ row'[i].status = "purged"
    BY <1>r, <1>3, CleanerColumns DEF Time, Purging, Purge, Columns
  <2>2. \A m \in Jobs \ {i} : row'[m] = row[m]
    BY <1>r, <1>3, CleanerColumns DEF Time, Purging, Purge, Columns
  <2>3. QED
    BY <2>1, <2>2
<1>4. PICK k \in Cleaners : Expire(k)
  BY <1>1, <1>2, <1>3, ServiceExpiresNone, WorkerExpiresNone
     DEF Next, vars, Requests, Work, Sweep, Faults, Lose, Abort, CleanerStep, List,
         DeleteSource, DeleteNormalized, DeleteReport, storeVars
<1>5. cleaner[k] \in Sweeping
  BY <1>4 DEF TypeOK, CleanerTypeOK, Expire, Resting, Picking, Sweeping
<1>6. SqlExpire(cleaner[k].job, cleaner[k].seen)
  BY <1>2, <1>4 DEF Expire
<1>7. cleaner[k].job = j
  BY <1>r, <1>5, <1>6, CleanerColumns DEF Columns, Sweeping
<1>8. QED
  BY <1>4, <1>5, <1>6, <1>7 DEF Expire, SqlExpire

(* A first attempt expires only after its deadline, however old the        *)
(* listing is that its cleaner works through: a deadline that was listed   *)
(* as passed is passed until the job is retried, and the statement         *)
(* compares the status.                                                    *)
THEOREM ExpiryIsDue == Spec => ExpiresAfterDeadline
<1> DEFINE InTime ==
      \A j \in Jobs : (/\ row'[j].status = "expired"
                       /\ row[j].status # "expired"
                       /\ hist[j].attempt = 0) => j \in ListExpired
<1>1. TypeOK /\ FirstInv /\ [Next]_vars => [InTime]_vars
  <2> SUFFICES ASSUME TypeOK, FirstInv, [Next]_vars, NEW j \in Jobs,
                      row'[j].status = "expired", row[j].status # "expired",
                      hist[j].attempt = 0
               PROVE  j \in ListExpired
    OBVIOUS
  <2>1. PICK k \in Cleaners : /\ cleaner[k] \in Sweeping
                              /\ cleaner[k].pc = "expire"
                              /\ cleaner[k].job = j
                              /\ cleaner[k].seen = row[j].status
    BY OnlyCleanersExpire
  <2>2. row[j].status \in Listable /\ Tracks(k, j, row[j].status)
    BY <2>1 DEF Sweeping, Tracks
  <2>3. IF row[j].status = "uploading" THEN row[j].up = "past" ELSE row[j].res = "past"
    BY <2>2 DEF FirstInv, JobInv, ListedIsDue
  <2>4. QED
    BY <2>2, <2>3 DEF ListExpired, Listable
<1>2. QED
  BY <1>1, FirstAttemptsAreClean, TypeCorrect, PTL DEF Spec, ExpiresAfterDeadline
=============================================================================
