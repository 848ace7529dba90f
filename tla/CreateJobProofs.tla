-------------------------- MODULE CreateJobProofs --------------------------
(***************************************************************************)
(* Proofs about the idempotency keys of import_jobs, for every set of      *)
(* requests, scopes, keys and imports and every number of faults.          *)
(***************************************************************************)
EXTENDS CreateJob, TLAPS

CallRecord ==
    [op: {"create", "retry"}, scope: Scopes, key: Keys, import: Imports \cup {NoImport},
     target: Requests \cup {NoJob}, expected: Nat, stage: Stages,
     job: Requests \cup {NoJob}, copy: Copy \cup {NoCopy}, created: BOOLEAN,
     reply: Replies]

(* Job j was found under the scope of request r, and under its key.  Since *)
(* then a retry may have replaced the key, or the row may be purged.       *)
InScope(r, j) ==
    /\ j \in Requests /\ table[j] # NoRow
    /\ Exists(j) => table[j].scope = call[r].scope
Found(r, j) == InScope(r, j) /\ (Freed(j) \/ table[j].key = call[r].key)

(* What request r keeps of job j is of its scope and agrees with the row.  *)
Copied(r, j) ==
    /\ call[r].copy \in Copy /\ call[r].copy.scope = call[r].scope
    /\ Exists(j) => table[j].import = call[r].copy.import

(* Where a request is tells what it has found, or inserted.                *)
CallInv(r) ==
    /\ call[r].op = "create" => call[r].import \in Imports
    /\ call[r].stage \in {"get", "update"} => call[r].op = "retry" /\ InScope(r, call[r].target)
    /\ call[r].stage \in {"describe", "read", "insert", "reread", "commit"} => call[r].op = "create"
    /\ call[r].stage \in {"idle", "describe", "read", "insert", "reread"} => ~call[r].created
    /\ call[r].created => call[r].op = "create"
    /\ ~call[r].created \/ call[r].stage = "commit" => table[r] = NoRow
    /\ call[r].stage = "reread" => \E j \in Requests : Found(r, j)
    /\ call[r].stage = "commit" /\ call[r].created =>
           call[r].job = r /\ call[r].copy = CopyOf(NewRow(r))
    /\ call[r].stage = "commit" /\ ~call[r].created =>
           Found(r, call[r].job) /\ Copied(r, call[r].job)
    /\ call[r].stage = "presign" \/ Answered(r) =>
           /\ InScope(r, call[r].job) /\ Copied(r, call[r].job)
           /\ call[r].op = "create" => /\ call[r].copy.import = call[r].import
                                       /\ Found(r, call[r].job)

(* UNIQUE, and the locks of the INSERTs that are not committed yet.        *)
KeysAreUnique ==
    /\ \A j, k \in Requests :
        /\ Exists(j) /\ Exists(k)
        /\ table[j].scope = table[k].scope /\ table[j].key = table[k].key
        => j = k
    /\ \A o \in Requests : Inserted(o) => ByKey(o) = {}
    /\ \A o, p \in Requests :
        /\ Inserted(o) /\ Inserted(p)
        /\ call[o].scope = call[p].scope /\ call[o].key = call[p].key
        => o = p

CreateInv ==
    /\ TypeOK
    /\ \A r \in Requests : CallInv(r)
    /\ KeysAreUnique
    /\ RaceIsSettled
-----------------------------------------------------------------------------
(* What a step of request r does to the calls: the fields that say what is *)
(* asked for stay.                                                         *)
Becomes(r, f) ==
    /\ call' = [call EXCEPT ![r] = f]
    /\ f \in CallRecord
    /\ f.op = call[r].op /\ f.scope = call[r].scope
    /\ f.key = call[r].key /\ f.import = call[r].import
    /\ call' \in [Requests -> CallRecord]
    /\ call'[r] = f
    /\ \A o \in Requests \ {r} : call'[o] = call[o]

(* Replacing stage, job, created or reply keeps the type of a call.        *)
LEMMA CallBecomes ==
    ASSUME TypeOK, NEW r \in Requests, NEW f \in CallRecord,
           f.op = call[r].op, f.scope = call[r].scope,
           f.key = call[r].key, f.import = call[r].import,
           call' = [call EXCEPT ![r] = f]
    PROVE  Becomes(r, f)
<1>1. call \in [Requests -> CallRecord]
  BY DEF TypeOK, CallRecord
<1>2. QED
  BY <1>1 DEF Becomes

(* A request goes on to its next statement.                                *)
LEMMA GoBecomes ==
    ASSUME TypeOK, NEW r \in Requests, NEW s \in Stages, Go(r, s)
    PROVE  \E f \in CallRecord :
              /\ Becomes(r, f)
              /\ f.stage = s /\ f.target = call[r].target
              /\ f.job = call[r].job /\ f.copy = call[r].copy
              /\ f.created = call[r].created /\ f.reply = call[r].reply
<1> DEFINE f == [call[r] EXCEPT !.stage = s]
<1>1. call[r] \in CallRecord
  BY DEF TypeOK, CallRecord
<1>2. f \in CallRecord
  BY <1>1, Zenon DEF CallRecord
<1>3. /\ f.op = call[r].op /\ f.scope = call[r].scope
      /\ f.key = call[r].key /\ f.import = call[r].import
      /\ f.stage = s /\ f.target = call[r].target
      /\ f.job = call[r].job /\ f.copy = call[r].copy
      /\ f.created = call[r].created /\ f.reply = call[r].reply
  BY <1>1 DEF CallRecord
<1>4. call' = [call EXCEPT ![r] = f]
  BY DEF Go
<1>5. QED
  BY <1>2, <1>3, <1>4, CallBecomes

(* A request is answered with the job it has.                              *)
LEMMA AnswerBecomes ==
    ASSUME TypeOK, NEW r \in Requests, Answer(r)
    PROVE  \E f \in CallRecord :
              /\ Becomes(r, f)
              /\ f.stage = "over" /\ f.job = call[r].job /\ f.copy = call[r].copy
              /\ f.created = call[r].created /\ f.reply = "ok"
<1> DEFINE f == [call[r] EXCEPT !.stage = "over", !.reply = "ok"]
<1>1. call[r] \in CallRecord /\ "over" \in Stages /\ "ok" \in Replies
  BY DEF TypeOK, CallRecord, Stages, Replies
<1>2. f \in CallRecord
  BY <1>1, Zenon DEF CallRecord
<1>3. /\ f.op = call[r].op /\ f.scope = call[r].scope
      /\ f.key = call[r].key /\ f.import = call[r].import
      /\ f.stage = "over" /\ f.job = call[r].job /\ f.copy = call[r].copy
      /\ f.created = call[r].created /\ f.reply = "ok"
  BY <1>1 DEF CallRecord
<1>4. call' = [call EXCEPT ![r] = f]
  BY DEF Answer
<1>5. QED
  BY <1>2, <1>3, <1>4, CallBecomes

(* A request ends with an error.                                           *)
LEMMA RefuseBecomes ==
    ASSUME TypeOK, NEW r \in Requests, NEW y \in Replies, Refuse(r, y)
    PROVE  \E f \in CallRecord :
              /\ Becomes(r, f)
              /\ f.stage = "over" /\ f.created = call[r].created /\ f.reply = y
<1> DEFINE f == [call[r] EXCEPT !.stage = "over", !.reply = y, !.target = NoJob,
                               !.expected = 0, !.job = NoJob, !.copy = NoCopy]
<1>1. call[r] \in CallRecord /\ "over" \in Stages
  BY DEF TypeOK, CallRecord, Stages
<1>2. f \in CallRecord
  BY <1>1, Zenon DEF CallRecord
<1>3. /\ f.op = call[r].op /\ f.scope = call[r].scope
      /\ f.key = call[r].key /\ f.import = call[r].import
      /\ f.stage = "over" /\ f.created = call[r].created /\ f.reply = y
  BY <1>1 DEF CallRecord
<1>4. call' = [call EXCEPT ![r] = f]
  BY DEF Refuse
<1>5. QED
  BY <1>2, <1>3, <1>4, CallBecomes

(* What a request keeps of a row.                                          *)
LEMMA CopyIsTyped ==
    ASSUME NEW row \in Row
    PROVE  /\ CopyOf(row) \in Copy
           /\ CopyOf(row).scope = row.scope /\ CopyOf(row).import = row.import
  BY DEF Row, Copy, CopyOf

(* The row a create inserts.                                               *)
LEMMA NewRowIsTyped ==
    ASSUME TypeOK, NEW r \in Requests, call[r].import \in Imports
    PROVE  /\ NewRow(r) \in Row /\ NewRow(r) \notin {NoRow, Purged}
           /\ NewRow(r).scope = call[r].scope /\ NewRow(r).key = call[r].key
           /\ NewRow(r).import = call[r].import
<1>1. call[r] \in CallRecord
  BY DEF TypeOK, CallRecord
<1>2. call[r].scope \in Scopes /\ call[r].key \in Keys
  BY <1>1 DEF CallRecord
<1>3. /\ NewRow(r) \in Row /\ NewRow(r).status = "uploading"
      /\ NewRow(r).scope = call[r].scope /\ NewRow(r).key = call[r].key
      /\ NewRow(r).import = call[r].import
  BY <1>2 DEF NewRow, Row
<1>4. NewRow(r) \notin {NoRow, Purged}
  BY <1>3 DEF NoRow, Purged
<1>5. QED
  BY <1>3, <1>4

(* A request goes on with a row it found.                                  *)
LEMMA FoundBecomes ==
    ASSUME TypeOK, NEW r \in Requests, NEW s \in Stages, NEW j \in Requests,
           NEW row \in Row, Goes(r, s, j, row)
    PROVE  \E f \in CallRecord :
              /\ Becomes(r, f)
              /\ f.stage = s /\ f.job = j /\ f.copy = CopyOf(row)
              /\ f.created = call[r].created /\ f.reply = call[r].reply
<1>0. PICK c \in Copy : c = CopyOf(row)
  BY CopyIsTyped
<1> DEFINE f == [call[r] EXCEPT !.stage = s, !.job = j, !.copy = c]
<1>1. call[r] \in CallRecord /\ j \in Requests \cup {NoJob} /\ c \in Copy \cup {NoCopy}
  BY DEF TypeOK, CallRecord
<1>2. f \in CallRecord
  BY <1>1, Zenon DEF CallRecord
<1>3. /\ f.op = call[r].op /\ f.scope = call[r].scope
      /\ f.key = call[r].key /\ f.import = call[r].import
      /\ f.stage = s /\ f.job = j /\ f.copy = c
      /\ f.created = call[r].created /\ f.reply = call[r].reply
  BY <1>1 DEF CallRecord
<1>4. call' = [call EXCEPT ![r] = f]
  BY <1>0 DEF Goes
<1>5. QED
  BY <1>0, <1>2, <1>3, <1>4, CallBecomes

Inserts(r) == call' = [call EXCEPT ![r].stage = "commit", ![r].job = r,
                                   ![r].copy = CopyOf(NewRow(r)), ![r].created = TRUE]

(* A request goes on with the row it inserted.                             *)
LEMMA InsertBecomes ==
    ASSUME TypeOK, NEW r \in Requests, call[r].import \in Imports, Inserts(r)
    PROVE  \E f \in CallRecord :
              /\ Becomes(r, f)
              /\ f.stage = "commit" /\ f.job = r /\ f.copy = CopyOf(NewRow(r))
              /\ f.created /\ f.reply = call[r].reply
<1>0. PICK c \in Copy : c = CopyOf(NewRow(r))
  BY CopyIsTyped, NewRowIsTyped
<1> DEFINE f == [call[r] EXCEPT !.stage = "commit", !.job = r, !.copy = c, !.created = TRUE]
<1>1. /\ call[r] \in CallRecord /\ r \in Requests \cup {NoJob} /\ "commit" \in Stages
      /\ c \in Copy \cup {NoCopy}
  BY DEF TypeOK, CallRecord, Stages
<1>2. f \in CallRecord
  BY <1>1, Zenon DEF CallRecord
<1>3. /\ f.op = call[r].op /\ f.scope = call[r].scope
      /\ f.key = call[r].key /\ f.import = call[r].import
      /\ f.stage = "commit" /\ f.job = r /\ f.copy = c
      /\ f.created /\ f.reply = call[r].reply
  BY <1>1 DEF CallRecord
<1>4. call' = [call EXCEPT ![r] = f]
  BY <1>0 DEF Inserts
<1>5. QED
  BY <1>0, <1>2, <1>3, <1>4, CallBecomes

Retries(r, j, v) ==
    call' = [call EXCEPT ![r].stage = "get", ![r].target = j, ![r].expected = v]

(* A retry names a job and a version.                                      *)
LEMMA SendBecomes ==
    ASSUME TypeOK, NEW r \in Requests, NEW j \in Requests, NEW v \in Nat, Retries(r, j, v)
    PROVE  \E f \in CallRecord :
              /\ Becomes(r, f)
              /\ f.stage = "get" /\ f.target = j /\ f.job = call[r].job
              /\ f.created = call[r].created /\ f.reply = call[r].reply
<1> DEFINE f == [call[r] EXCEPT !.stage = "get", !.target = j, !.expected = v]
<1>1. call[r] \in CallRecord /\ j \in Requests \cup {NoJob} /\ "get" \in Stages
  BY DEF TypeOK, CallRecord, Stages
<1>2. f \in CallRecord
  BY <1>1, Zenon DEF CallRecord
<1>3. /\ f.op = call[r].op /\ f.scope = call[r].scope
      /\ f.key = call[r].key /\ f.import = call[r].import
      /\ f.stage = "get" /\ f.target = j /\ f.job = call[r].job
      /\ f.created = call[r].created /\ f.reply = call[r].reply
  BY <1>1 DEF CallRecord
<1>4. call' = [call EXCEPT ![r] = f]
  BY DEF Retries
<1>5. QED
  BY <1>2, <1>3, <1>4, CallBecomes
-----------------------------------------------------------------------------
(* What no statement does to a committed row: take it back, restore it     *)
(* after the purge, move it to another scope or import, or replace its key *)
(* without leaving a trace.                                                *)
TableStable ==
    \A j \in Requests : table[j] # NoRow =>
        /\ table'[j] # NoRow
        /\ table[j] = Purged => table'[j] = Purged
        /\ table'[j] # Purged =>
              /\ table'[j].scope = table[j].scope /\ table'[j].import = table[j].import
              /\ table[j].rekeyed => table'[j].rekeyed
              /\ table'[j].key = table[j].key \/ table'[j].rekeyed

(* A key that was given back stays given back.                             *)
LEMMA FreedKept ==
    ASSUME TableStable, NEW j \in Requests, Freed(j)
    PROVE  Freed(j)'
  BY DEF TableStable, Freed, Exists, NoRow, Purged

(* What a request found stays found when the table moves on.               *)
LEMMA FindsKept ==
    ASSUME TableStable, NEW o \in Requests, NEW j,
           call'[o].scope = call[o].scope, call'[o].key = call[o].key
    PROVE  /\ InScope(o, j) => InScope(o, j)'
           /\ Found(o, j) => Found(o, j)'
           /\ InScope(o, j) /\ Copied(o, j) /\ call'[o].copy = call[o].copy => Copied(o, j)'
<1>1. InScope(o, j) => InScope(o, j)'
  BY DEF InScope, Exists, TableStable
<1>2. Found(o, j) => Found(o, j)'
  BY <1>1, FreedKept DEF Found, InScope, Exists, Freed, TableStable
<1>3. InScope(o, j) /\ Copied(o, j) /\ call'[o].copy = call[o].copy => Copied(o, j)'
  BY DEF Copied, InScope, Exists, TableStable
<1>4. QED
  BY <1>1, <1>2, <1>3

(* A request that does not move keeps what it found.                       *)
LEMMA OthersKeep ==
    ASSUME NEW o \in Requests, CallInv(o), call'[o] = call[o], TableStable,
           table[o] = NoRow => table'[o] = NoRow
    PROVE  CallInv(o)'
<1>1. ASSUME NEW j
      PROVE  /\ InScope(o, j) => InScope(o, j)'
             /\ Found(o, j) => Found(o, j)'
             /\ InScope(o, j) /\ Copied(o, j) => Copied(o, j)'
  BY FindsKept
<1>2. NewRow(o)' = NewRow(o) /\ CopyOf(NewRow(o))' = CopyOf(NewRow(o))
  BY DEF NewRow, CopyOf
<1>3. \A j : Found(o, j) => InScope(o, j)
  BY DEF Found
<1>4. QED
  BY <1>1, <1>2, <1>3 DEF CallInv, Answered

(* A step of request r that commits nothing.                               *)
LEMMA StillTable ==
    ASSUME CreateInv, NEW r \in Requests, NEW f, Becomes(r, f), UNCHANGED <<db, table>>,
           faults' \in 0..MaxFaults, faults' >= faults,
           CallInv(r)',
           Inserted(r)' => ~Locked(r) /\ ~Taken(r),
           \/ f.reply # "internal" \/ f.reply = call[r].reply \/ call[r].op = "retry"
           \/ db # "committed" \/ faults' > 0 \/ \E j \in Requests : Freed(j)
    PROVE  CreateInv'
<1> USE DEF CreateInv
<1>1. TypeOK'
  BY DEF TypeOK, Becomes, CallRecord
<1>2. ASSUME NEW o \in Requests PROVE CallInv(o)'
  <2>1. CASE o # r
    BY <2>1, OthersKeep DEF Becomes, TableStable
  <2>2. QED
    BY <2>1
<1>3. \A o \in Requests : ByKey(o)' = ByKey(o)
  BY DEF ByKey, Exists, Becomes
<1>4. \A o \in Requests \ {r} : Inserted(o)' = Inserted(o)
  BY DEF Inserted, Becomes
<1>5. \A o \in Requests : call'[o].scope = call[o].scope /\ call'[o].key = call[o].key
  BY DEF Becomes
<1>6. KeysAreUnique'
  <2>1. \A j, k \in Requests :
          /\ Exists(j)' /\ Exists(k)'
          /\ table'[j].scope = table'[k].scope /\ table'[j].key = table'[k].key
          => j = k
    BY DEF KeysAreUnique, Exists
  <2>2. \A o \in Requests : Inserted(o)' => ByKey(o)' = {}
    BY <1>3, <1>4 DEF KeysAreUnique, Taken
  <2>3. \A o, p \in Requests :
          /\ Inserted(o)' /\ Inserted(p)'
          /\ call[o].scope = call[p].scope /\ call[o].key = call[p].key
          => o = p
    BY <1>4 DEF KeysAreUnique, Locked
  <2>4. QED
    BY <1>5, <2>1, <2>2, <2>3 DEF KeysAreUnique
<1>7. RaceIsSettled'
  <2> SUFFICES ASSUME NEW o \in Requests, db = "committed", call'[o].op = "create",
                      call'[o].reply = "internal"
               PROVE  faults' > 0 \/ \E j \in Requests : Freed(j)
    BY DEF RaceIsSettled, Freed, Exists
  <2>1. call[o].op = "create"
    BY DEF Becomes
  <2>2. call[o].reply = "internal" => faults > 0 \/ \E j \in Requests : Freed(j)
    BY <2>1 DEF RaceIsSettled
  <2>3. faults > 0 => faults' > 0
    BY DEF TypeOK
  <2>4. CASE o = r
    BY <2>1, <2>2, <2>3, <2>4 DEF Becomes
  <2>5. CASE o # r
    BY <2>2, <2>3, <2>5 DEF Becomes
  <2>6. QED
    BY <2>4, <2>5
<1>8. QED
  BY <1>1, <1>2, <1>6, <1>7

(* Faults are bounded and never forgotten.                                 *)
LEMMA FaultBounds ==
    ASSUME faults \in 0..MaxFaults, UNCHANGED faults \/ Fault
    PROVE  faults' \in 0..MaxFaults /\ faults' >= faults /\ (Fault => faults' > 0)
  BY CreateAssumption DEF Fault

(* A create goes on with a row that has its key.                           *)
LEMMA TakesKeep ==
    ASSUME CreateInv, NEW r \in Requests, call[r].stage \in {"read", "reread"},
           NEW j \in ByKey(r), Goes(r, "commit", j, table[j]), UNCHANGED <<db, table, faults>>
    PROVE  CreateInv'
<1>1. TypeOK /\ CallInv(r) /\ faults' \in 0..MaxFaults /\ faults' >= faults
  BY FaultBounds DEF CreateInv, TypeOK
<1>2. j \in Requests /\ Exists(j) /\ table[j] \in Row
      /\ table[j].scope = call[r].scope /\ table[j].key = call[r].key
  BY <1>1 DEF ByKey, TypeOK, Exists
<1>3. PICK f : Becomes(r, f) /\ f.stage = "commit" /\ f.job = j /\ f.copy = CopyOf(table[j])
               /\ f.created = call[r].created /\ f.reply = call[r].reply
  BY <1>1, <1>2, FoundBecomes DEF Stages
<1>4. Found(r, j)' /\ Copied(r, j)'
  BY <1>2, <1>3, CopyIsTyped DEF Found, Copied, InScope, Exists, Freed, Becomes
<1>5. CallInv(r)' /\ ~Inserted(r)'
  BY <1>1, <1>3, <1>4 DEF CallInv, Becomes, Answered, Inserted
<1>6. QED
  BY <1>1, <1>3, <1>5, StillTable

(* A request is sent, checked and looks for a row with its key.            *)
LEMMA ReadKeeps ==
    ASSUME CreateInv, NEW r \in Requests, Send(r) \/ Describe(r) \/ Read(r)
    PROVE  CreateInv'
<1>1. TypeOK /\ CallInv(r) /\ UNCHANGED <<db, table, faults>>
  BY DEF CreateInv, Send, Describe, Read, Quiet
<1>2. faults' \in 0..MaxFaults /\ faults' >= faults
  BY <1>1, FaultBounds DEF TypeOK
<1>3. call[r].stage \in {"idle", "describe", "read"} /\ ~call[r].created /\ table[r] = NoRow
  BY <1>1 DEF CallInv, Send, Describe, Read
<1> USE DEF Stages, Replies
<1>4. CASE Send(r) /\ call[r].op = "create" /\ Go(r, "describe")
  <2>1. PICK f : Becomes(r, f) /\ f.stage = "describe" /\ f.created = call[r].created
                 /\ f.reply = call[r].reply
    BY <1>1, <1>4, GoBecomes
  <2>2. CallInv(r)' /\ ~Inserted(r)'
    BY <1>1, <1>3, <1>4, <2>1 DEF CallInv, Becomes, Answered, Inserted
  <2>3. QED
    BY <1>1, <1>2, <2>1, <2>2, StillTable
<1>5. ASSUME Send(r), call[r].op = "retry", NEW j \in Requests,
             Exists(j), table[j].scope = call[r].scope,
             Retries(r, j, table[j].version)
      PROVE  CreateInv'
  <2>1. table[j].version \in Nat
    BY <1>1, <1>5 DEF TypeOK, Exists, Row
  <2>2. PICK f : Becomes(r, f) /\ f.stage = "get" /\ f.target = j
                 /\ f.created = call[r].created /\ f.reply = call[r].reply
    BY <1>1, <1>5, <2>1, SendBecomes
  <2>3. InScope(r, j)'
    BY <1>1, <1>5, <2>2 DEF InScope, Exists, Becomes
  <2>4. CallInv(r)' /\ ~Inserted(r)'
    BY <1>1, <1>3, <1>5, <2>2, <2>3 DEF CallInv, Becomes, Answered, Inserted
  <2>5. QED
    BY <1>1, <1>2, <2>2, <2>4, StillTable
<1>6. CASE Describe(r) /\ Go(r, "read")
  <2>1. PICK f : Becomes(r, f) /\ f.stage = "read" /\ f.created = call[r].created
                 /\ f.reply = call[r].reply
    BY <1>1, <1>6, GoBecomes
  <2>2. CallInv(r)' /\ ~Inserted(r)'
    BY <1>1, <1>3, <1>6, <2>1 DEF CallInv, Becomes, Answered, Inserted, Describe
  <2>3. QED
    BY <1>1, <1>2, <2>1, <2>2, StillTable
<1>7. ASSUME NEW y \in {"invalid", "unavailable"}, Describe(r), Refuse(r, y)
      PROVE  CreateInv'
  <2>1. PICK f : Becomes(r, f) /\ f.stage = "over" /\ f.created = call[r].created
                 /\ f.reply = y
    BY <1>1, <1>7, RefuseBecomes
  <2>2. CallInv(r)' /\ ~Inserted(r)'
    BY <1>1, <1>3, <1>7, <2>1 DEF CallInv, Becomes, Answered, Inserted, Describe
  <2>3. QED
    BY <1>1, <1>2, <2>1, <2>2, StillTable
<1>8. ASSUME NEW j \in ByKey(r), Read(r), Goes(r, "commit", j, table[j])
      PROVE  CreateInv'
  <2>1. call[r].stage = "read"
    BY <1>8 DEF Read
  <2>2. QED
    BY <1>8, <2>1, TakesKeep DEF Quiet, Read
<1>9. CASE Read(r) /\ Go(r, "insert")
  <2>1. PICK f : Becomes(r, f) /\ f.stage = "insert" /\ f.created = call[r].created
                 /\ f.reply = call[r].reply
    BY <1>1, <1>9, GoBecomes
  <2>2. CallInv(r)' /\ ~Inserted(r)'
    BY <1>1, <1>3, <1>9, <2>1 DEF CallInv, Becomes, Answered, Inserted, Read
  <2>3. QED
    BY <1>1, <1>2, <2>1, <2>2, StillTable
<1>10. QED
  BY <1>4, <1>5, <1>6, <1>7, <1>8, <1>9 DEF Send, Describe, Read, Retries

(* The INSERT, and the second read of a request that lost the race.        *)
LEMMA InsertKeeps ==
    ASSUME CreateInv, NEW r \in Requests, Insert(r) \/ Reread(r)
    PROVE  CreateInv'
<1>1. TypeOK /\ CallInv(r) /\ UNCHANGED <<db, table, faults>>
  BY DEF CreateInv, Insert, Reread, Quiet
<1>2. faults' \in 0..MaxFaults /\ faults' >= faults
  BY <1>1, FaultBounds DEF TypeOK
<1>3. /\ call[r].stage \in {"insert", "reread"} /\ call[r].op = "create"
      /\ call[r].import \in Imports /\ ~call[r].created /\ table[r] = NoRow
  BY <1>1 DEF CallInv, Insert, Reread
<1> USE DEF Stages, Replies
<1>4. CASE Insert(r) /\ ~Taken(r) /\ Inserts(r)
  <2>1. PICK f : Becomes(r, f) /\ f.stage = "commit" /\ f.job = r /\ f.created
                 /\ f.copy = CopyOf(NewRow(r)) /\ f.reply = call[r].reply
    BY <1>1, <1>3, <1>4, InsertBecomes
  <2>2. CopyOf(NewRow(r))' = CopyOf(NewRow(r))
    BY <2>1 DEF Becomes, NewRow, CopyOf
  <2>3. CallInv(r)'
    BY <1>1, <1>3, <2>1, <2>2 DEF CallInv, Becomes, Answered
  <2>4. QED
    BY <1>1, <1>2, <1>4, <2>1, <2>3, StillTable DEF Insert
<1>5. CASE Insert(r) /\ Taken(r) /\ Go(r, "reread")
  <2>1. PICK f : Becomes(r, f) /\ f.stage = "reread" /\ f.created = call[r].created
                 /\ f.reply = call[r].reply
    BY <1>1, <1>5, GoBecomes
  <2>2. \E j \in Requests : Found(r, j)
    BY <1>5 DEF Taken, ByKey, Found, InScope, Exists
  <2>3. \E j \in Requests : Found(r, j)'
    BY <1>1, <2>1, <2>2 DEF Found, InScope, Exists, Freed, Becomes
  <2>4. CallInv(r)' /\ ~Inserted(r)'
    BY <1>1, <1>3, <2>1, <2>3 DEF CallInv, Becomes, Answered, Inserted
  <2>5. QED
    BY <1>1, <1>2, <2>1, <2>4, StillTable
<1>6. ASSUME Reread(r), NEW j \in Visible(r), Goes(r, "commit", j, table[j])
      PROVE  CreateInv'
  <2>1. j \in ByKey(r) /\ call[r].stage = "reread"
    BY <1>6 DEF Visible, Reread
  <2>2. QED
    BY <1>6, <2>1, TakesKeep DEF Quiet, Reread
<1>7. CASE Reread(r) /\ Visible(r) = {} /\ Refuse(r, "internal")
  <2>1. PICK f : Becomes(r, f) /\ f.stage = "over" /\ f.created = call[r].created
                 /\ f.reply = "internal"
    BY <1>1, <1>7, RefuseBecomes
  <2>2. CallInv(r)' /\ ~Inserted(r)'
    BY <1>1, <1>3, <2>1 DEF CallInv, Becomes, Answered, Inserted
  <2>3. PICK j \in Requests : Found(r, j)
    BY <1>1, <1>7 DEF CallInv, Reread
  <2>4. db # "committed" \/ Freed(j)
    BY <1>7, <2>3 DEF Visible, ByKey, Found, InScope, Exists, Freed
  <2>5. QED
    BY <1>1, <1>2, <2>1, <2>2, <2>4, StillTable
<1>8. QED
  BY <1>4, <1>5, <1>6, <1>7 DEF Insert, Reread, Inserts

(* The presigned URL, and the first read of a retry.                       *)
LEMMA PresignKeeps ==
    ASSUME CreateInv, NEW r \in Requests, Presign(r) \/ GetCurrent(r)
    PROVE  CreateInv'
<1>1. TypeOK /\ CallInv(r) /\ UNCHANGED <<db, table>>
  BY DEF CreateInv, Presign, GetCurrent, Quiet
<1>2. faults' \in 0..MaxFaults /\ faults' >= faults
  BY <1>1, FaultBounds DEF TypeOK, Presign, GetCurrent, Quiet
<1>3. TableStable
  BY <1>1 DEF TableStable
<1> USE DEF Stages, Replies
<1>4. CASE Presign(r) /\ Answer(r)
  <2>1. PICK f : Becomes(r, f) /\ f.stage = "over" /\ f.job = call[r].job
                 /\ f.copy = call[r].copy /\ f.created = call[r].created /\ f.reply = "ok"
    BY <1>1, <1>4, AnswerBecomes
  <2>2. call[r].stage = "presign"
    BY <1>4 DEF Presign
  <2>3. ASSUME NEW j
        PROVE  /\ InScope(r, j) => InScope(r, j)'
               /\ Found(r, j) => Found(r, j)'
               /\ InScope(r, j) /\ Copied(r, j) => Copied(r, j)'
    BY <1>3, <2>1, FindsKept DEF Becomes
  <2>4. CallInv(r)' /\ ~Inserted(r)'
    BY <1>1, <2>1, <2>2, <2>3 DEF CallInv, Becomes, Answered, Inserted
  <2>5. QED
    BY <1>1, <1>2, <2>1, <2>4, StillTable
<1>5. ASSUME NEW y \in {"unavailable", "closed", "not_found"},
             call[r].stage \in {"presign", "get"}, Refuse(r, y)
      PROVE  CreateInv'
  <2>1. PICK f : Becomes(r, f) /\ f.stage = "over" /\ f.created = call[r].created
                 /\ f.reply = y
    BY <1>1, <1>5, RefuseBecomes
  <2>2. CallInv(r)' /\ ~Inserted(r)'
    BY <1>1, <1>5, <2>1 DEF CallInv, Becomes, Answered, Inserted
  <2>3. QED
    BY <1>1, <1>2, <1>5, <2>1, <2>2, StillTable
<1>6. CASE GetCurrent(r) /\ Exists(call[r].target)
           /\ Goes(r, "presign", call[r].target, table[call[r].target])
  <2>0. PICK j : j = call[r].target
    OBVIOUS
  <2>1. call[r].stage = "get" /\ call[r].op = "retry" /\ InScope(r, j)
        /\ ~call[r].created /\ j \in Requests
    BY <1>1, <1>6, <2>0 DEF GetCurrent, CallInv, Exists
  <2>2. table[j] \in Row /\ table[j].scope = call[r].scope
    BY <1>1, <1>6, <2>0, <2>1 DEF TypeOK, Exists, InScope
  <2>3. PICK f : Becomes(r, f) /\ f.stage = "presign" /\ f.job = j /\ f.copy = CopyOf(table[j])
                 /\ f.created = call[r].created /\ f.reply = call[r].reply
    BY <1>1, <1>6, <2>0, <2>1, <2>2, FoundBecomes
  <2>4. Copied(r, j)' /\ InScope(r, j)'
    BY <1>1, <2>1, <2>2, <2>3, CopyIsTyped DEF Copied, InScope, Exists, Becomes
  <2>5. CallInv(r)' /\ ~Inserted(r)'
    BY <1>1, <2>1, <2>3, <2>4 DEF CallInv, Becomes, Answered, Inserted
  <2>6. QED
    BY <1>1, <1>2, <2>3, <2>5, StillTable
<1>7. CASE GetCurrent(r) /\ Go(r, "update")
  <2>1. call[r].stage = "get" /\ call[r].op = "retry" /\ InScope(r, call[r].target)
        /\ ~call[r].created
    BY <1>1, <1>7 DEF GetCurrent, CallInv
  <2>2. PICK f : Becomes(r, f) /\ f.stage = "update" /\ f.target = call[r].target
                 /\ f.created = call[r].created /\ f.reply = call[r].reply
    BY <1>1, <1>7, <2>1, GoBecomes
  <2>3. InScope(r, call[r].target)'
    BY <1>1, <2>1, <2>2 DEF InScope, Exists, Becomes
  <2>4. CallInv(r)' /\ ~Inserted(r)'
    BY <1>1, <2>1, <2>2, <2>3 DEF CallInv, Becomes, Answered, Inserted
  <2>5. QED
    BY <1>1, <1>2, <2>2, <2>4, StillTable
<1>8. QED
  BY <1>4, <1>5, <1>6, <1>7 DEF Presign, GetCurrent
-----------------------------------------------------------------------------
(* The steps that change a row.                                            *)

(* A settled race stays settled: faults and freed keys are not undone.     *)
LEMMA RaceKept ==
    ASSUME TypeOK, RaceIsSettled, TableStable, db' = db, faults' \in Nat, faults' >= faults,
           \A o \in Requests :
              /\ call'[o].op = call[o].op
              /\ \/ call'[o].reply = call[o].reply \/ call'[o].reply # "internal"
                 \/ call[o].op = "retry" \/ faults' > 0
    PROVE  RaceIsSettled'
<1> SUFFICES ASSUME NEW o \in Requests, db = "committed", call'[o].op = "create",
                    call'[o].reply = "internal", ~(faults' > 0)
             PROVE  \E j \in Requests : Freed(j)'
  BY DEF RaceIsSettled
<1>1. call[o].op = "create" /\ call[o].reply = "internal"
  BY Zenon
<1>2. ~(faults > 0)
  BY DEF TypeOK
<1>3. PICK j \in Requests : Freed(j)
  BY <1>1, <1>2 DEF RaceIsSettled
<1>4. QED
  BY <1>3, FreedKept

(* The row of a create is committed, with the answer that was computed     *)
(* from it or, when the commit reports a fault, an error.                  *)
LEMMA StoreKeeps ==
    ASSUME CreateInv, NEW r \in Requests, NEW f, Becomes(r, f),
           Inserted(r), table' = [table EXCEPT ![r] = NewRow(r)], db' = db,
           faults' \in 0..MaxFaults, faults' >= faults,
           f.created = call[r].created,
           \/ /\ f.stage = "presign" /\ f.reply = call[r].reply
              /\ f.job = call[r].job /\ f.copy = call[r].copy
           \/ f.stage = "over" /\ f.reply = "internal" /\ faults' > 0
    PROVE  CreateInv'
<1>1. /\ TypeOK /\ CallInv(r) /\ KeysAreUnique /\ RaceIsSettled
      /\ call[r].stage = "commit" /\ call[r].created
      /\ table[r] = NoRow /\ call[r].op = "create" /\ call[r].import \in Imports
      /\ call[r].job = r /\ call[r].copy = CopyOf(NewRow(r))
  BY DEF CreateInv, CallInv, Inserted
<1>2. /\ table'[r] = NewRow(r)
      /\ \A j \in Requests \ {r} : table'[j] = table[j]
  BY <1>1 DEF TypeOK
<1>3. NewRow(r) \in Row
  BY <1>1, NewRowIsTyped
<1>4. NewRow(r) \notin {NoRow, Purged}
  BY <1>1, NewRowIsTyped
<1>5. /\ NewRow(r).scope = call[r].scope /\ NewRow(r).key = call[r].key
      /\ NewRow(r).import = call[r].import
  BY DEF NewRow
<1>6. TableStable
  BY <1>1, <1>2 DEF TableStable
<1>7. TypeOK'
  <2>1. table' \in [Requests -> Row \cup {NoRow, Purged}]
    BY <1>1, <1>3 DEF TypeOK
  <2>2. QED
    BY <1>1, <2>1 DEF TypeOK, Becomes, CallRecord
<1>8. ASSUME NEW o \in Requests PROVE CallInv(o)'
  <2>1. CASE o # r
    BY <1>2, <1>6, <2>1, OthersKeep DEF CreateInv, Becomes
  <2>2. Found(r, r)'
    BY <1>2, <1>4, <1>5 DEF Found, InScope, Exists, Freed, Becomes
  <2>3. f.stage = "presign" => Copied(r, r)' /\ f.copy.import = f.import
    BY <1>1, <1>2, <1>3, <1>5, CopyIsTyped DEF Copied, Becomes
  <2>4. CallInv(r)'
    BY <1>1, <2>2, <2>3 DEF CallInv, Found, Answered, Becomes
  <2>5. QED
    BY <2>1, <2>4
<1>9. KeysAreUnique'
  <2>1. \A o \in Requests : Inserted(o)' => Inserted(o) /\ o # r
    BY DEF Inserted, Becomes
  <2>2. \A o \in Requests : call'[o].scope = call[o].scope /\ call'[o].key = call[o].key
    BY DEF Becomes
  <2>3. ByKey(r) = {}
    BY <1>1 DEF KeysAreUnique
  <2>4. \A k \in Requests \ {r} : Exists(k)' =>
            ~(table'[k].scope = call[r].scope /\ table'[k].key = call[r].key)
    BY <1>2, <2>3 DEF ByKey, Exists
  <2>5. ASSUME NEW j \in Requests, NEW k \in Requests, Exists(j)', Exists(k)',
               table'[j].scope = table'[k].scope, table'[j].key = table'[k].key
        PROVE  j = k
    <3>1. CASE j = r \/ k = r
      BY <1>2, <1>5, <2>4, <2>5, <3>1
    <3>2. CASE j # r /\ k # r
      BY <1>1, <1>2, <2>5, <3>2 DEF KeysAreUnique, Exists
    <3>3. QED
      BY <3>1, <3>2
  <2>6. ASSUME NEW o \in Requests, Inserted(o)' PROVE ByKey(o)' = {}
    <3>1. Inserted(o) /\ o # r /\ ByKey(o) = {}
      BY <1>1, <2>1, <2>6 DEF KeysAreUnique
    <3>2. ~(call[o].scope = call[r].scope /\ call[o].key = call[r].key)
      BY <1>1, <3>1 DEF KeysAreUnique
    <3>3. ASSUME NEW j \in Requests, Exists(j)',
                 table'[j].scope = call[o].scope, table'[j].key = call[o].key
          PROVE  FALSE
      <4>1. CASE j = r
        BY <1>2, <1>5, <3>2, <3>3, <4>1
      <4>2. CASE j # r
        BY <1>2, <3>1, <3>3, <4>2 DEF ByKey, Exists
      <4>3. QED
        BY <4>1, <4>2
    <3>4. QED
      BY <2>2, <3>3 DEF ByKey
  <2>7. ASSUME NEW o \in Requests, NEW p \in Requests, Inserted(o)', Inserted(p)',
               call'[o].scope = call'[p].scope, call'[o].key = call'[p].key
        PROVE  o = p
    BY <1>1, <2>1, <2>2, <2>7 DEF KeysAreUnique
  <2>8. QED
    BY <2>5, <2>6, <2>7 DEF KeysAreUnique
<1>10. RaceIsSettled'
  <2>1. faults' \in Nat
    BY CreateAssumption
  <2>2. QED
    BY <1>1, <1>6, <2>1, RaceKept DEF Becomes
<1>11. QED
  BY <1>7, <1>8, <1>9, <1>10 DEF CreateInv

(* The commit of a create, the comparison of the imports and the answer.   *)
LEMMA CommitKeeps ==
    ASSUME CreateInv, NEW r \in Requests, Commit(r)
    PROVE  CreateInv'
<1>1. TypeOK /\ CallInv(r) /\ db' = db /\ call[r].stage = "commit" /\ call[r].op = "create"
  BY DEF CreateInv, CallInv, Commit
<1>2. /\ faults' \in 0..MaxFaults /\ faults' >= faults
      /\ Fault => faults' > 0
  BY <1>1, FaultBounds DEF TypeOK, Commit
<1> USE DEF Stages, Replies
<1>3. CASE call[r].created /\ table' = [table EXCEPT ![r] = NewRow(r)]
  <2>1. Inserted(r)
    BY <1>1, <1>3 DEF Inserted
  <2>2. CASE Go(r, "presign")
    <3>1. PICK f : Becomes(r, f) /\ f.stage = "presign" /\ f.job = call[r].job
                   /\ f.copy = call[r].copy
                   /\ f.created = call[r].created /\ f.reply = call[r].reply
      BY <1>1, <2>2, GoBecomes
    <3>2. QED
      BY <1>1, <1>2, <1>3, <2>1, <3>1, StoreKeeps
  <2>3. CASE Fault /\ Refuse(r, "internal")
    <3>1. PICK f : Becomes(r, f) /\ f.stage = "over" /\ f.created = call[r].created
                   /\ f.reply = "internal"
      BY <1>1, <2>3, RefuseBecomes
    <3>2. QED
      BY <1>1, <1>2, <1>3, <2>1, <2>3, <3>1, StoreKeeps
  <2>4. QED
    BY <1>3, <2>2, <2>3 DEF Commit, SameImport
<1>4. CASE table' = table /\ Fault /\ Refuse(r, "internal")
  <2>1. PICK f : Becomes(r, f) /\ f.stage = "over" /\ f.created = call[r].created
                 /\ f.reply = "internal"
    BY <1>1, <1>4, RefuseBecomes
  <2>2. CallInv(r)' /\ ~Inserted(r)'
    BY <1>1, <1>4, <2>1 DEF CallInv, Becomes, Answered, Inserted
  <2>3. QED
    BY <1>1, <1>2, <1>4, <2>1, <2>2, StillTable
<1>5. CASE ~call[r].created /\ table' = table /\ SameImport(r) /\ Go(r, "presign")
  <2>1. PICK f : Becomes(r, f) /\ f.stage = "presign" /\ f.job = call[r].job
                 /\ f.copy = call[r].copy
                 /\ f.created = call[r].created /\ f.reply = call[r].reply
    BY <1>1, <1>5, GoBecomes
  <2>2. /\ Found(r, call[r].job) /\ InScope(r, call[r].job) /\ Copied(r, call[r].job)
        /\ call[r].copy.import = call[r].import
    BY <1>1, <1>5 DEF CallInv, SameImport, Found
  <2>3. TableStable
    BY <1>5 DEF TableStable
  <2>4. Found(r, call[r].job)' /\ InScope(r, call[r].job)' /\ Copied(r, call[r].job)'
    <3>1. ASSUME NEW j, Found(r, j), InScope(r, j), Copied(r, j)
          PROVE  Found(r, j)' /\ InScope(r, j)' /\ Copied(r, j)'
      BY <2>1, <2>3, <3>1, FindsKept DEF Becomes
    <3>2. PICK j : j = call[r].job
      OBVIOUS
    <3>3. Found(r, j)' /\ InScope(r, j)' /\ Copied(r, j)'
      BY <2>2, <3>1, <3>2
    <3>4. call'[r].job = j
      BY <2>1, <3>2 DEF Becomes
    <3>5. QED
      BY <3>3, <3>4
  <2>5. CallInv(r)' /\ ~Inserted(r)'
    BY <1>1, <1>5, <2>1, <2>2, <2>4 DEF CallInv, Becomes, Answered, Inserted
  <2>6. QED
    BY <1>1, <1>2, <1>5, <2>1, <2>5, StillTable
<1>6. CASE ~call[r].created /\ table' = table /\ Refuse(r, "different")
  <2>1. PICK f : Becomes(r, f) /\ f.stage = "over" /\ f.created = call[r].created
                 /\ f.reply = "different"
    BY <1>1, <1>6, RefuseBecomes
  <2>2. CallInv(r)' /\ ~Inserted(r)'
    BY <1>1, <1>6, <2>1 DEF CallInv, Becomes, Answered, Inserted
  <2>3. QED
    BY <1>1, <1>2, <1>6, <2>1, <2>2, StillTable
<1>7. QED
  BY <1>3, <1>4, <1>5, <1>6 DEF Commit

(* A row keeps its scope and import, and stays a row.                      *)
SameRow(j) ==
    /\ table'[j] \in Row /\ table'[j] \notin {NoRow, Purged}
    /\ table'[j].scope = table[j].scope /\ table'[j].import = table[j].import
    /\ table[j].rekeyed => table'[j].rekeyed
    /\ table'[j].key = table[j].key \/ table'[j].rekeyed

(* A step that rewrites one existing row, when the key it leaves there is  *)
(* the one it had or one that no row and no INSERT in progress has.        *)
LEMMA RowStep ==
    ASSUME CreateInv, NEW j \in Requests, Exists(j),
           table' \in [Requests -> Row \cup {NoRow, Purged}],
           \A k \in Requests \ {j} : table'[k] = table[k],
           SameRow(j),
           call' \in [Requests -> CallRecord],
           \A o \in Requests : call'[o].scope = call[o].scope /\ call'[o].key = call[o].key,
           \A o \in Requests : Inserted(o)' => Inserted(o),
           \A o \in Requests : CallInv(o)',
           db' = db, faults' \in 0..MaxFaults, faults' >= faults,
           \A o \in Requests : call'[o].op = call[o].op,
           \A o \in Requests : \/ call'[o].reply = call[o].reply
                               \/ call'[o].reply # "internal" \/ call[o].op = "retry",
           \A k \in Requests \ {j} : Exists(k) =>
              ~(table[k].scope = table[j].scope /\ table[k].key = table'[j].key),
           \A o \in Requests : Inserted(o)' =>
              ~(call[o].scope = table[j].scope /\ call[o].key = table'[j].key)
    PROVE  CreateInv'
<1>1. TypeOK /\ KeysAreUnique /\ RaceIsSettled
  BY DEF CreateInv
<1>2. TypeOK'
  BY <1>1 DEF TypeOK, CallRecord
<1>3. TableStable
  BY DEF TableStable, SameRow, Exists
<1>4. RaceIsSettled'
  <2>1. faults' \in Nat
    BY CreateAssumption
  <2>2. QED
    BY <1>1, <1>3, <2>1, RaceKept
<1>5. ASSUME NEW k \in Requests, NEW l \in Requests, Exists(k)', Exists(l)',
             table'[k].scope = table'[l].scope, table'[k].key = table'[l].key
      PROVE  k = l
  <2>1. CASE k # j /\ l # j
    BY <1>1, <1>5, <2>1 DEF KeysAreUnique, Exists
  <2>2. CASE k = j /\ l # j
    BY <1>5, <2>2 DEF Exists, SameRow
  <2>3. CASE l = j /\ k # j
    BY <1>5, <2>3 DEF Exists, SameRow
  <2>4. QED
    BY <2>1, <2>2, <2>3
<1>6. ASSUME NEW o \in Requests, Inserted(o)' PROVE ByKey(o)' = {}
  <2>1. ByKey(o) = {}
    BY <1>1, <1>6 DEF KeysAreUnique
  <2>2. ASSUME NEW k \in Requests, Exists(k)',
               table'[k].scope = call[o].scope, table'[k].key = call[o].key
        PROVE  FALSE
    <3>1. CASE k = j
      BY <1>6, <2>2, <3>1 DEF SameRow
    <3>2. CASE k # j
      BY <2>1, <2>2, <3>2 DEF ByKey, Exists
    <3>3. QED
      BY <3>1, <3>2
  <2>3. QED
    BY <2>2 DEF ByKey
<1>7. ASSUME NEW o \in Requests, NEW p \in Requests, Inserted(o)', Inserted(p)',
             call'[o].scope = call'[p].scope, call'[o].key = call'[p].key
      PROVE  o = p
  BY <1>1, <1>7 DEF KeysAreUnique
<1>8. KeysAreUnique'
  BY <1>5, <1>6, <1>7 DEF KeysAreUnique
<1>9. QED
  BY <1>2, <1>4, <1>8 DEF CreateInv

(* The rest of the service moves a job on.                                 *)
LEMMA ProgressKeeps ==
    ASSUME CreateInv, NEW j \in Requests, Progress(j)
    PROVE  CreateInv'
<1>1. TypeOK /\ KeysAreUnique /\ Exists(j) /\ UNCHANGED <<db, call, faults>>
  BY DEF CreateInv, Progress
<1>2. table \in [Requests -> Row \cup {NoRow, Purged}] /\ table[j] \in Row
  BY <1>1 DEF TypeOK, Exists
<1>3. PICK x \in Row :
        /\ table' = [table EXCEPT ![j] = x]
        /\ x.scope = table[j].scope /\ x.key = table[j].key /\ x.import = table[j].import
        /\ x.rekeyed <=> table[j].rekeyed
        /\ x.status \in {"uploading", "other", "retryable", "expired"}
  <2> DEFINE R == table[j]
  <2>0. R.version + 1 \in Nat
    BY <1>2 DEF Row
  <2>1. ASSUME NEW t \in {"other", "retryable", "expired"}, Moves(j, t)
        PROVE  \E x \in Row :
                  /\ table' = [table EXCEPT ![j] = x]
                  /\ x.scope = R.scope /\ x.key = R.key /\ x.import = R.import
                  /\ x.rekeyed <=> R.rekeyed
                  /\ x.status = t
    <3> DEFINE x == [R EXCEPT !.status = t, !.version = R.version + 1, !.open = FALSE]
    <3>1. x \in Row
      BY <1>2, <2>0, Zenon DEF Row
    <3>2. table' = [table EXCEPT ![j] = x]
      BY <1>2, <2>1 DEF Moves
    <3>3. QED
      BY <1>2, <3>1, <3>2 DEF Row
  <2>2. CASE table' = [table EXCEPT ![j].open = FALSE]
    <3> DEFINE x == [R EXCEPT !.open = FALSE]
    <3>1. x \in Row
      BY <1>2, Zenon DEF Row
    <3>2. table' = [table EXCEPT ![j] = x]
      BY <1>2, <2>2
    <3>3. QED
      BY <1>2, <3>1, <3>2 DEF Row
  <2>3. \/ \E t \in {"other", "retryable", "expired"} : Moves(j, t)
        \/ table' = [table EXCEPT ![j].open = FALSE]
    BY DEF Progress
  <2>4. QED
    BY <2>1, <2>2, <2>3
<1>4. /\ table' \in [Requests -> Row \cup {NoRow, Purged}]
      /\ table'[j] = x
      /\ \A k \in Requests \ {j} : table'[k] = table[k]
  BY <1>2, <1>3
<1>5. SameRow(j)
  BY <1>3, <1>4 DEF SameRow, NoRow, Purged
<1>6. TableStable
  BY <1>1, <1>4, <1>5 DEF TableStable, SameRow, Exists
<1>7. ASSUME NEW o \in Requests PROVE CallInv(o)'
  <2>1. table[o] = NoRow => table'[o] = NoRow
    BY <1>1, <1>4 DEF Exists
  <2>2. QED
    BY <1>1, <1>6, <2>1, OthersKeep DEF CreateInv
<1>8. \A o \in Requests : Inserted(o)' => Inserted(o)
  BY <1>1 DEF Inserted
<1>9. \A k \in Requests \ {j} : Exists(k) =>
         ~(table[k].scope = table[j].scope /\ table[k].key = table'[j].key)
  BY <1>1, <1>3, <1>4 DEF KeysAreUnique, Exists
<1>10. \A o \in Requests : Inserted(o)' =>
         ~(call[o].scope = table[j].scope /\ call[o].key = table'[j].key)
  BY <1>1, <1>3, <1>4, <1>8 DEF KeysAreUnique, ByKey
<1>11. call' \in [Requests -> CallRecord] /\ faults' \in 0..MaxFaults /\ faults' >= faults
  BY <1>1 DEF TypeOK, CallRecord
<1>12. QED
  BY <1>1, <1>4, <1>5, <1>7, <1>8, <1>9, <1>10, <1>11, RowStep

(* The row of an expired job is deleted and its key is free.               *)
LEMMA PurgeKeeps ==
    ASSUME CreateInv, NEW j \in Requests, Purge(j)
    PROVE  CreateInv'
<1>1. /\ TypeOK /\ KeysAreUnique /\ RaceIsSettled /\ Exists(j)
      /\ UNCHANGED <<db, call, faults>>
  BY DEF CreateInv, Purge
<1>2. table'[j] = Purged /\ \A k \in Requests \ {j} : table'[k] = table[k]
  BY <1>1 DEF TypeOK, Purge
<1>3. TypeOK'
  BY <1>1 DEF TypeOK, Purge
<1>4. Purged # NoRow
  BY DEF Purged, NoRow
<1>5. TableStable
  BY <1>2, <1>4 DEF TableStable
<1>6. ASSUME NEW o \in Requests PROVE CallInv(o)'
  <2>1. table[o] = NoRow => table'[o] = NoRow
    BY <1>1, <1>2 DEF Exists
  <2>2. QED
    BY <1>1, <1>5, <2>1, OthersKeep DEF CreateInv
<1>7. \A k \in Requests : Exists(k)' => Exists(k) /\ table'[k] = table[k]
  BY <1>2 DEF Exists
<1>8. KeysAreUnique'
  <2>1. \A k, l \in Requests :
          /\ Exists(k)' /\ Exists(l)'
          /\ table'[k].scope = table'[l].scope /\ table'[k].key = table'[l].key
          => k = l
    BY <1>1, <1>7 DEF KeysAreUnique
  <2>2. \A o \in Requests : Inserted(o)' => ByKey(o)' = {}
    BY <1>1, <1>7 DEF KeysAreUnique, Inserted, ByKey
  <2>3. QED
    BY <1>1, <2>1, <2>2 DEF KeysAreUnique, Inserted
<1>9. RaceIsSettled'
  <2>1. faults' \in Nat /\ faults' >= faults
    BY <1>1, CreateAssumption DEF TypeOK
  <2>2. QED
    BY <1>1, <1>5, <2>1, RaceKept
<1>10. QED
  BY <1>3, <1>6, <1>8, <1>9 DEF CreateInv

(* A retry takes its job back to "uploading" under its own key.            *)
LEMMA UpdateKeeps ==
    ASSUME CreateInv, NEW r \in Requests, Update(r)
    PROVE  CreateInv'
<1>0. PICK j : j = call[r].target
  OBVIOUS
<1>1. /\ TypeOK /\ CallInv(r) /\ db' = db
      /\ call[r].stage = "update" /\ ~Locked(r)
  BY DEF CreateInv, Update
<1>2. call[r].op = "retry" /\ ~call[r].created /\ InScope(r, j) /\ j \in Requests
  BY <1>0, <1>1 DEF CallInv, InScope
<1>3. faults' \in 0..MaxFaults /\ faults' >= faults
  BY <1>1, FaultBounds DEF TypeOK, Update
<1> USE DEF Stages, Replies
<1>4. ASSUME NEW y \in {"stale", "internal"}, Refuse(r, y), table' = table
      PROVE  CreateInv'
  <2>1. PICK f : Becomes(r, f) /\ f.stage = "over" /\ f.created = call[r].created
                 /\ f.reply = y
    BY <1>1, <1>4, RefuseBecomes
  <2>2. CallInv(r)' /\ ~Inserted(r)'
    BY <1>1, <1>2, <1>4, <2>1 DEF CallInv, Becomes, Answered, Inserted
  <2>3. QED
    BY <1>1, <1>2, <1>3, <1>4, <2>1, <2>2, StillTable
<1>5. ASSUME Accepts(r, j), ByKey(r) \ {j} = {},
             table' = [table EXCEPT ![j] = Retried(r, table[j])],
             Goes(r, "presign", j, Retried(r, table[j])) \/ Refuse(r, "internal")
      PROVE  CreateInv'
  <2>1. /\ table \in [Requests -> Row \cup {NoRow, Purged}] /\ table[j] \in Row
        /\ Exists(j) /\ table[j].scope = call[r].scope
    BY <1>1, <1>2, <1>5 DEF TypeOK, InScope, Exists, Accepts
  <2>2. call[r].key \in Keys
    <3>1. call[r] \in CallRecord
      BY <1>1 DEF TypeOK, CallRecord
    <3>2. QED
      BY <3>1 DEF CallRecord
  <2>3. PICK g \in BOOLEAN : g = (table[j].rekeyed \/ call[r].key # table[j].key)
    OBVIOUS
  <2>4. PICK x : x = Retried(r, table[j])
    OBVIOUS
  <2>5. x = [table[j] EXCEPT !.key = call[r].key, !.status = "uploading", !.open = TRUE,
                             !.version = table[j].version + 1, !.rekeyed = g]
    BY <2>3, <2>4, Zenon DEF Retried
  <2>6. x \in Row
    <3>1. table[j].version + 1 \in Nat
      BY <2>1 DEF Row
    <3>2. QED
      BY <2>1, <2>2, <2>5, <3>1, Zenon DEF Row
  <2>7. /\ x.key = call[r].key /\ x.scope = table[j].scope /\ x.import = table[j].import
        /\ x.status = "uploading" /\ x.rekeyed = g
    BY <2>1, <2>5 DEF Row
  <2>8. /\ table' \in [Requests -> Row \cup {NoRow, Purged}] /\ table'[j] = x
        /\ \A k \in Requests \ {j} : table'[k] = table[k]
    BY <1>2, <1>5, <2>1, <2>4, <2>6
  <2>9. (table[j].rekeyed => x.rekeyed) /\ (x.key = table[j].key \/ x.rekeyed)
    BY <2>3, <2>7, Zenon
  <2>10. SameRow(j)
    BY <2>6, <2>7, <2>8, <2>9 DEF SameRow, NoRow, Purged
  <2>11. TableStable
    BY <2>1, <2>8, <2>10 DEF TableStable, SameRow, Exists
  <2>12. PICK f : /\ Becomes(r, f) /\ f.created = call[r].created
                  /\ \/ /\ f.stage = "presign" /\ f.job = j /\ f.copy = CopyOf(x)
                        /\ f.reply = call[r].reply
                     \/ f.stage = "over" /\ f.reply = "internal"
    <3>1. CASE Goes(r, "presign", j, x)
      BY <1>1, <1>2, <2>6, <3>1, FoundBecomes
    <3>2. CASE Refuse(r, "internal")
      BY <1>1, <3>2, RefuseBecomes
    <3>3. QED
      BY <1>5, <2>4, <3>1, <3>2
  <2>13. ASSUME NEW o \in Requests PROVE CallInv(o)'
    <3>1. table[o] = NoRow => table'[o] = NoRow
      BY <2>1, <2>8 DEF Exists
    <3>2. CASE o # r
      BY <2>11, <2>12, <3>1, <3>2, OthersKeep DEF CreateInv, Becomes
    <3>3. InScope(r, j)'
      BY <1>2, <2>1, <2>7, <2>8, <2>10, <2>12 DEF InScope, Exists, Becomes, SameRow
    <3>4. f.stage = "presign" => Copied(r, j)'
      BY <2>1, <2>6, <2>7, <2>8, <2>12, CopyIsTyped DEF Copied, Becomes
    <3>5. CallInv(r)'
      <4>1. table[r] = NoRow => table'[r] = NoRow
        BY <2>1, <2>8 DEF Exists
      <4>2. QED
        BY <1>1, <1>2, <2>12, <3>3, <3>4, <4>1 DEF CallInv, Becomes, Answered
    <3>6. QED
      BY <3>2, <3>5
  <2>14. \A o \in Requests : Inserted(o)' => Inserted(o) /\ o # r
    BY <2>12 DEF Inserted, Becomes
  <2>15. \A k \in Requests \ {j} : Exists(k) =>
           ~(table[k].scope = table[j].scope /\ table[k].key = table'[j].key)
    BY <1>5, <2>1, <2>7, <2>8 DEF ByKey
  <2>16. \A o \in Requests : Inserted(o)' =>
           ~(call[o].scope = table[j].scope /\ call[o].key = table'[j].key)
    BY <1>1, <2>1, <2>7, <2>8, <2>14 DEF Locked
  <2>17. /\ call' \in [Requests -> CallRecord]
         /\ \A o \in Requests : /\ call'[o].scope = call[o].scope
                                /\ call'[o].key = call[o].key
                                /\ call'[o].op = call[o].op
                                /\ call'[o].reply = call[o].reply \/ call[o].op = "retry"
    BY <1>2, <2>12 DEF Becomes
  <2>18. QED
    BY <1>1, <1>2, <1>3, <2>1, <2>8, <2>10, <2>13, <2>14, <2>15, <2>16, <2>17, RowStep
<1>6. QED
  BY <1>0, <1>4, <1>5 DEF Update
-----------------------------------------------------------------------------
(* The invariant holds before the first request is sent.                   *)
LEMMA InitCreate == Init => CreateInv
<1> SUFFICES ASSUME Init PROVE CreateInv
  OBVIOUS
<1> DEFINE Start ==
        [op: {"create", "retry"}, scope: Scopes, key: Keys, import: Imports \cup {NoImport},
         target: {NoJob}, expected: {0}, stage: {"idle"}, job: {NoJob},
         copy: {NoCopy}, created: {FALSE}, reply: {"none"}]
<1>1. call \in [Requests -> Start] /\ table = [r \in Requests |-> NoRow]
  BY DEF Init
<1>2. ASSUME NEW c \in Start PROVE c \in CallRecord
  <2>1. /\ c.stage \in Stages /\ c.target \in Requests \cup {NoJob} /\ c.expected \in Nat
        /\ c.job \in Requests \cup {NoJob} /\ c.copy \in Copy \cup {NoCopy}
        /\ c.created \in BOOLEAN /\ c.reply \in Replies
    <3>1. /\ c.stage = "idle" /\ c.target = NoJob /\ c.expected = 0 /\ c.job = NoJob
          /\ c.copy = NoCopy /\ c.reply = "none"
      OBVIOUS
    <3>2. c.created \in BOOLEAN
      BY Zenon
    <3>3. QED
      BY <3>1, <3>2 DEF Stages, Replies
  <2>2. QED
    BY <2>1, Zenon DEF CallRecord
<1>3. call \in [Requests -> CallRecord]
  BY <1>1, <1>2
<1>4. TypeOK
  BY <1>1, <1>3, CreateAssumption DEF Init, TypeOK, CallRecord
<1>5. \A r \in Requests : call[r].stage = "idle" /\ ~call[r].created /\ call[r].reply = "none"
                          /\ table[r] = NoRow
  BY <1>1
<1>6. \A r \in Requests : CallInv(r)
  BY <1>5 DEF Init, CallInv, Answered
<1>7. KeysAreUnique /\ RaceIsSettled
  BY <1>5 DEF KeysAreUnique, RaceIsSettled, Exists, Inserted
<1>8. QED
  BY <1>4, <1>6, <1>7 DEF CreateInv

(* Every step keeps the invariant.                                         *)
LEMMA NextCreate == CreateInv /\ [Next]_vars => CreateInv'
<1> SUFFICES ASSUME CreateInv, [Next]_vars PROVE CreateInv'
  OBVIOUS
<1>1. CASE UNCHANGED vars
  <2>1. TypeOK' /\ KeysAreUnique' /\ RaceIsSettled'
    BY <1>1 DEF CreateInv, vars, TypeOK, KeysAreUnique, RaceIsSettled, Exists, Freed,
                Inserted, ByKey
  <2>2. \A r \in Requests : CallInv(r)'
    BY <1>1, OthersKeep DEF CreateInv, vars, TableStable
  <2>3. QED
    BY <2>1, <2>2 DEF CreateInv
<1>2. ASSUME NEW r \in Requests, Send(r) \/ Serve(r) PROVE CreateInv'
  BY <1>2, ReadKeeps, InsertKeeps, CommitKeeps, PresignKeeps, UpdateKeeps DEF Serve
<1>3. QED
  BY <1>1, <1>2, ProgressKeeps, PurgeKeeps DEF Next

(* In every reachable state a request has found, inserted or answered only *)
(* what its statements entitle it to, and no two rows have the same key.   *)
THEOREM CreatesAreConsistent == Spec => []CreateInv
  BY InitCreate, NextCreate, PTL DEF Spec

(* The job a request is answered with is one of its own scope and, for a   *)
(* create, of the import it asked for, and its row, if any, agrees.        *)
THEOREM AnswersAreOwn == Spec => []AnswerIsOwnImport
<1>1. CreateInv => AnswerIsOwnImport
  BY DEF CreateInv, CallInv, AnswerIsOwnImport, InScope, Copied
<1>2. QED
  BY <1>1, CreatesAreConsistent, PTL

(* Creates with the same key are answered with the same job, unless a      *)
(* retry has replaced the key of one of the jobs or a purge has deleted it.*)
THEOREM KeysNameOneJob == Spec => []OneJobPerKey
<1>1. CreateInv => OneJobPerKey
  <2> SUFFICES ASSUME CreateInv, NEW r \in Requests, NEW q \in Requests,
                      Answered(r), Answered(q), call[r].op = "create", call[q].op = "create",
                      call[r].scope = call[q].scope, call[r].key = call[q].key
               PROVE  \/ call[r].job = call[q].job
                      \/ Freed(call[r].job) \/ Freed(call[q].job)
    BY DEF OneJobPerKey
  <2>1. Found(r, call[r].job) /\ Found(q, call[q].job)
    BY DEF CreateInv, CallInv
  <2>2. QED
    BY <2>1 DEF CreateInv, KeysAreUnique, Found, InScope, Exists, Freed
<1>2. QED
  BY <1>1, CreatesAreConsistent, PTL

(* Where a statement sees what is committed, a create fails with an error  *)
(* only by a fault, or because a retry or a purge has taken the key away.  *)
THEOREM RacesAreSettled == Spec => []RaceIsSettled
<1>1. CreateInv => RaceIsSettled
  BY DEF CreateInv
<1>2. QED
  BY <1>1, CreatesAreConsistent, PTL
=============================================================================
