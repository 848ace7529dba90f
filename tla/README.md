# A TLA+ model of import-service

`import-service` takes files from users, validates them row by row with the
service that owns the data, and writes them only after the user confirmed. The
rows of a job live in one SQL table; any number of replicas serve requests,
consume messages and run the scheduled cleanup over it, with an object store, a
message bus, Redis and data providers beside it. This directory models how
those processes share one job, and each mechanism that brings them to it:
requests with their admission and their keys, messages, provider sessions,
calls to other services, listings, start-up and configuration. TLC checks the
models on small instances; TLAPS proves every safety property the passing runs
check, for all values of the constants.

## The system

| Component | State it keeps | Operations | Modelled in |
|---|---|---|---|
| job store (`importjob/repository.go`, `model.go`) | `import_jobs`, `import_outbox_events` | one guarded `UPDATE` per transition, claim, listings, purge | `ImportStore`, `CreateJob`, `JobListing` |
| job service (`importjob/service.go`) | none (the client keeps a version) | create, complete-upload, get/list, cancel, retry, confirm, error-report | `ImportService`, `CreateJob`, `JobListing` |
| worker (`importjob/worker.go`) | a run of `Validate` or `Apply`, temporary files | claim, stream, upload, apply batches, finish, fail | `ImportWorker` |
| parser (`importjob/parser.go`) | position in the stream, a batch | rows to batches, limits | `RowStream` |
| cleanup (`worker.go`, `scheduler/`) | a listing being worked through | list, delete objects, expire, purge | `ImportCleaner` |
| event runtime (`app/import_eventbus.go`, `eventbus/`) | outbox rows, leases, durable consumers | dispatch, deliver, acknowledge, stop | `EventDelivery`; as seen by the worker, `events` of `ImportStore` |
| object storage (`objectstorage/`) | source, normalized file and report of a job | presign, stat, get, put, delete | `obj` of `ImportStore`; https or not, `Configuration` |
| provider client (`importjob/provider_grpc.go`) | connections, a stream per session | validate and apply a batch, reopen, retry | `ProviderSession`; its effect as `applied` in `ImportWorker` |
| catalog (`catalog.go`, `provider_grpc.go`) | none (discovery keeps the instances) | list and describe datasets | `DatasetCatalog` |
| HTTP and gRPC transport, authentication, authorization, rate limits, idempotency | Redis records | admit, refuse, execute once, replay | `RequestPipeline` |
| outbound clients (`outbound/`, `grpcclient/`) | a breaker per client | call, retry, give up | `OutboundCall` |
| configuration (`config/`) | settings of the process | load, validate, build clients from it | `Configuration` |
| wiring (`app/app.go`, servers, `migration/`) | what is built, started, in progress | load, build, start, stop, roll back | `ServiceLifecycle` |

**Interaction.** A request passes a chain of middleware (address limit,
authentication, authorization, user limit, idempotency record) before its
handler reads or updates the row in one transaction and, for complete-upload and
confirm, adds an outbox row to it. A dispatcher in every replica publishes
outbox rows; a durable consumer hands them to `Validate` or `Apply`, which claim
the job with a conditional update, work for minutes or hours without a lock, and
finish with another conditional update. The cleaner lists jobs whose deadline
passed and deletes their objects one by one before it expires the row. Nothing
but the status column, and the version column for client requests, orders these
against each other.

**What is hard.** A worker that outlives its attempt (cancel does not stop it,
retry reuses the job ID, the object keys and the statuses); a cleaner that works
from an old listing; a claim that commits before the row is read; messages that
come twice, late, or to two replicas; a process that dies after its claim; an
upload URL that stays valid while the file is being validated; two requests with
one key, in Redis and in the table; a record that expires under its owner; a
lease lost between publishing and marking; limits at their exact value, and page
numbers beyond an int32; results that reach a breaker after it changed its mind;
a start that fails half-way. `PROJECT.json` lists each at its line under
`hazards`.

**What makes it correct.** A version names one state of the job; the job follows
the documented diagram; a waiting job has its message and a running job its
worker; what the user confirms is what was validated and what is written;
success means that all of it was written; expiry is timely and leaves nothing.
A key stands for one execution and one job; a refused request leaves no trace; a
message wakes one worker; rows are numbered as in the file; pages are exact;
what is not safe to repeat is sent once; work in progress keeps its connections.

## Modules

| Module | Content |
|---|---|
| `ImportStore` | the shared state, one operator per SQL statement, delivery, time |
| `ImportService`, `ImportWorker`, `ImportCleaner` | one action per request or step, each over `ImportStore` |
| `JobLifecycle` | abstract specification: the state diagram, one edge per version |
| `ImportSystem` | composition, fairness, all properties, the refinement mapping |
| `ImportSystemProofs` | proofs about rows, versions, messages and claims, the refinement of `JobLifecycle`, then about objects, the provider's data and expiry |
| `ProviderSession` | sessions of `provider_grpc.go`, their connections and the registry |
| `BatchExchange` | abstract specification: what a worker relies on when it sends batches |
| `RowStream` | `StreamRows` and its two uses, with the reference definition of an acceptable file |
| `RequestPipeline` | middleware and interceptors of both transports, idempotency records |
| `CreateJob` | the race for the key of a job, statement by statement, on three kinds of database |
| `EventDelivery` | outbox, dispatchers, JetStream, consumers, stop and crash |
| `OutboundCall` | retries and the circuit breaker that calls share |
| `Paging` | page arithmetic of a given integer width |
| `JobListing`, `DatasetCatalog` | the two listings, over `Paging` |
| `Readers` | `RowStream` and the two listings, which share no state, side by side |
| `Configuration` | the settings, `Validate`, what constructors and clients make of them |
| `ServiceLifecycle` | over `Configuration`: loading, constructors, hooks, work in progress |
| `ProviderSessionProofs`, `RequestPipelineProofs`, `CreateJobProofs`, `EventDeliveryProofs`, `OutboundCallProofs`, `ReadersProofs`, `ServiceLifecycleProofs` | proofs about the module each is named after |
| `MC...` and the `.cfg` files | instances for TLC |

A definition that begins with "Faulty variant" is not part of the model: it is a
plausible error in the definition after it, kept to show that a property
notices it (`mutants` in `PROJECT.json`).

### State

* `row[j]` holds the columns that statements test: `status`, `version`,
  `source_checksum` (`sum`), whether `invalid_rows > 0` (`bad`), `confirm_key`,
  and the two deadlines, each `null`, `future` or `past`. `none` is a job not
  created yet, `purged` one whose row was deleted. Retry's reset list, and what
  cancel does *not* reset (`result_expires_at`), are as in the SQL.
* `obj[j]` says of which file the source, the normalized object and the report
  are made. A file stands for its content, so a checksum is the file itself.
* `events` are messages that are committed and not acknowledged. A message can
  be delivered any number of times and to any workers. A handler that returns
  nil may acknowledge it or fail to; a handler that returns an error does not.
* `applied[j][b]` is what the provider holds under the key `job:batch`. By its
  contract (repository `README.md`, line 44) the first write stays.
* `hist[j]` is history that no action reads, except for the bound on retries:
  the attempt, whether a cancel hit a running worker (`cut`), whether a cleaner
  began to delete (`swept`), the sources confirmed, the claims lost.
* `view[c][j]` is what a client last read; its requests carry that version.
  `worker[w]` and `cleaner[k]` are program counters with local copies.

### Granularity

A transaction is one step, since every statement in it is decided by a single
conditional `UPDATE`. Each external call between transactions is a step of its
own: the claim, the read after it (`repository.go:157`), `Get`, both `Put`s,
each provider batch, each `Delete`. `CompleteUpload` is two steps, `Stat` and
the transaction. `Fail` may happen anywhere after the row was read: it stands
for the timeout and for every error of store, parser or provider. `Lose` is the
death of the process and any database error after the claim. `Abort` is the
same for a cleaner.

### Provider sessions

`ProviderSession` is the inside of the worker's provider calls, on its own.
The validation and the apply session run the same loop (`ValidateBatch` and
`ApplyBatch`), so one session stands for both. `client` is two steps, since
the listing is read before the mutex is taken: an older address may replace a
newer one. Round robin over the candidates is any candidate. The registry, the
provider and the gRPC library are external: a stream may break with a status
that is retried or one that is not; requests on a broken stream may still
arrive; an answer may come twice; a connection that another session closed
fails a `Recv` or a new stream with `Canceled` and a `Send` with `EOF`. An
instance that `failure` reports is not listed until it registers again, and
`success` changes no listing. `BatchExchange` is what `ImportWorker` takes for
granted in `ApplyBatch`: order, no acknowledgement without a write, and at most
one batch written without one. `gen` and `dials` number streams and
connections, and are bounded by the attempts.

### The parser

A line is its kind (a row, a row the provider refuses, blank, ragged, broken),
its bytes and the bytes of its normalized form; what makes a line broken is the
decoder's business. One step per line, `Emit` included: a full batch is checked
against `max_rows`, handed over and counted in the same round. CSV and JSONL
read as they go, XLSX reads the whole file first. `CutLine` is `bufio.Scanner`
at the byte limit: it hands out what it has of a line before it reports the
error, and the limit overrides whatever error follows. The second pass reads the
normalized lines the first one wrote. The error report is bounded like the
normalized file, but its text is the provider's and goes through a buffer, so
that its limit may end a validation at any issue or in the last flush
(`FlushReport`).

### Requests and keys

`RequestPipeline` takes a request through the chain of its transport in the
order `NewServer` installs it, one step per element. A credential is the principal
it belongs to, `"psk"`, `"forged"` or none; `Machines` are the principals whose
token has the type of a service account or of the system, which `authorize`
(`service.go:298`) lets act for any tenant; patterns of exempt routes are sets. The
records follow `platform/idempotency` as the middleware uses it: made if absent,
owned by the request that made them, and gone when their time is over, whatever
their owner does. What the handler changes is one operation per tenant and body,
since the body holds the job and the version it expects.

`CreateJob` opens the transaction of `Create`: read by key, `INSERT`, second
read, commit. A concurrent `INSERT` of the key makes another one wait. What the
second read sees depends on the database: nothing in PostgreSQL or Kingbase,
where the failed statement aborted the transaction; the old snapshot in MySQL's
default isolation; the winner's row where statements see what is committed. In
the first two the loser finds nothing, and they behave alike. Retry, which
replaces the key, runs beside it, and so does everything else that happens to a
row: it leaves `uploading`, its deadline passes, the cleaner expires it, and
`DeleteExpiredMetadata` deletes it together with its key. Between its statements
a request works with the `Job` value it read (`copy`): `createUpload` presigns by
what that says, while the row may have moved on.

### Messages

`EventDelivery` is what `events` of `ImportStore` abstracts: an outbox row is
due, leased by a dispatcher, published, marked, and deleted later; the stream
holds up to `MaxCopies` copies of a message, since an ID is forgotten after the
duplicate window; a copy is outstanding for `ack_wait` and delivered `max_deliver`
times. A job is `queued`, `running` or `ended` here, for either pass. Dispatcher
and JetStream are external, modelled by the options `start` passes to them.

### Calls, listings, life cycle, configuration

* `OutboundCall`: one step per attempt, backoff and report to the breaker. A
  result that reaches the breaker in a later generation is ignored, as gobreaker
  does. A client may have no breaker. `IsExcluded` and `ReadyToTrip` are the
  code's. `keyed` is what `retryableMethod` looks at, a key in the context: the
  gRPC client sends it along, the HTTP client does not (`http.go:107-114`).
* `JobListing`: `COUNT` and `SELECT` are two steps between which the table may
  change. A walk reads pages 1, 2, ... of one size until a page is short or the
  total is reached. Integers have `Width` bits, so that TLC meets the overflow of
  `(page-1)*page_size`: a negative offset fails in SQL and panics in the catalog.
* `DatasetCatalog`: names and codes are numbers because they are sorted;
  instances reach `summarizeDatasets` in any order. Without discovery a page is
  empty, whatever its offset.
* `Configuration`: a setting is reduced to the answers of the checks on it. A
  feature is off, on, or on and wrong in itself. `Validate`, the constructors and
  the connections are three readings of the same record. `unparsed` names the
  component whose constructor meets a value that it cannot parse and `Validate`
  does not look into (`log.level`, an address, a DSN, a cron spec). `Connections`
  are all kinds that may carry a credential, those to Redis, the bus and the
  database and those of the HTTP server included.
* `ServiceLifecycle`: a configuration is loaded under a profile, and the
  components it enables are built in the order of `Hooks`, the order in which fx
  calls the constructors. A constructor fails because of the settings
  (`refused`) or because of a file or another service (`failed`); a start hook
  fails because of the settings (`unstartable`) or of an address (`rolled back`).
  A stop hook is two steps, no more work and then all work done. HTTP requests,
  jobs and cron runs have timeouts; a call of the gRPC server has none of its own.

### Left out

* In `ImportSystem`, requests that are refused change nothing and are no
  actions. Repeated create, retry and confirm requests that are recognised read
  the row and presign a URL. Keys of create and retry are in `CreateJob`.
* Events nobody in this service consumes (`canceled`, `retried`, `validated`,
  `failed`, `succeeded`, `expired`), except in `told` of `EventDelivery`.
* The provider's verdict is a function of the file (`GoodFiles`), and it accepts
  a repeated batch key with the same number of rows, as its contract says.
* A presigned upload URL is valid exactly while `upload_expires_at` is in the
  future: `createUpload` never asks for more (`service.go:277`), and a shorter
  one can be renewed by repeating the request.

## Runs

All files in `MCImportSystem` have the same size, so that the size comparison of
complete-upload cannot help. `CHECK_DEADLOCK FALSE` everywhere: a system whose
jobs were all purged, whose requests are all answered or whose process has
ended has nothing to do.

| Run | Instance | Checks |
|---|---|---|
| `attempt` | 1 job, no retry, a valid and an invalid file, 2 batches, 2 workers, 1 cleaner, 1 fault, fair | `TypeOK`, `RunningHasWorker`, `SucceededAppliedSource`, `ExpiredResultsGone`, `WorkSettles`, `RetentionEnds` |
| `retry` | 1 job, 1 retry, 2 files, 2 workers | `ViewIsCurrent`, `QueuedHasMessage`, `ReadyAwaitsConfirm`, `ReadyIsValidated`, `AppliedWasConfirmed`, `LifecycleSpec` |
| `sweep` | 1 job, 1 retry, 2 invalid files, 1 worker, 1 cleaner, 1 fault | `ReportIsOfSource`, `ExpiresAfterDeadline` |
| `provider` | a session of 2 batches and one of none, 1 instance with 2 addresses, 2 attempts, 2 changes of the registry, fair | `PoolIsOpen`, `ExchangeSpec`, `SessionEnds` |
| `requests` | 3 requests of 9 kinds (a user, a service account, pre-shared key, forged, none; 4 routes, 3 transports), 1 key, 2 bodies, 1 expiry, 1 loss | `RecordIsOwners`, `ReplayIsOwn`, `AcquiredOnce`, `ChangesAreAuthorized` |
| `create` | 3 requests, 2 scopes, 2 keys, 2 imports, a database that aborts and one that reads what is committed, 1 fault | `AnswerIsOwnImport`, `OneJobPerKey`, `RaceIsSettled` |
| `delivery` | 1 job and 1 foreign message, 2 replicas, `max_deliver` 2, 2 copies, 2 faults, 1 stop, fair | `ClaimedOnce`, `StoppedIsQuiet`, `JobWakes` |
| `calls` | 4 calls of 3 kinds, HTTP or gRPC, with or without a breaker, 2 attempts, threshold 2, 2 openings | `UnsafeIsSentOnce`, `BodiesAreAccounted`, `CancelIsNoFailure` |
| `readers` | all files of up to 4 lines of 8 kinds and sizes in 3 formats, batches of 2, 3 rows, 5 bytes, lines of 2; 3 jobs with 2 times, 2 changes, 1 fault; 3 instances of 2 services, 2 codes, 2 titles; 4-bit integers, sizes up to 3 | `RowNumbersAreRight`, `LimitsAreExact`, `ReadyCanBeApplied`, `WalkIsExact`, `PageIsExact`, `CatalogIsExact` |
| `process` | 3 configurations with any setting changed, under each profile; 1 piece of work of each of 4 servers, fair | `WorkHasResources`, `ClearNeedsConsent`, `AcceptedRuns`, `StopEnds` |
| `zombie`, `corrected` | smallest instance that shows it | findings 1 and 2 |

Every module states its type invariant; the runs check that of `ImportSystem`.
Those of the other modules with proofs are parts of their inductive invariants.

**Bounds.** Jobs share nothing but a cleaner's listing, whose other
entries only make it older, and a cleaner may stop between any two steps of one:
one job suffices. One retry gives two attempts, which is enough for a worker,
a message or a listing of an older attempt to meet a newer one. Two workers
allow a worker of each attempt and two deliveries of one message at a time. One
fault (`MaxFaults`) is enough for an abandoned claim or sweep. Sessions share the
connection map and the registry only: two of them suffice to close a connection
in use, and the second one, of an empty file, does to the first all that others
can: it opens a stream, replaces the connection and reports the instance.
`MaxMoves` bounds the registry.

Four lines are two full batches, or one and a smaller one, on both sides of
every limit. Three requests are an owner, one that takes the key over when the
record has expired, and one that meets the record of either; three creates are
a winner, a loser and a retry that moves the key. Two replicas, copies, deliveries and faults let a lease pass from one dispatcher to
the other, a second copy enter and both be exhausted; a crash and a stop are each
possible. Two calls open a breaker of threshold 2, a third one probes it, and a
fourth one reports late; two openings let it open again. With four bits the largest
page numbers wrap to negative and to small offsets, as with 32. The checks of
`Validate` relate a setting to one or two others; the three configurations have
these on, off and in the clear, so that one change reaches every check.
The database with the old snapshot is left out of `create`: after a failed
`INSERT` it shows as little as one that aborted.

Workers, clients and cleaners, the requests of `requests` and `create`, and the
calls of `calls` are symmetric; runs with a liveness property use no symmetry.

**Conditions in the properties.** Some properties hold of a job that was never
retried, or that no cancel caught running. They are stated with that condition,
and the same statement without it is among the statements below that the code
does not keep: the pair shows what the code guarantees and where it stops. The
other conditions:

* `ReportedRowIsInvalid`, part of `RowNumbersAreRight`: the file has a header and
  no line that is skipped. JSONL rows are numbered from 2 all the same, and blank lines are not counted.
* `ReadyCanBeApplied`: no normalized row exceeds the scanner's 16 MiB, a limit a
  CSV or XLSX source does not meet in the first pass.
* `AcquiredOnce`: one execution more for each record that expired. A record whose
  owner died or panicked stays `processing` until then.
* `OneJobPerKey`: no retry took the key away from the jobs concerned, and neither
  was purged. After either, the same create makes a second job.
* `RaceIsSettled`: statements see what is committed, and no retry or purge freed
  the key meanwhile; `LoserLearnsWinner` is the same claim without that.
* `UnsafeIsSentOnce`: a call whose context has an idempotency key counts as safe.
  For HTTP that is the caller's word alone, since the key is not sent.
* `CancelIsNoFailure`: canceled calls. What else arrives late is dropped by
  gobreaker, which is external.
* `JobWakes`: not every delivery of the message failed. `ImportStore` has no
  `max_deliver`, so that `QueuedHasMessage` and `WorkSettles` are about messages
  that JetStream does not give up.
* `RetentionEnds`: jobs in a state that `ListExpired` selects; see
  `ResultFilesCleaned` below.
* `PageIsExact`, `CatalogIsExact`: the offset fits the integer, and the total is
  that of the page if the listing did not change between the two statements.
* `WalkIsExact`: no job left the listing (nothing is missed), none entered it
  (nothing comes twice).
* `AcceptedRuns` names three refusals that `Validate` does not foresee: an HTTP
  upstream, half a certificate for the registry (`config.go:701-711` against
  `client.go:230-233`) and a bus without a database; and it leaves aside values
  that only a constructor parses. The backends it speaks of are those that
  `Validate` or a hook ties to a feature: cron and the import routes are accepted,
  and run, without a database, and a bus without a store.
* `ClearNeedsConsent` is about the connections whose encryption `Validate` decides
  on. `Unchecked` names the others: HTTP upstreams, the HTTP server, Redis (which
  `cache.Open` never encrypts), the bus and the database.
* `StopEnds`: no gRPC call goes on for ever. One that does is ended by
  `shutdown_timeout`, in `Server.stop` or by fx.

**Fairness.**

* `ImportSystem`: weak fairness of each worker's and each cleaner's steps and of
  time. The consumers of a live replica keep pulling, cron runs for ever and
  every run has a timeout. A worker that always fails is fair too. Nothing is
  assumed of clients, acknowledgements or faults. `WorkSettles` holds of jobs no
  worker was lost on: a job whose worker died stays `validating` or `applying`
  until a user cancels it, for the message that comes back finds nothing to
  claim.
* Provider sessions: weak fairness of each one's own steps. It is a running
  goroutine, and its context has a deadline (`job_timeout`). Requests, `CreateJob`
  and outbound calls state no fairness: their properties are invariants.
* `EventDelivery`: dispatchers tick, JetStream delivers what is due, handlers
  return, leases and `ack_wait` run out, and a stopped process is started again
  by whoever deploys it.
* `ServiceLifecycle`: stopping goes on, and HTTP requests, jobs and cron runs end
  by their own timeout. Nothing is assumed of gRPC calls, for the server installs
  no timeout; that of fx is not relied upon.

## Findings

1. `zombie`: `FinishValidation`, `FinishApply` and `Fail` match the status only.
   Cancel a validating job, retry it and upload another file: the first worker
   still overwrites the normalized object, or finishes the second attempt. What
   is applied was never confirmed (repository `README.md`, step 5).
2. `corrected`: batch keys are `job:batch` (`worker.go:190`) and survive a
   retry. If the first apply failed after some batches, the provider takes the
   corrected ones for repetitions and the job still succeeds (steps 4 and 5).

### Statements the code does not keep

Met while modelling; each is written down as a property of its module and is
not among the runs. Added to the invariants (or properties) of the run named, it
yields the behaviour described.

* `PurgedAfterResults` (`sweep`): the cleaner's statement compares the status it
  listed (`repository.go:169`). A job that went round to the same status
  meanwhile is expired early, and objects written after the deletes remain when
  the row is purged (comment at `worker.go:263`).
* `ResultFilesCleaned` (`attempt`): `ready` jobs, and canceled jobs without
  `result_expires_at`, are never listed (`repository.go:163`); their objects
  stay (repository `README.md`, step 6).
* `WithdrawnIsRetried` (`provider`): when a stream breaks and no instance is
  listed at the next attempt, the batch loop does not retry
  (`provider_grpc.go:313`, `:434`), while opening a session does. The job fails
  with attempts left (repository `README.md`, line 46). The same happens to a
  session whose connection another one replaced (`:447`).
* `LoserLearnsWinner` (`create`): the second read of `Create`
  (`repository.go:58`) runs in the transaction whose `INSERT` failed. Neither
  PostgreSQL nor MySQL by default shows it the winner's row, so the loser is
  answered with an internal error.
* `EveryChangeIsPublished` (`delivery`): a claim changes the status and adds no
  outbox row (`worker.go:56`, `repository.go:148-156`), nor does create; step 6
  says that every change is published.
* `ConsentSuffices` (`process`): `Validate` accepts credentials of an HTTP
  upstream with `allow_insecure` (`config.go:754`), `NewHTTPClient` refuses them
  (`http.go:37`). The same constructor refuses a certificate without a key when
  TLS is off, which `Validate` does not look at; half a certificate for the
  registry is refused by `NewProvider` only, a bus without a database by a hook
  only (`import_eventbus.go:50`).
* `ClearNeedsConsent` without `Unchecked` (`process`): `NewHTTPClient` looks at
  `tls.enabled`, the scheme of `base_url` decides, and nothing compares them;
  Redis, the bus, the database and the HTTP server are not looked at at all.

## Proofs

The theorems hold for all values of the constants that satisfy the named
assumptions of the modules, which TLC evaluates in the runs: any number of jobs,
files, workers, requests, replicas, calls, sessions and faults. They are stated
of `Spec`, without fairness, so they hold of `FairSpec` as well. The assumptions
say what kind of value a constant is, that a null is none of the values it
stands beside, and that bounds and limits are numbers, positive where the code
demands it; the sets of jobs, instances and codes that are sorted are finite, and
files are sequences of lines. `PagingAssumption` also says that a power of two is
a natural number, about which the provers know nothing. Three go further:
`Mutating \subseteq Protected \subseteq Routes` and `Machines \subseteq Users`
(`RequestPipeline`), read off the route table and the types of principals, and
`MaxAttempts \in 1..5` (`OutboundCall`), which is a check of the configuration.

| Module | Theorem | Statement |
|---|---|---|
| `ImportSystemProofs` | `TypeCorrect` | `Spec => []TypeOK` |
| | `ImplementsLifecycle` | `Spec => LifecycleSpec` |
| | `OptimisticLocking` | `Spec => []ViewIsCurrent` |
| | `ConfirmNotSwallowed` | `Spec => []ReadyAwaitsConfirm` |
| | `NoMessageLost` | `Spec => []QueuedHasMessage` |
| | `ClaimNotForgotten` | `Spec => []RunningHasWorker` |
| | `AttemptsAreConsistent` | `Spec => []AttemptInv` |
| | `ReadyWasValidated` | `Spec => []ReadyIsValidated` |
| | `OnlyConfirmedApplied` | `Spec => []AppliedWasConfirmed` |
| | `ReportMatchesSource` | `Spec => []ReportIsOfSource` |
| | `SuccessIsComplete` | `Spec => []SucceededAppliedSource` |
| | `ResultsDoNotOutlive` | `Spec => []ExpiredResultsGone` |
| | `ExpiryIsDue` | `Spec => ExpiresAfterDeadline` |
| `ProviderSessionProofs` | `SessionsAreConsistent` | `Spec => []SessionsInv` |
| | `NoConnectionLeaks` | `Spec => []PoolIsOpen` |
| | `SessionsImplementExchange` | `Spec => ExchangeSpec` |
| `RequestPipelineProofs` | `OnlyActorsChangeJobs` | `Spec => []ChangesAreAuthorized` |
| | `RecordsAreOwned` | `Spec => []RecordIsOwners` |
| | `ReplaysAreOwn` | `Spec => []ReplayIsOwn` |
| | `KeysAreAcquiredOnce` | `Spec => []AcquiredOnce` |
| `CreateJobProofs` | `CreatesAreConsistent` | `Spec => []CreateInv` |
| | `AnswersAreOwn` | `Spec => []AnswerIsOwnImport` |
| | `KeysNameOneJob` | `Spec => []OneJobPerKey` |
| | `RacesAreSettled` | `Spec => []RaceIsSettled` |
| `EventDeliveryProofs` | `MessageIsFollowed` | `Spec => []WayInv` |
| | `OneClaimPerMessage` | `Spec => []ClaimedOnce` |
| | `StopWaitsForWork` | `Spec => []StoppedIsQuiet` |
| `OutboundCallProofs` | `CallsAreAccounted` | `Spec => []CallInv` |
| | `UnsafeNotRepeated` | `Spec => []UnsafeIsSentOnce` |
| | `NoBodyLost` | `Spec => []BodiesAreAccounted` |
| | `CancelNotBlamed` | `Spec => []CancelIsNoFailure` |
| `ReadersProofs` | `RowNumbersHold` | `Spec => []RowNumbersAreRight` |
| | `LimitsHold` | `Spec => []LimitsAreExact` |
| | `ReadyJobsApply` | `Spec => []ReadyCanBeApplied` |
| | `WalksAreExact` | `Spec => []WalkIsExact` |
| | `PagesAreExact` | `Spec => PageIsExact` |
| | `CatalogsAreExact` | `Spec => CatalogIsExact` |
| `ServiceLifecycleProofs` | `LifecycleIsConsistent` | `Spec => []LifecycleInv` |
| | `WorkIsProvidedFor` | `Spec => []WorkHasResources` |
| | `AcceptedIsRun` | `Spec => []AcceptedRuns` |
| | `ClearIsConsented` | `Spec => []ClearNeedsConsent` |

Where a proof needs an inductive invariant, it has one lemma per action, or per
group of actions that do the same to it, and a theorem of its own; the property
follows from it.

### Rows, versions, messages

One lemma per SQL statement (`...Sets`) says what it does to the row, with the
record type opaque from there on. One lemma per component lifts this to its
actions, and `NextRowStep` sums up every step of the system: all rows stay the
same, or one row moves along an edge of the diagram with a new version (bringing
its message, or its worker, if the new status calls for one), or an expired row
is forgotten. The refinement follows at once. The invariants follow from it with
a strengthening each:

* `OptimisticLocking` needs `ViewBehind`: no client is ahead of the row, and
  where versions agree so do status, attempt and source. It is inductive since
  a row that changes any of them takes a new version.
* `ConfirmNotSwallowed` needs `ConfirmKeyPlaced`, which says in which statuses
  a confirm key can be set at all.
* `NoMessageLost` rests on `AckedNotAwaited`: an acknowledged message is never
  the one that a waiting job waits for, as a handler acknowledges only after it
  found the job not waiting or moved it on.
* `ClaimNotForgotten` rests on `BusyWorkerStep`: a busy worker goes on, leaves
  its job in another status than the one it claimed, or is recorded as lost.

### Objects, provider data, expiry

`ReadyIsValidated` speaks of a worker's last statement, which is right only if
what the worker read hours earlier is still so. `AttemptInv` carries that
through. `AloneOnJob`: as long as no cancel cut it off, a job has at most one
worker, and is in the status that worker claimed. `WorkerHasSource`: the
worker's copy of the checksum, the file in its hands and the objects it has put
are of the source in the row. `BadIsReported` and `ApplyIsConfirmed` keep what a
finished validation, and a confirmation, have established. Each admits that a
cleaner deleted an object (`hist.swept`), which `SweepIsMarked` records before
the first delete.

`FirstInv` adds what is true of a job only until it is retried. A cut is final
(`CutIsFinal`). The provider holds the batches up to the worker's count and no
other (`WrittenSoFar`). Once a deadline for the results is set no worker
validates, so none writes a result (`NoLateValidation`, `NoEarlyResults`). What
a listing says of a deadline stays true while the cleaner works through it
(`ListedIsDue`), and what it deleted stays deleted (`DeletedIsGone`).
`ExpiresAfterDeadline` is an action property: it follows from `ListedIsDue` for
the one step that expires a row. The findings show that both conditions, no cut
and no retry, are needed.

### Provider sessions

`SessionsInv` has three parts. `PoolPart`: the map holds the open connections,
and no two instances share one; without the second half, replacing one entry
could close the connection of another. `SessionPart`: where a session is tells
what it holds (a candidate, an open stream, an attempt that is left, a batch
that is left). `WirePart`: what was acknowledged, or waits to be read as an
answer, is written, and no request in transit is ahead of the batch its session
is at. The last is what makes a late write harmless: it repeats an acknowledged
batch, or writes the one in hand. Under the mapping of `ProviderSession` the
provider's step is then `Write` or a stutter, a matching answer is
`Acknowledge`, the end of a session is `End`, and all else is a stutter.

### Requests and keys

* `PipelineInv`: a request is on the path of its transport and has acquired a
  key only after the elements before `begin` admitted it; a record is that of a
  request that acquired it, finished if the record is; whoever was answered from
  a record has a request whose execution it repeats, which stays where it is
  after the record expired; the requests that acquired a key are finitely many
  and no more than the records of it. `Cardinality` is handled with
  `FiniteSetTheorems`; the set of requests itself may be infinite.
* `CreateInv`: the columns are unique, together with the rows that are inserted
  and not committed (`KeysAreUnique`), and where a request stands between two
  statements tells what it found (`CallInv`): the copy it carries was of its own
  scope and import, and a row found by key keeps that key until a retry replaces
  it or the row is purged (`Freed`); a row that is still there agrees with the
  copy. The three answers to the second read, one per kind of database, are cases
  of one lemma.

### Messages, calls, life cycle

* `DeliveryInv`: the number of claims is a function of the job's status, and a
  handler that runs belongs to a job that was claimed. Nothing is needed of
  leases, copies and deliveries: that a job is claimed at most once rests on the
  conditional claim alone, whatever the outbox and JetStream do.
* `WayInv`: that a queued job's message is not lost does rest on them. What is
  published, sent or remembered has a copy in the stream; a handler works on a
  copy that is there; and a copy is acknowledged only once its job has been
  claimed. Together with `DeliveryInv` this gives the second half of
  `ClaimedOnce`: a queued job's message is due, leased or held. That it is then
  delivered is `JobWakes`, which is model-checked. A held copy that has used up
  `max_deliver` counts as held; `JobWakes` excepts it by name.
* `CallInv`: attempts left at each stage, whose hand a response body is in, the
  breaker's generation as a function of its openings. While the breaker is open
  no call is of its generation, so a late result is not counted.
* `LifecycleInv`: what is built is open, and while hooks are stopped everything
  whose hook is still to run is; only servers whose hook has started have work.
  `NeedsComeFirst` then reads off the order of `Hooks` that whatever a server's
  work needs is stopped after it. `Accepted`, the clauses of `Validate` for the
  profile in force, is carried from loading to the end, for `AcceptedRuns` and
  `ClearNeedsConsent`.

### Sequences, sums and sorted lists

What `Readers` computes is defined over data: bytes summed over lines, rows
selected from a file, a loop over instances, a sorted list. The library's
induction theorems cannot be applied here, because they take a predicate as a
parameter. `LeastNumber` therefore derives the least element of a set of
naturals from `WFMin`, which takes a relation, and `Induction` is its
consequence for a *set* of numbers; each induction defines the set of the
numbers its claim holds of. `Recursion` shows by this induction that a function
over `0..L` that follows given steps exists, so that the `CHOOSE` behind a
recursive function finds it: `BytesUnfold`, `ChosenUnfold`, `JoinedUnfold` and
`SummariesUnfold` are the equations of the four loops. The model writes these
loops as recursive functions, and `Sorted` as the choice of a sequence, for that
reason.

*Sorted lists.* `Place` is the number of elements below an element. In a strict
total order on a finite set it takes each value from 0 to the number of elements
less one exactly once (`PlaceGrows`, `PlaceIsTaken`). So a sorted sequence
exists (`SortExists`), element `n` of any sorted sequence has the place `n - 1`
(`SortedPlaces`), and a slice of it holds the elements whose places are in its
range (`SliceOfSorted`). `PageArithmetic` is about the integers of `Width` bits:
an offset that fits is the exact one.

### Listings

* `ListingInv` ties a walk to the table it reads. While no job has left the
  listing, the jobs that were there from the start and are not yet seen have
  ranks at or beyond the next offset; while none has entered, the jobs that were
  seen have ranks below it. A write that removes no job lowers no rank of
  another one, and one that adds none raises none (`RankGrows`), which is why the
  two halves of `WalkIsExact` have different conditions. `SelectKeeps` is the step
  that reads a page, with the case of the last one.
* `PagesAreExact` and `CatalogsAreExact` are action properties, of the step that
  answers. For the catalog, `SummariesCount` says that after `n` instances a
  dataset was counted once for each of them that offers it, and has the title of
  one of them; it holds for any order in which discovery lists them.

### The parser

`StreamInv` has the invariant of the loop in `Reading`: the rows delivered and
those of the batch in hand are the rows of the lines before the current one, the
bytes read are theirs, all earlier batches were full, and none of these lines
is unreadable. `Stored` is what stays true over both passes: batch numbers, the
error report, and that the normalized file obeys the limits of a source
(`Readable`). The end of the file turns `Reading` into the reference definition
of an acceptable file; an error that ends it early is one that an acceptable
file cannot cause (`DueAcceptable`). `Emit` is one lemma for the full batch and
the last one. `ReadyJobsApply` then needs no further step: the second pass reads
a file that is acceptable by `Readable`, and its output is not limited.

### Model-checked only

* Liveness: `WorkSettles`, `RetentionEnds`, `SessionEnds`, `JobWakes`, `StopEnds`.
  It is outside this prover's reach.
* The findings, which are counterexamples.

## Not modelled

* Health probes read the state of other components. Logging, metrics, tracing,
  pprof and Swagger are output. `docs/` is generated.
* `cache/redis.go` beyond the idempotency records: its lock is constructed and
  nobody takes it.
* Token signatures, JWKS refresh and path patterns are predicates of a request;
  the window counter of the rate limiter is one Lua script in Redis.
* `proto.go` and the body types of the handlers copy fields one to one.
* The inside of the libraries: the outbox store, JetStream (its `max_age`
  included), gobreaker, the migration library, the idempotency manager, fx.

## Plan

Every safety property of the passing runs is proved. What would say more: a
refinement from `EventDelivery` to the delivery of `ImportStore`, which would tie
the two views of a message together, and one from `ImportWorker` to
`BatchExchange` for its batches.
