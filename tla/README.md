# A TLA+ verification of DocLens

DocLens is a document verification platform: a REST gateway and an identity
service in Go, a Document Intake service in Go that owns documents and uploads,
and two Python services that consume the events Intake publishes, Document
Processing (`doclens-ai-service`) and Fingerprint. PostgreSQL holds the
metadata, Cloudflare R2 the bytes, RabbitMQ carries the events.

This directory holds TLA+ modules translated from that code, TLC configurations
that check them on small instances, and TLAPS proofs for every instance.
`PROJECT.json` is the index: components, runs, mutants, the definitions with
the source lines they stand for, findings, hazards and theorems.

    tlc -workers 2 -config MCOutboxShared.cfg Outbox     # a run
    tlc -workers 2 -config MCGateway.cfg MCGateway       # another
    tlapm OutboxProofs.tla                               # the proofs of a component

## 1. Inventory

| Component | State it keeps | Operations | Interacts with |
| --- | --- | --- | --- |
| Outbox publishers (`events/rabbitmq.go`, `rabbit.py`, both repositories) | table `event_outbox`: status, attempt_count, next_attempt_at; one AMQP channel | claim, publish, mark published, mark failed, back off, shut down | the services that insert rows in their own transactions; RabbitMQ; each other, through the one table the local deployment shares |
| Intake: documents and uploads (`service/document.go`, `store/postgres.go`, `store/r2.go`) | tables `documents`, `uploads`, `processing_jobs`, `event_outbox`; the bucket; presigned URLs | CreateDocument, UploadDocument, CreateUploadIntent, CompleteUpload, ConfirmUploadNotification, reads | gateway (gRPC), clients (PUT through presigned URLs), R2 notifications, the outbox |
| Intake: admission (`service/upload_pool.go`) | semaphore, a token bucket per organization, breaker count and time | acquire, release, success, failure | UploadDocument |
| Intake: development adapters (`store/store.go`) | maps and slices under a mutex, files | the same store interfaces | Intake's handlers when nothing else is configured |
| Intake: authorization (`authz/*.go`) | none | read identity metadata, compare organizations, look up roles | every handler of Intake; the gateway's metadata |
| Document Processing worker (`events.py`, `persistence.py`) | unacknowledged deliveries; in memory or in PostgreSQL: consumed events, jobs, results, an outbox of its own | consume, claim, start, complete, fail, release, retry, dead-letter, publish | RabbitMQ, object storage, PostgreSQL |
| Document analysis (`run_pipeline.py`, `*_check.py`) | none | pure functions on bytes | the worker |
| Fingerprint consumer (`rabbit.py`, `service.py`, `repository.py`) | `fingerprints`, `event_inbox`, the shared outbox, one normalized image per document | consume, hash, look for duplicates, save with event | RabbitMQ, object storage, PostgreSQL |
| Identity (`service/identity.go`, `store/*.go`) | users, refresh tokens, in PostgreSQL or in memory | CreateUser, Login, seed | gateway |
| API gateway (`httpapi/*.go`, `auth/jwt.go`, `grpcclient`) | requests under way, connections | limit, authenticate, forward, map errors | Identity, Intake, Verification |
| Gateway: rate limiter (`ratelimit/limiter.go`) | a token bucket per client address | Allow, Cleanup | every request of the gateway |
| Verification stub, frontend, docs site | none | every method Unimplemented; a mock user interface; pages | - |

What is hard here, and where:

* **Two publishers in two languages on one table.** They must not both send a
  row; marks are unconditional UPDATEs; Python threads outlive the `wait_for`
  that started them and write later.
* **Crashes, shutdown and lost connections** between claim, publish and mark.
* **Handlers interleave** at every database and storage call: two
  confirmations of one upload, retries under one idempotency key on the same
  or on another document, a client that writes to the bucket at any time.
* **One of several steps fails:** bytes are stored before the transaction that
  records them; CreateDocument writes two rows without a transaction.
* **Limits:** token buckets, a worker pool, a circuit breaker fed by results
  that arrive late, an exponential backoff.
* **Messages are delivered again:** after a failure, by the worker itself, which
  publishes a copy; after a lost connection or a crash, by RabbitMQ; after a
  timeout, while the thread that outlived it still works on the first one.
* **A request ends before its effect:** the gateway answers after a timeout or
  for a client that has gone while the service goes on.
* **Reads without the lock:** the in-memory store hands out its own slices.

`PROJECT.json` lists each hazard at its line with the properties that would
catch it.

What makes the components correct:

* Publishers: no row is in two hands; nothing is called published that was not
  sent; duplicates only after failures; every event arrives in the end.
* Intake: an upload is accepted once and announced once, in the same
  transaction, with the metadata recorded; a key stands for one upload; a
  document's status, job and `storage_ref` follow its uploads; an event leads to
  stored bytes; tenants are separate; requests end.
* Admission: slots are neither leaked nor freed twice; the rate holds over the
  whole life of a bucket; the breaker opens when it should, and nobody gets past
  it while it is open.
* Development adapters: the same keys, confirmations and files, and a reader is
  never shown a document that its uploads do not explain.
* Worker and Fingerprint: an event is processed to a result, or dead-lettered,
  and its effect happens once; duplicates are linked truthfully, to an original.
* Gateway and Identity: a document is touched only for the organization that the
  token names; clients are told what has happened; accounts, tokens and rates
  stay consistent.

## 2. Plan

1. `Outbox` - the publishers; `OutboxProofs`. **Done.**
2. `Intake` - documents and uploads; `UploadLedger` - what Intake promises;
   `IntakeLedger` - the refinement; `MCIntake`; `IntakeProofs`,
   `IntakeLedgerProofs`. **Done.**
3. `UploadPool` - admission; `UploadPoolProofs`. **Done.**
4. `Processing` - the worker; `ProcessingProofs`. **Done.**
5. `Fingerprint` - the consumer and its duplicates; `FingerprintProofs`. **Done.**
6. `RateLimiter`, `Identity`, and `Gateway`, which composes the two with the
   authorization of Intake and the stub; `GatewayProofs`. **Done.**
7. `LocalIntake` - the development adapters; `LocalIntakeProofs`. **Done.**
8. Every safety property that a run checks is a theorem, and so are the action
   property and the refinement. Left: facts about the code that the proofs
   brought up and no run states yet, such as what each publisher may do to a
   row it does not hold.

`UploadLedger` is the abstract specification; `LocalIntake` issues no notices and
does not implement it. An end-to-end composition of `Outbox`, `Processing` and
`Fingerprint` is not planned: the events that one publishes are refused by the
next (section 6), so it would describe a system that does not run.

## 3. Modules and code

### Outbox

State: the columns `status`, `attempts`, `delay` (ticks until
`next_attempt_at`); per publisher its place in the loop (`pc`), the records
claimed and not finished (`batch`), the record of the current iteration
(`cur`), its `channel` and its context (`ctx`); the threads that outlived their
timeout (`lateClaim`, `lateMark`); the messages on a connection (`wire`), and
two counts per row, `handed` (publish calls that put the message on its way)
and `delivered` (copies the broker has). `handed`, `delivered` and `faults`
are history variables.

| Action | Code |
| --- | --- |
| `Claim`, `ClaimLost` | `ClaimOutbox` / `claim_outbox`: one statement, FOR UPDATE SKIP LOCKED; the commit may succeed while the caller sees an error |
| `GoPublish`, `GoPublishError` | `Publish`: returns once the frame is written; fails on a closed channel |
| `PyPublish`, `PyPublishTimeout` | aio_pika with confirms, under `wait_for` |
| `MarkPublished`, `MarkPublishedError`, `MarkFailed` | the two marks; an error of the first leads to the second |
| `GoMarkFailedError`, `PyMarkFailedError` | the Go loop logs and goes on, the Python loop is left |
| `PyClaimTimeout`, `PyLateClaim`, `PyMarkTimeout`, `PyLateMark` | `wait_for(to_thread(...))` gives up, the thread does not |
| `GoDrop` | the connection is lost; it is dialled once and never again |
| `GoShutdown`, `GoMarkCancelled`, `GoExit` | SIGTERM cancels the context; statements fail at once; `main` does not wait for the publisher |
| `Crash`, `Restart` | a process dies; a new one starts, and nothing looks at rows left `publishing` |

The order of due rows and within a batch is left open, so the properties hold
for every order. Payloads are row ids.

### Intake

State: the four tables, the bucket (`objects`), the presigned URLs that have
not expired, and per handler its place, its request and local variables,
whether it holds the document's row lock, and how it ended. A handler is split
exactly where it talks to PostgreSQL or R2. `Abort` stops it at any such point
and rolls its transaction back; it stands for an error of the database or the
storage, a cancelled request and a dying server alike. A transaction is one
action when nothing it reads can change between its first lock and its commit.
`UploadDocument` is two (`UploadLookup`, `UploadInsert`), because the lock it
takes is on the document while the key it looks up belongs to the organization.

`WithKey` is the lookup by key and `IndexAdmits` the unique index. `Put` names
an object after the document and the content, `PresignPut` after the document
and the upload id, which is what `PutRef` and `PresignRef` say. A content is a
size and a digest: all that the code compares. The admission by the pool is a
component of its own, and a refusal there changes nothing here.

`MinRowSize` is the least `size_bytes` that the schema's CHECK accepts. With the
repository's schema (1) no intent can be inserted at all (section 6);
`intake_answer` uses this value. The other runs use 0, the schema in which the
intent path works, so that the path's concurrency is checked too.

### UploadLedger, IntakeLedger

`UploadLedger` is the promise, in two actions: an upload may be intended, with a
target settled from then on, and is accepted at most once, in a step that also
issues its one notice. `IntakeLedger` maps rows of `uploads` to entries and rows
of `event_outbox` to notices; `ImplementsLedger` is the refinement.

### UploadPool

`upload_pool.go` whole: `Acquire` and `Refuse` are the two outcomes of
`acquire` that change state (with an open circuit it returns before it touches
anything); `PutSucceeds` and `PutFails` are `success` and `failure` where
UploadDocument calls them, `Release` the deferred `release`. Tokens are counted
in whole units (`Unit` of them make a token) in place of floating-point
fractions. `born`, `admitted`, `streak` and `trips` are history variables; the
last two record failures in a row, and when such a row was complete, without
looking at the breaker's own count. `BreakerCounts` compares `openUntil` with
them, and `RefusesWhileOpen` is about `acquire` and the history alone.

### LocalIntake

The same handlers with `MemoryStore` and `LocalObjectStorage`. A critical section
is one step, so handlers are split where the mutex is free or a file is touched.
Two things are finer than in `Intake`. `GetDocument` returns a struct whose slice
of uploads is the store's own, and `ConfirmUpload` writes into that slice: `Seen`
gives a later unlocked read of a string the old value, the new one or `Torn`.
And `os.WriteFile` truncates before it writes (`PutOpen`, `PutWrite`).

| Action | Code |
| --- | --- |
| `CreateEmpty`; `CreateWithContent`, `PutOpen`, `PutWrite`, `InsertDoc`, `Record` | CreateDocument, without content or with it: `CreateDocumentAndQueue` is two critical sections |
| `UploadDocument`, `PutOpen`, `PutWrite`, `Record` | UploadDocument: the key is compared, the file written, the key compared again under the lock |
| `CreateUploadIntent`, `RecordIntent`, `ClientPut` | the intent, and the client writing to its `file://` URL, which never expires |
| `CompleteUpload`, `FindUpload`, `Head`, `ConfirmUpload` | CompleteUpload and the notification that calls it |
| `GetDocument`, `ToProtoDocument` | GetDocument, which converts the document without the lock |
| `StorageFails`, `Restart` | a file system error; a process started anew, without metadata |

### Processing

State: the queue (messages with `x-retry-count`), the dead-letter queue, the tasks
of the event loop with their delivery, `stale` (tasks whose channel is gone: their
message is back in the queue), and the in-memory repository. The tasks run on one
event loop, so a step runs up to an await that waits.

| Action | Code |
| --- | --- |
| `Arrive` | an event from Intake's outbox, at least once (external) |
| `Consume` | `_consume` and `handle` up to the first storage access: a bad envelope raises, a claimed event is a duplicate, otherwise claim and start |
| `Complete`, `Fail` | the rest of `handle`: `complete_job`, or `fail_job` and `release_event` |
| `Ack`, `Retry`, `AckOld`, `Reject` | `_consume`: the acknowledgement is inside the try; retries are published anew and the old message acknowledged; a republish that raises leaves it unacknowledged (`unacked`), counted against the prefetch; the last failure is rejected into the dead-letter queue |
| `PublishOutbox`, `PublishFails` | `publish_outbox`; after too many failures an item is dropped |
| `Crash`, `Drop` | the process dies with its memory; the connection is lost and made again. RabbitMQ takes back what is unacknowledged |

`durable` chooses the repository. `PostgresRepository` closes its connections
without a commit except in `complete_job`, so nothing it writes stays, and
`complete_job` fails on the foreign key to a job that was rolled back: with it
`Complete` is never enabled.

### Fingerprint

State: the queue, threads with their event and upload, `waiting` (threads for
which a handler still waits), the three tables and the normalized image. A
content is what its hashes can tell: equality, and the relation `Similar` for the
two distance thresholds.

| Action | Code |
| --- | --- |
| `Handle`, `Timeout`, `Return` | `handle`: `wait_for` a thread; on a timeout the message is requeued and the thread runs on |
| `ProcessUpload`, `FindCandidates`, `SaveUpload` | `process_upload` split at storage and database: read and normalize, search, save |
| `Save` | `save_with_outbox`: one transaction; an id already in the inbox rolls back |
| `Raise`, `Crash` | an error, perhaps after a commit; the process dies |

Which of several matches is chosen is left open (the code takes the newest), so
the properties hold for every choice.

### RateLimiter, Identity, Gateway

`RateLimiter` is `Allow` and `Cleanup`, in whole units like the pool, and has a
specification of its own, `LimiterSpec`: requests, the clock, clean-ups and a new
process. (Nothing calls `Cleanup`; the specification calls it with ages in which
an empty bucket fills up, since a shorter one would hand out full buckets.)
`since` is its history: for each address and time, the requests that were let
through from then on, so that the bound is stated for every interval and not
only for the life of a bucket. `Identity` has the accounts and the refresh
tokens, with both stores, and works on calls (`call[c]`). User ids are numbers
that are never drawn twice, as random ids are: a creation that is repeated or an
account that is seeded again has a new id. `Gateway` extends both: it admits a request, checks its token, lets
the handler of its route make its call and answers it.

| Action | Code |
| --- | --- |
| `Throttle`, `Refuse`, `Serve` | the middleware and the handler up to its remote call: 429, 401 or 400, or a call under way; only the bucket is shared up to that point |
| `Reply`, `GiveUp`, `Finish` | the answer; an answer without the result (timeout, client gone, connection broken), after which the call may still take effect |
| `CreateUser`, `Login`, `SaveRefreshToken` | Identity's handlers; a PostgreSQL commit may succeed while its answer is lost |
| `IntakeRefuses`, `IntakeCreates`, `IntakeFindsNothing`, `IntakeUploads`, `IntakeReads`, `IntakeFails` | Intake as the gateway sees it: `authz.Require`, then an effect on a document of that organization or an error; the effects themselves are `Intake`. An upload is answered OK whether or not it was recorded, as when its key is found (section 6) |
| `Unimplemented`, `Unreachable` | the stub; a service that cannot be reached |
| `StopIdentity`, `StartIdentity`, `StopGateway`, `StartGateway` | processes stop, with their calls, and start: seeded, with empty buckets and, in memory, without accounts |

A token is its claims: signatures are not broken. A role is the set of the words
between its commas, because the gateway joins roles by commas and Intake splits
them. `held` are the tokens clients were given; `accounts`, `served`, `since` and
the field `done` of a call that is over are history.

`AnswersAreTrue` compares what a client may be told with the tables: after a
success the session is saved, the account with the requested organization and
roles is on record, or the document belongs to the caller's organization; after
a refusal this request has changed nothing. An upload's 202 promises no more than
that its document is the caller's.

## 4. Runs

| Run | Instance | Shows |
| --- | --- | --- |
| `outbox_shared` | a Go and a Python publisher, 2 rows, any 3 faults of all 7 kinds | `ExclusiveClaim`, `PublishedWasHanded`, `DuplicatesNeedFaults` hold |
| `outbox_live` | the same, up to 2 faults of publishing and marking | `EventuallyPublished`: every event is delivered and its row settles |
| `outbox_crash` (violation) | one Go publisher, one crash | a row claimed before the crash is never delivered |
| `intake_one_document` | 1 document, 3 requests of any operation, 1 key, 2 contents | rows, events, document and objects agree; the ledger is implemented |
| `intake_tenants` | 2 organizations, 2 documents, 2 requests, 1 key | without a common lock keys still stand for one event, tenants stay separate, and `RequestsEnd`: nobody waits for ever |
| `intake_answer` (violation) | 2 uploads race under one key | the loser is answered with an upload id that does not exist |
| `pool` | 3 clients, 2 organizations, 2 workers, 4 ticks | slots and rates are right, the circuit opens at every full row of failures and admits nobody while it is open |
| `limiter` | 2 addresses, 5 ticks, burst 2, 1.5 tokens per tick | `AddressRateBound`: no interval has more admissions than burst and rate allow |
| `gateway` | 2 callers behind 1 address, 2 organizations, 2 addresses of accounts, either store, 1 stop | answers are true, documents are served for their owner, accounts are unique, tokens backed |
| `local_adapters` | 1 document, 3 requests, 2 organizations, 1 key, 1 file name, 2 sizes, 1 restart | keys, confirmations and files are consistent, also for readers without the lock |
| `processing` | 1 event delivered up to twice, 2 tasks, 2 retries, 1 crash, 1 lost connection, either repository | `NotLost`, `ProcessedOnce`, `DeadLetterEarned`, and `Settles`: every event ends unless its message stays unacknowledged |
| `fingerprint` | 3 documents (x; x; y then x), 3 threads, 2 faults | an upload is saved and announced once, no event is dropped, links are true and lead to an original |

**Bounds.** Two rows and one publisher of each kind are enough for every pair
of steps to interleave, on one row and across the rows of a batch; a third
fault lets a late thread meet a row that was failed and claimed anew.
`BackoffCap` and `AttemptCap` are 1 and 2 in place of 6: what matters is that a
delay is longer for later attempts and stops growing. `Limit` is 2: batches of
one and of several. In Intake three requests allow an intent and two racing
confirmations, or a retry behind a lock; two documents are needed for the key
to be used across them. `intake_tenants` is about liveness too and cannot use
symmetry: `FewRequests` in `MCIntake` lets the first of two interchangeable
documents, requests and organizations be used first, which loses nothing, and has
the documents created empty and before the uploads begin; the other orders, on
one document, are in `intake_one_document`. Contents differ in their digests,
and `Size` has one element: a confirmation with another checksum takes the path of
one with another size (`Mismatch`), and the proofs are about any contents. In the pool `Burst` and `Workers` are 2 so that either can
run out first, and `MaxTime` 4 lets the circuit open, close and open again;
`MaxTime` bounds the clock, and with it, through the tokens, everything else.
In the gateway one caller uses all routes (two of the eight make the same calls as
two others and are left out) while the other creates accounts, the only operation
of another caller that can meet the first one's; a burst of 2 lets the bucket run
out, one tick lets a token expire, one stop hits either process. Refills are the
business of `limiter`, where a bucket that was emptied is full again, and capped,
after two of the five ticks, requests are paid for by refills, halves of tokens
remain, and clean-ups drop buckets of either address. The earlier accounts are none, one with an empty organization, or one in
each organization. `local_adapters` has one file name, so that uploads overwrite
each other, and three requests for an intent, a confirmation and a reader or
second confirmation. `processing` has one event, because its events share only
the prefetch limit; two tasks and two copies let a duplicate meet the first
delivery, and MaxAttempts 2 has a first, a middle and a last attempt. In
`fingerprint` two faults make a timed-out thread meet the redelivered message
twice, and three threads serve two such copies and another document. The largest
run, `gateway`, has 1.6 million states.
Symmetry is used where all properties are safety properties, and its sets are
interchangeable in every definition.

Deadlock is not checked: a finished system has nothing left to do (all rows
published, all requests answered, all messages settled, the clock at its bound).
That nothing stops *early* is what `EventuallyPublished`, `RequestsEnd` and
`Settles` are for.

**Fairness.** `Outbox`: the clock goes on, the broker reads its connections, a
live publisher takes the next step of its loop, a thread that was started ends
(`statement_timeout` and the server see to it), a process that is down is
started again. `docker-compose.local.yml` has no restart policy, so restarting
is up to an operator; it makes the violation of `outbox_crash` stronger (not
even a restart helps) and is not used by `outbox_live`, where nothing dies. No
fault is ever forced or excluded by fairness; `outbox_live` limits their kinds to
those a claimed row survives. `Intake`: a server runs the handlers it has
started; clients are never obliged to do anything. `Processing`: RabbitMQ delivers
a message that waits while a task is free, a task goes on when its await is over
(storage and broker calls end, one way or the other), and the publisher polls
every second; whether a step succeeds or fails is never settled by fairness.

## 5. Proofs

Eight modules hold the theorems, one for each specification; those of
`RateLimiter` and `Identity` are in `GatewayProofs`, because `Gateway` composes
the two; `LimiterHolds` is about the limiter's own specification. Every theorem is about all behaviours of the
specification that the runs check, for every value of the constants that satisfies
its named assumptions.

| Module | Theorem | `Spec =>` |
| --- | --- | --- |
| `OutboxProofs` | `TypeCorrect`, `ClaimsExclusive`, `PublishedAfterSend`, `DuplicatesBounded` | `[]TypeOK`, `[]ExclusiveClaim`, `[]PublishedWasHanded`, `[]DuplicatesNeedFaults` |
| `IntakeProofs` | `TypeCorrect`, `OutboxTransactional`, `KeyAnnouncedOnce`, `DocumentFollows`, `AnnouncedStored`, `TenantsIsolated` | `[]TypeOK`, `[]TransactionalOutbox`, `[]OneEventPerKey`, `[]DocumentFollowsUploads`, `[]AnnouncedBytesStored`, `[]TenantIsolation` |
| `IntakeLedgerProofs` | `Refinement` | `ImplementsLedger` |
| `UploadPoolProofs` | `TypeCorrect`, `SlotsHeld`, `RateHolds`, `BreakerRight`, `OpenRefuses` | `[]TypeOK`, `[]SlotsAreHeld`, `[]RateBound`, `[]BreakerCounts`, `RefusesWhileOpen` |
| `LocalIntakeProofs` | `TypeCorrect`, `KeysUnique`, `StatusExplained`, `FilesStay`, `ConfirmationStays` | `[]TypeOK`, `[]OneUploadPerKey`, `[]ShownIsExplained`, `[]ConfirmedHasFile`, `ConfirmedOnce` |
| `ProcessingProofs` | `TypeCorrect`, `NothingLost`, `OneResult`, `DeadLettersEarned` | `[]TypeOK`, `[]NotLost`, `[]ProcessedOnce`, `[]DeadLetterEarned` |
| `FingerprintProofs` | `TypeCorrect`, `AnnouncedOnce`, `NothingDropped`, `LinksTrue`, `LinksEnd` | `[]TypeOK`, `[]SavedOnce`, `[]EventKept`, `[]LinkIsTrue`, `[]LinksWellFounded` |
| `GatewayProofs` | `TypeCorrect`, `RateHolds`, `AccountsUnique`, `TokensBacked`, `OwnersServed`, `AnswersTrue` | `[]TypeOK`, `[]AddressRateBound`, `[]OneAccountPerEmail`, `[]TokensAreBacked`, `[]ServedForOwner`, `[]AnswersAreTrue` |
| `GatewayProofs` | `LimiterHolds` | `[]AddressRateBound`, from `LimiterSpec` |

Each proof has the same shape: an inductive invariant `IInv`; a lemma per action
that the action keeps it, with a step per conjunct that the action can disturb;
`Inductive`, which puts the lemmas together; and theorems that read a property off
`IInv`. Where many handlers interleave, a frame lemma says once what a step of one
leaves alone of the others (`Steady` in `IntakeProofs`, `Around` in
`LocalIntakeProofs`), so that the lemma of an action is about its own handler.

**Outbox.** None of the last three properties is inductive. `IInv` adds:

* `LoopShape`: a publisher inside its loop has a current record, which is in its
  batch; outside it has neither. Otherwise a mark could hit any row.
* `PyLive`: nothing ever cancels a Python publisher's context. The marks of a
  cancelled publisher do not reach the table, which `PaidFor` has to tell apart.
* `SentBeforeMark`: where a publisher is about to mark a record published, and
  where a late thread still has to, the row's message was sent. This carries
  `PublishedWasHanded` across the steps between publish and mark.
* `PaidFor`: a row that may still be sent again has been sent at most once per
  fault. Such rows are those a claim can take, the claimed records whose turn
  has not come, and the record a live publisher is about to mark failed; only a
  row just sent, or settled, may be one ahead. It needs `ExclusiveClaim`: with
  two holders of a row one fault would pay twice.

**Intake.** `IInv` says what each handler knows and has done at each of its steps
(`Creating`, `Uploading`): until it ends it has written neither its upload nor its
event (`Unwritten`), the document it addresses was created for its caller
(`Addressed`), and the object it is about to record is stored. `RowKept` carries
that over to rows, `Bucket` says that presigned URLs never reach an object that
Put named, and `TransactionalOutbox` is split into `EventTrue`, `EventsDiffer` and
`Announced`, which single steps can be checked against. `KeysUnique` is the
unique index. The proof of `OneEventPerKey` needs no lock: the index alone is
enough.

**Refinement.** A step of `Intake` under `IInv` and `IInv'` maps to `Intend` or
`Accept` of the ledger, or changes nothing of it. The interesting case is the
confirmation: the row is still pending under the lock, so the ledger's entry is
not accepted yet, and the target is the one of the intent.

**UploadPool.** The bound on rates is inductive with the history that it needs:
buckets were refilled in the past, and nobody was let through without one. The
breaker's invariant says that `openUntil` is `OpenDuration` after the latest of
`trips`, which lie in the past: without it a trip could be forgotten under a later
one. The arithmetic (products, and counting modulo the threshold) is proved as
lemmas first.

**RateLimiter.** What an address was let through in an interval, plus what its
bucket would hold now, is at most the burst plus the refill of the interval
(`Bucket`). An admission moves a token from one to the other, the clock lets both
sides grow, and the cap only helps; a clean-up is harmless because the bucket
would be full by then. The bound follows since a bucket never holds less than
nothing.

**LocalIntake.** `UploadOK` says of every record that its handler has ended and
that its file is there; `Storing` and `Confirming` say what a handler holds between
critical sections. Two facts make the races harmless. A copy of a document may
differ from the store only where an upload has been confirmed since (`CopyOK`), so
a record once confirmed is seen whole; and a torn checksum can only have been read
of a record that is confirmed by now, which `ConfirmUpload` then refuses
(`Confirming`). `Explained` is the status of the document that nobody was told of
before its upload was recorded. `ConfirmationStays` is an action property: its step
uses `IInv` for the fact that handlers on their way have no record yet.

**Processing.** `NotLost` is not inductive, since a task that only has to
acknowledge an event counts as having it in its hands; `Safe` does without these.
`Claims` ties the claims of the in-memory repository to the tasks at work and to
results: a claim that outlives its task would swallow the retry. A message that
stays unacknowledged is with its task for this purpose (`Holding`), until a crash
or a lost connection puts it back. `RetriesEarned`
bounds `x-retry-count` by the attempts that failed.

**Fingerprint.** `Working` says that a thread has saved the uploads before the one
it is at, and that what it found is true when it saves, although rows change in
between. `LinksWellFounded` is kept because a document without a row has nothing
that leads to it: the first save of a document cannot close a circle.

**Gateway.** `CallOK` ties the metadata of a call under way to the token it came
with and that token to an account; `ResponseOK` ties the code of an answer to
`Holds`, which later steps keep because records only grow (`Grows`); `Unique` says
that two users in the store differ in their addresses, and the store on PostgreSQL
has every account ever made, so that no later creation, whatever id it draws,
replaces one.

**Assumptions.** Besides ranges of configuration values: `None`, `Torn` and
`Blanks` are no ids, keys, digests, records or messages (they stand for the absence
of a value or for half of one); `Doc` and `Req` are disjoint, because generated ids
carry a prefix of their own and random digits; `ContentAssumption`: what Put and
PresignPut end an object key in differs; `WorkerAssumption`, `TaskAssumption`,
`ClientAssumption`: threads, tasks and clients are finitely many; `IdentityAssumption`:
the accounts on record at the start differ in their addresses, as the unique
index has it. `PowerAssumption` states that powers of two are natural numbers, a
fact about `^` that the provers do not know. TLC evaluates all of them in the runs.

Two things about the models came out of the proofs. The cases of `Answers` in
`Gateway` overlapped, which TLC resolves silently by taking the first; it is an
IF now. And `ConfirmedHasFile` relied on file names and upload ids being disjoint:
a client may choose a file name that equals an upload id, so that Put writes the
path behind another upload's URL. The property now speaks of paths for which no
URL was given, and holds without that assumption.

**Only model-checked:** the liveness properties `EventuallyPublished`, `RequestsEnd`
and `Settles` (fairness and ENABLED are out of the prover's reach), and the two
violations. No module has a RECURSIVE operator.

## 6. What the code does that its documents do not say

Each is a violation run with a finding in `PROJECT.json`:

* `outbox_crash`: rows left `publishing` are never taken up again.
* `intake_answer`: an upload that loses a race under its key is answered with
  an id that names no upload.

Observations from reading, without a run of their own:

Publishers and Intake

* The Go publisher dials once (`rabbitmq.go:20`): after a lost connection the
  outbox does not drain any more, while
  `prompts/DocLens_Document_Intake_Build_Prompt.md:170-171` wants uploads to
  survive a RabbitMQ that is "temporarily unavailable". Its channel is not in
  confirm mode (`rabbitmq.go:48`): a frame lost with its connection leaves its
  row `published`. `GoDrop` models both, which is why `PublishedWasHanded` speaks
  of sending and not of delivery.
* The schema's `CHECK (size_bytes > 0)` (`001_initial.sql:43`) refuses the row of
  every intent, whose size is 0 (`postgres.go:240`): with PostgreSQL the "primary
  upload path" of the service's README (line 62) does not work.
* HEAD does not ask for a checksum (`r2.go:60`), so a declared one is compared
  with nothing, while the README (lines 63-64) says that HEAD "matches the
  declared size/checksum".
* A presigned URL stays usable after the confirmation, up to fifteen minutes
  (`document.go:356`), while the service's README (line 67) calls the
  `storage_ref` write-once. `ClientPut` models it; `AnnouncedBytesStored`
  therefore promises the very bytes only for objects the service stored.
* Buckets limit rates, not workers: with 8 workers and a burst of 10, one
  organization can hold the whole pool (`upload_pool.go:59`), while
  `prompts/Doclens_view_pool_specs.md:107` wants "one noisy tenant cannot starve
  others".
* `LocalObjectStorage.Put` overwrites an earlier upload of the same file name
  (`store.go:262`); `ConfirmedHasFile` promises the bytes only while no one else has
  opened the path or was given its URL. `MemoryStore.ConfirmUpload` does not set the document's
  `StorageRef`, and keys are compared within one document, not within the
  organization as in PostgreSQL.
* `GetDocument` and `CompleteUpload` read the slice of a `MemoryStore` document
  without its lock (`store.go:121`): a data race, whose torn values the checked
  properties survive because `ConfirmUpload` looks again under the lock.

Processing and Fingerprint

* With PostgreSQL the worker persists nothing and every event ends in the
  dead-letter queue: connections are closed without a commit
  (`persistence.py:28-39`), and `complete_job` then violates the foreign key to
  its job. `doclens-ai-service/README.md:18-21` says that it persists
  jobs, results and outbox records, line 32 that "Duplicate `event_id` delivery
  is ignored".
* The worker accepts references that begin with `{organization}/`
  (`events.py:71`); Intake makes `organizations/{organization}/...` in R2 and
  absolute paths locally. Each such event fails until it is dead-lettered.
* The DocumentProcessed events have no `storage_ref` (`events.py:93`), which
  Fingerprint requires (`service.py:28`); it raises and requeues them for ever,
  without a limit. Its README (line 4) says that it consumes DocumentUploaded.
* After a lost connection the redelivered copy is acknowledged as a duplicate
  while the first attempt still runs; should that fail and its copy not be
  published, the event is lost. `NotLost` and `DeadLetterEarned` are therefore
  stated for connections that hold.
* When the republish of a failed message raises on a live connection
  (`events.py:212`: the broker refuses it, or the publisher's own channel is
  closed), `_consume` ends with the message unacknowledged. It is neither retried
  nor dead-lettered until the connection is lost or the worker restarted, and takes
  one place of the prefetch, while `doclens-ai-service/README.md:30-32` says that
  "failed messages are retried with bounded exponential backoff and then rejected".
  `Retry` models it. `NotLost` holds nevertheless; `Settles` is stated for
  behaviours in which no message stays like that for good.
* An item of the in-memory outbox is dropped after `retry_max_attempts` failures
  to publish it.
* Two identical documents processed at the same time may both stay unlinked
  (`service.py:53`), since the search and the save are separate; what holds is
  `LinkIsTrue` and `LinksWellFounded`. A document with a second upload may close a
  circle, which `LinksWellFounded` allows for. The row of a document is that of the
  upload saved last, and all uploads share one `normalized.png`.

Gateway and Identity

* The seeded development administrator has the role `admin` (`identity.go:110`),
  to which `authz.go:50-59` grants nothing; `docs-site/README.md:37-38` creates a
  document with its token.
* `CreateUser` checks the organization before it trims it (`identity.go:39`, `:56`):
  blanks make an account with an empty organization. `ServedForOwner` holds
  nevertheless, because Intake refuses empty organizations.
* Calls to Verification carry no identity metadata.
* The pool's ResourceExhausted and gRPC's Canceled become 502 (`errors.go`), not
  429 and 408.
* The limiter's `Cleanup` is never called, so that its map only grows, and a
  restart fills all buckets: `AddressRateBound` is about one process.
* Accounts of the memory store are gone after a restart while their tokens are
  still accepted. `TokensAreBacked` and `ServedForOwner` speak, for that store, of
  every account it has had.

## 7. Not modelled

Image and text analysis and hashing (numerical libraries, no state; the models
keep their outcome), password hashing (right or wrong), configuration (constants
of the models), metrics, logging, health and readiness endpoints (write-only or
reads), code generated from the protobuf files except for the calls the gateway makes
through it, the frontend (a mock without calls to the services) and the
documentation site. The effect of a request on Intake's tables is in `Intake` and
`LocalIntake` and not repeated in `Gateway`, which has the ownership of documents
only.

Details of modelled code that are left out, and why the properties do not need
them:

* Refresh tokens (`SaveRefreshToken`): a row is the access token issued with it,
  so two logins to one account within a tick are one session. The two errors of
  `identity.go:82-88`, before the save, are the same as a save that fails without
  an effect; with the memory store, whose save cannot fail, they are left out.
* `PutRef`: the object key has eight bytes of the digest and the file name
  (`r2.go:34`); here it has the content, which supposes that contents of one
  document do not collide in these bytes. The file name could only separate objects
  further.
* `UploadLookup`, `IntentLookup`: the store compares the document's organization
  once more (`postgres.go:342-344`, `211-217`). A document never changes its
  organization, so this repeats the handler's check.
* The wait of an insert for another transaction that holds the same entry of the
  unique index: `UploadInsert` and `IntentInsert` decide at once.
* `Key`: an event without an `event_id` is not deduplicated at all
  (`service.py:34-35`); the events of Document Processing have one.
* `Candidates`, `Chosen`: only the newest 1000 rows are examined
  (`repository.py:54`); with fewer documents this is all of them.
