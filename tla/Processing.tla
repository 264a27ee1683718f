---------------------------- MODULE Processing ----------------------------
(***************************************************************************)
(* The Document Processing worker: the RabbitMQ consumer with its retries  *)
(* and dead letters, the handler of DocumentUploaded events, the           *)
(* repository, and the publisher of DocumentProcessed events.              *)
(*                                                                         *)
(* Deliveries are handled by concurrent tasks of one event loop: a step    *)
(* runs to the next await that really waits (storage, broker, sleep).      *)
(* Calls of InMemoryRepository never wait.  Those of PostgresRepository    *)
(* do, and leave nothing behind: a connection is closed without a commit,  *)
(* except in complete_job, whose transaction fails because the job it      *)
(* refers to was never committed.                                          *)
(***************************************************************************)
EXTENDS Naturals, FiniteSets

CONSTANTS
  Event,       \* DocumentUploaded events
  Task,        \* tasks of the event loop
  Prefetch,    \* rabbitmq_prefetch
  MaxAttempts, \* retry_max_attempts
  MaxCopies,   \* bound: how often an event is delivered to the queue
  MaxCrashes,  \* bound: how often the worker dies
  MaxDrops,    \* bound: how often its connection to RabbitMQ is lost
  None         \* no value

ASSUME ProcessingAssumption ==
  /\ None \notin Event
  /\ Prefetch \in Nat \ {0} /\ MaxAttempts \in Nat
  /\ MaxCopies \in Nat /\ MaxCrashes \in Nat /\ MaxDrops \in Nat
ASSUME TaskAssumption == IsFiniteSet(Task)

\* A message: its event and its header x-retry-count.
Msg == [event: Event, retries: 0 .. MaxAttempts]
ASSUME MsgAssumption == None \notin Msg

VARIABLES
  durable,   \* database_url is set: PostgresRepository, else InMemoryRepository
  malformed, \* events whose envelope the handler does not accept
  queue,     \* messages waiting in the queue, with their number
  pc,        \* where each task is; "unacked" when it is over but its message is
             \* neither acknowledged nor rejected
  msg,       \* the delivery it handles
  stale,     \* tasks whose channel is gone: RabbitMQ has taken their message back
  claimed,   \* InMemoryRepository.events
  jobs,      \* InMemoryRepository.jobs
  outbox,    \* InMemoryRepository.outbox: items for each event
  attempts,  \* attempts of these items
  dlq,       \* events in the dead-letter queue
  copies,    \* how often each event was delivered to the queue
  crashes, drops,
  made,      \* history: results recorded for each event by this process
  failures,  \* history: failed attempts on each event, up to MaxAttempts + 1
  fate       \* history: what became of the announcements of each event

broker == <<queue, dlq, copies>>
memory == <<claimed, jobs, outbox, attempts, made>>
config == <<durable, malformed>>
faults == <<crashes, drops>>
vars == <<durable, malformed, broker, pc, msg, stale, memory, crashes, drops, failures, fate>>

TypeOK ==
  /\ durable \in BOOLEAN /\ malformed \subseteq Event
  /\ queue \in [Msg -> Nat]
  /\ pc \in [Task -> {"idle", "work", "ack", "retry", "ackOld", "unacked"}]
  /\ msg \in [Task -> Msg \cup {None}]
  /\ stale \subseteq Task
  /\ claimed \subseteq Event
  /\ jobs \in [Event -> {"none", "processing", "processed", "failed"}]
  /\ outbox \in [Event -> Nat] /\ attempts \in [Event -> 0 .. MaxAttempts]
  /\ dlq \subseteq Event
  /\ copies \in [Event -> 0 .. MaxCopies]
  /\ crashes \in 0 .. MaxCrashes /\ drops \in 0 .. MaxDrops
  /\ made \in [Event -> Nat] /\ failures \in [Event -> 0 .. MaxAttempts + 1]
  /\ fate \in [Event -> SUBSET {"announced", "given up", "forgotten"}]

Zero == [e \in Event |-> 0]

Init ==
  /\ durable \in BOOLEAN /\ malformed \in SUBSET Event
  /\ queue = [m \in Msg |-> 0] /\ dlq = {} /\ copies = Zero
  /\ pc = [t \in Task |-> "idle"] /\ msg = [t \in Task |-> None] /\ stale = {}
  /\ claimed = {} /\ jobs = [e \in Event |-> "none"]
  /\ outbox = Zero /\ attempts = Zero /\ made = Zero
  /\ crashes = 0 /\ drops = 0
  /\ failures = Zero /\ fate = [e \in Event |-> {}]

-----------------------------------------------------------------------------
(* Helpers *)

Goto(t, label) == pc' = [pc EXCEPT ![t] = label]

\* _consume returns, or raises: the task is over.
End(t) ==
  /\ Goto(t, "idle")
  /\ msg' = [msg EXCEPT ![t] = None]
  /\ stale' = stale \ {t}

Put(m) == queue' = [queue EXCEPT ![m] = @ + 1]

Failed(e) ==
  failures' = [failures EXCEPT ![e] = IF @ <= MaxAttempts THEN @ + 1 ELSE @]

\* claim_event without the inbox.
NeverClaimed(e) == TRUE

\* claim_event returns True: always, when its INSERT is rolled back.
Unclaimed(e) == durable \/ e \notin claimed

\* start_job
StartJob(e) ==
  /\ claimed' = IF durable THEN claimed ELSE claimed \cup {e}
  /\ jobs' = IF durable THEN jobs ELSE [jobs EXCEPT ![e] = "processing"]

\* fail_job under a status of its own.
FailJobRetrying(e) == jobs' = IF durable THEN jobs ELSE [jobs EXCEPT ![e] = "retrying"]

\* fail_job
FailJob(e) == jobs' = IF durable THEN jobs ELSE [jobs EXCEPT ![e] = "failed"]

\* The claim outlives the failure.
KeepClaim(e) == UNCHANGED claimed

\* release_event
ReleaseEvent(e) == claimed' = IF durable THEN claimed ELSE claimed \ {e}

\* Whether a message is to be retried, with one attempt too few.
MayRetryLess(m) == m.retries + 1 < MaxAttempts

\* retries < retry_max_attempts
MayRetry(m) == m.retries < MaxAttempts

\* The message as it was.
SameMessage(m) == m

\* The message as it is published again: x-retry-count is higher.
NextTry(m) == [m EXCEPT !.retries = @ + 1]

-----------------------------------------------------------------------------
(* Consumer and handler *)

\* Document Intake's outbox delivers an event, perhaps more than once.
Arrive(e) ==
  /\ copies[e] < MaxCopies
  /\ copies' = [copies EXCEPT ![e] = @ + 1]
  /\ Put([event |-> e, retries |-> 0])
  /\ UNCHANGED <<config, dlq, pc, msg, stale, memory, faults, failures, fate>>

\* A message is delivered; handle runs up to its first read from storage.  An
\* envelope that is not valid raises, an event that is claimed is ignored.
Consume(t, m) ==
  LET e == m.event
  IN /\ queue[m] > 0 /\ pc[t] = "idle"
     /\ Cardinality({u \in Task \ stale : pc[u] # "idle"}) < Prefetch
     /\ queue' = [queue EXCEPT ![m] = @ - 1]
     /\ msg' = [msg EXCEPT ![t] = m]
     /\ \/ /\ e \in malformed
           /\ Failed(e) /\ Goto(t, "retry") /\ UNCHANGED <<claimed, jobs>>
        \/ /\ e \notin malformed /\ ~Unclaimed(e)
           /\ Goto(t, "ack") /\ UNCHANGED <<claimed, jobs, failures>>
        \/ /\ e \notin malformed /\ Unclaimed(e)
           /\ StartJob(e) /\ Goto(t, "work") /\ UNCHANGED failures
     /\ UNCHANGED <<config, dlq, copies, stale, outbox, attempts, made, faults, fate>>

\* The uploads are read, processed and written: complete_job.
Complete(t) ==
  LET e == msg[t].event
  IN /\ pc[t] = "work" /\ ~durable
     /\ jobs' = [jobs EXCEPT ![e] = "processed"]
     /\ outbox' = [outbox EXCEPT ![e] = @ + 1]
     /\ made' = [made EXCEPT ![e] = @ + 1]
     /\ Goto(t, "ack")
     /\ UNCHANGED <<config, broker, msg, stale, claimed, attempts, faults, failures, fate>>

\* A reference is unsafe, storage fails, or complete_job does.
Fail(t) ==
  LET e == msg[t].event
  IN /\ pc[t] = "work"
     /\ FailJob(e) /\ ReleaseEvent(e) /\ Failed(e)
     /\ Goto(t, "retry")
     /\ UNCHANGED <<config, broker, msg, stale, outbox, attempts, made, faults, fate>>

\* The message is acknowledged.  On a channel that is gone this raises, into
\* the same handler of exceptions as a failure.
Ack(t) ==
  /\ pc[t] = "ack"
  /\ \/ t \notin stale /\ End(t)
     \/ t \in stale /\ Goto(t, "retry") /\ UNCHANGED <<msg, stale>>
  /\ UNCHANGED <<config, broker, memory, faults, failures, fate>>

\* After the backoff the message is published again.  When that raises, so does
\* _consume: the old message, unless RabbitMQ has taken it back already, stays
\* unacknowledged and counts against the prefetch.
Retry(t) ==
  /\ pc[t] = "retry" /\ MayRetry(msg[t])
  /\ \/ Put(NextTry(msg[t])) /\ Goto(t, "ackOld") /\ UNCHANGED <<msg, stale>>
     \/ t \in stale /\ End(t) /\ UNCHANGED queue
     \/ t \notin stale /\ Goto(t, "unacked") /\ UNCHANGED <<queue, msg, stale>>
  /\ UNCHANGED <<config, dlq, copies, memory, faults, failures, fate>>

\* The message that was published again is acknowledged, or RabbitMQ has
\* taken it back already.
AckOld(t) ==
  /\ pc[t] = "ackOld"
  /\ End(t)
  /\ UNCHANGED <<config, broker, memory, faults, failures, fate>>

\* The message is rejected, which moves it to the dead-letter queue.
Reject(t) ==
  /\ pc[t] = "retry" /\ ~MayRetry(msg[t])
  /\ dlq' = IF t \in stale THEN dlq ELSE dlq \cup {msg[t].event}
  /\ End(t)
  /\ UNCHANGED <<config, queue, copies, memory, faults, failures, fate>>

-----------------------------------------------------------------------------
(* Publisher *)

\* publish_outbox: an item is published and removed.
PublishOutbox(e) ==
  /\ outbox[e] > 0
  /\ outbox' = [outbox EXCEPT ![e] = @ - 1] /\ attempts' = [attempts EXCEPT ![e] = 0]
  /\ fate' = [fate EXCEPT ![e] = @ \cup {"announced"}]
  /\ UNCHANGED <<config, broker, pc, msg, stale, claimed, jobs, made, faults, failures>>

\* mark_outbox_retry: after too many attempts the item is dropped.
PublishFails(e) ==
  /\ outbox[e] > 0
  /\ \/ /\ attempts[e] + 1 < MaxAttempts
        /\ attempts' = [attempts EXCEPT ![e] = @ + 1] /\ UNCHANGED <<outbox, fate>>
     \/ /\ attempts[e] + 1 >= MaxAttempts
        /\ outbox' = [outbox EXCEPT ![e] = @ - 1] /\ attempts' = [attempts EXCEPT ![e] = 0]
        /\ fate' = [fate EXCEPT ![e] = @ \cup {"given up"}]
  /\ UNCHANGED <<config, broker, pc, msg, stale, claimed, jobs, made, faults, failures>>

-----------------------------------------------------------------------------
(* Faults *)

\* What RabbitMQ puts back when the channel of the tasks T is gone.
TakenBack(T) ==
  queue' = [m \in Msg |-> queue[m] + Cardinality({t \in T \ stale : msg[t] = m})]

\* The worker dies or is stopped, and starts again with an empty memory.
Crash ==
  /\ crashes < MaxCrashes
  /\ crashes' = crashes + 1
  /\ TakenBack(Task)
  /\ pc' = [t \in Task |-> "idle"] /\ msg' = [t \in Task |-> None] /\ stale' = {}
  /\ claimed' = {} /\ jobs' = [e \in Event |-> "none"]
  /\ outbox' = Zero /\ attempts' = Zero /\ made' = Zero
  /\ fate' = [e \in Event |-> IF outbox[e] > 0 THEN fate[e] \cup {"forgotten"} ELSE fate[e]]
  /\ UNCHANGED <<config, dlq, copies, drops, failures>>

\* The connection is lost and made again: the tasks that still run go on.
Drop ==
  /\ drops < MaxDrops
  /\ drops' = drops + 1
  /\ TakenBack(Task)
  /\ pc' = [t \in Task |-> IF pc[t] = "unacked" THEN "idle" ELSE pc[t]]
  /\ msg' = [t \in Task |-> IF pc[t] = "unacked" THEN None ELSE msg[t]]
  /\ stale' = {t \in Task : pc[t] \notin {"idle", "unacked"}}
  /\ UNCHANGED <<config, dlq, copies, memory, crashes, failures, fate>>

-----------------------------------------------------------------------------

TaskStep(t) ==
  \/ Complete(t) \/ Fail(t) \/ Ack(t) \/ Retry(t) \/ AckOld(t) \/ Reject(t)

Deliver == \E t \in Task, m \in Msg : Consume(t, m)

Publish(e) == PublishOutbox(e) \/ PublishFails(e)

Next ==
  \/ \E e \in Event : Arrive(e) \/ Publish(e)
  \/ Deliver
  \/ \E t \in Task : TaskStep(t)
  \/ Crash \/ Drop

Spec == Init /\ [][Next]_vars

\* RabbitMQ delivers what waits, a task that can go on does, and the publisher
\* polls every second.
Fairness ==
  /\ \A m \in Msg : WF_vars(\E t \in Task : Consume(t, m))
  /\ \A t \in Task : WF_vars(TaskStep(t))
  /\ \A e \in Event : WF_vars(Publish(e))

FairSpec == Spec /\ Fairness

-----------------------------------------------------------------------------
(* Properties *)

Waiting(e) == \E m \in Msg : m.event = e /\ queue[m] > 0
InHand(e) == \E t \in Task \ stale : msg[t] # None /\ msg[t].event = e
Recorded(e) == outbox[e] > 0 \/ fate[e] # {}

\* As long as the connection to RabbitMQ holds, no event is lost, whenever the
\* worker fails, retries or dies, also when the retry cannot be published: it
\* waits, is in a task's hands or still to be acknowledged, is in the
\* dead-letter queue, or its result was recorded.  (handle, _consume,
\* release_event: a claim that outlived its failure would make the retry look
\* like a duplicate.)
NotLost ==
  drops = 0 => \A e \in Event : copies[e] > 0 =>
                 Waiting(e) \/ InHand(e) \/ e \in dlq \/ Recorded(e)

\* In one life of the worker an event has one result and one task at a time
\* works on it, however often it is delivered, taken back or published again,
\* also when its acknowledgement failed.  (claim_event, InMemoryRepository.)
ProcessedOnce ==
  ~durable => \A e \in Event :
    /\ made[e] <= 1
    /\ jobs[e] = "processing" <=>
         Cardinality({t \in Task : pc[t] = "work" /\ msg[t].event = e}) = 1

\* A message reaches the dead-letter queue only after every attempt failed,
\* those before a crash included.  (_consume, x-retry-count.)
DeadLetterEarned ==
  drops = 0 => \A e \in dlq : failures[e] = MaxAttempts + 1

Settled(e) == e \in dlq \/ fate[e] # {}

\* An event that arrived ends announced, given up by the publisher, forgotten
\* with its result by a crash, or dead-lettered, unless a connection was lost
\* or a message whose republish raised stays unacknowledged for good: no
\* message is retried for ever, and a message that a crash frees is taken up
\* again.  (_consume, publish_outbox.)
Settles ==
  \A e \in Event : copies[e] > 0 ~>
    Settled(e) \/ drops > 0 \/ [](\E t \in Task : pc[t] = "unacked")
=============================================================================
