------------------------------- MODULE Outbox -------------------------------
(***************************************************************************)
(* The transactional outbox and its publishers.                            *)
(*                                                                         *)
(* The Document Intake service (Go, RunOutboxPublisher) and the            *)
(* Fingerprint service (Python, publish_outbox) each run a publisher that  *)
(* claims rows of the table event_outbox, publishes them to RabbitMQ and   *)
(* marks them.  The local deployment points both services at the same      *)
(* database, so the two publishers compete for the rows of one table.      *)
(*                                                                         *)
(* Time is abstracted to the number of ticks left until next_attempt_at.   *)
(* The order in which due rows are taken (ORDER BY next_attempt_at) and    *)
(* the order within a batch are left open.                                 *)
(***************************************************************************)
EXTENDS Naturals, FiniteSets

CONSTANTS
  Event,         \* ids of outbox rows
  GoPublisher,   \* Document Intake publisher processes
  PyPublisher,   \* Fingerprint publisher processes
  Limit,         \* LIMIT of a claim (50 in both services)
  BackoffCap,    \* largest exponent of the backoff (6 in both services)
  AttemptCap,    \* bound: attempt_count is counted up to here
  Faults,        \* the kinds of fault the environment may produce
  MaxFaults,     \* bound on the number of faults in a behaviour
  None           \* "no record": the loop variable outside the loop

FaultKinds ==
  {"claim",       \* a claim commits but its result never reaches the caller
   "drop",        \* the AMQP connection of a Go publisher is lost
   "publish",     \* a Python publish times out, delivered or not
   "mark",        \* marking a row published reports an error
   "markFailed",  \* marking a row failed reports an error
   "shutdown",    \* a Go publisher receives SIGTERM
   "crash"}       \* a publisher process dies

Publisher == GoPublisher \cup PyPublisher

ASSUME PublisherAssumption == GoPublisher \cap PyPublisher = {}
ASSUME NoneAssumption == None \notin Event
ASSUME LimitAssumption == Limit \in Nat \ {0}
\* Counting attempts up to AttemptCap leaves every backoff as it is.
ASSUME BackoffAssumption ==
  BackoffCap \in Nat /\ AttemptCap \in Nat /\ AttemptCap >= BackoffCap
ASSUME PowerAssumption == \A n \in 0 .. BackoffCap : 2 ^ n \in Nat
ASSUME FaultsAssumption == Faults \subseteq FaultKinds /\ MaxFaults \in Nat

VARIABLES
  status,     \* the table's column status
  attempts,   \* its column attempt_count
  delay,      \* ticks until its column next_attempt_at
  pc,         \* where each publisher is in its loop
  batch,      \* records claimed and not yet finished with, per publisher
  cur,        \* the record of the current iteration, per publisher
  channel,    \* the AMQP channel of each publisher
  ctx,        \* the publisher's context: cancelled by SIGTERM
  lateClaim,  \* claim threads that outlived their wait_for, per publisher
  lateMark,   \* mark_outbox_published threads that outlived theirs, per row
  wire,       \* frames written to a Go channel, not yet at the broker
  handed,     \* publish calls that put the message on its way, per row
  delivered,  \* copies the broker accepted, per row
  faults      \* faults so far

table == <<status, attempts, delay>>
loop == <<pc, batch, cur>>
conn == <<channel, ctx>>
threads == <<lateClaim, lateMark>>
broker == <<wire, handed, delivered>>
vars == <<status, attempts, delay, pc, batch, cur, channel, ctx,
          lateClaim, lateMark, wire, handed, delivered, faults>>

Status == {"none", "pending", "publishing", "published", "failed"}
PC == {"idle", "publish", "mark", "markFailed", "down"}

TypeOK ==
  /\ status \in [Event -> Status]
  /\ attempts \in [Event -> Nat]
  /\ delay \in [Event -> Nat]
  /\ pc \in [Publisher -> PC]
  /\ batch \in [Publisher -> SUBSET Event]
  /\ cur \in [Publisher -> Event \cup {None}]
  /\ channel \in [Publisher -> {"open", "closed"}]
  /\ ctx \in [Publisher -> {"live", "cancelled"}]
  /\ lateClaim \in [PyPublisher -> Nat]
  /\ lateMark \in [PyPublisher -> [Event -> Nat]]
  /\ wire \in [Event -> Nat]
  /\ handed \in [Event -> Nat]
  /\ delivered \in [Event -> Nat]
  /\ faults \in Nat

Init ==
  /\ status = [e \in Event |-> "none"]
  /\ attempts = [e \in Event |-> 0]
  /\ delay = [e \in Event |-> 0]
  /\ pc = [p \in Publisher |-> "idle"]
  /\ batch = [p \in Publisher |-> {}]
  /\ cur = [p \in Publisher |-> None]
  /\ channel = [p \in Publisher |-> "open"]
  /\ ctx = [p \in Publisher |-> "live"]
  /\ lateClaim = [p \in PyPublisher |-> 0]
  /\ lateMark = [p \in PyPublisher |-> [e \in Event |-> 0]]
  /\ wire = [e \in Event |-> 0]
  /\ handed = [e \in Event |-> 0]
  /\ delivered = [e \in Event |-> 0]
  /\ faults = 0

-----------------------------------------------------------------------------
(* Helpers *)

\* A fault of kind k happens.
Fault(k) ==
  /\ k \in Faults
  /\ faults < MaxFaults
  /\ faults' = faults + 1

\* The rows a claim may take.
Due(e) == status[e] \in {"pending", "failed"} /\ delay[e] = 0

\* The sets of rows one claim may return.
Claimable ==
  {B \in SUBSET {e \in Event : Due(e)} : B # {} /\ Cardinality(B) <= Limit}

\* Returning the rows without marking them 'publishing'.
TakeRowsUnmarked(B) ==
  /\ attempts' = [e \in Event |->
                    IF e \in B /\ attempts[e] < AttemptCap
                      THEN attempts[e] + 1 ELSE attempts[e]]
  /\ UNCHANGED <<status, delay>>

\* UPDATE event_outbox SET status = 'publishing', attempt_count + 1.
TakeRows(B) ==
  /\ status' = [e \in Event |-> IF e \in B THEN "publishing" ELSE status[e]]
  /\ attempts' = [e \in Event |->
                    IF e \in B /\ attempts[e] < AttemptCap
                      THEN attempts[e] + 1 ELSE attempts[e]]
  /\ UNCHANGED delay

\* Seconds until the next attempt, after the given number of attempts.  (The
\* Python publisher cuts the longest wait, 64 seconds, to 60.)
Backoff(n) == 2 ^ (IF n < BackoffCap THEN n ELSE BackoffCap)

\* A status the table does not know.
SetSent(e) ==
  /\ status' = [status EXCEPT ![e] = "sent"]
  /\ UNCHANGED <<attempts, delay>>

SetPublished(e) ==
  /\ status' = [status EXCEPT ![e] = "published"]
  /\ UNCHANGED <<attempts, delay>>

\* Setting the next attempt and leaving the status.
SetDelayOnly(e) ==
  /\ delay' = [delay EXCEPT ![e] = Backoff(attempts[e])]
  /\ UNCHANGED <<status, attempts>>

SetFailed(e) ==
  /\ status' = [status EXCEPT ![e] = "failed"]
  /\ delay' = [delay EXCEPT ![e] = Backoff(attempts[e])]
  /\ UNCHANGED attempts

\* A publisher starts its loop over the claimed records.
StartBatch(p, B) ==
  /\ batch' = [batch EXCEPT ![p] = B]
  /\ pc' = [pc EXCEPT ![p] = "publish"]
  /\ \E e \in B : cur' = [cur EXCEPT ![p] = e]

\* It leaves the loop, whatever is left of the batch.
EndBatch(p) ==
  /\ batch' = [batch EXCEPT ![p] = {}]
  /\ pc' = [pc EXCEPT ![p] = IF ctx[p] = "live" THEN "idle" ELSE "down"]
  /\ cur' = [cur EXCEPT ![p] = None]

\* Going on without leaving the record behind.
NextRecordAgain(p) == StartBatch(p, batch[p])

\* It goes on to the next record, or leaves the loop after the last one.
NextRecord(p) ==
  LET rest == batch[p] \ {cur[p]}
  IN \/ rest # {} /\ StartBatch(p, rest)
     \/ rest = {} /\ EndBatch(p)

GoTo(p, label) ==
  /\ pc' = [pc EXCEPT ![p] = label]
  /\ UNCHANGED <<batch, cur>>

-----------------------------------------------------------------------------
(* The environment: producers of rows, the clock, the broker *)

\* A service commits the transaction that inserts the row.
Insert(e) ==
  /\ status[e] = "none"
  /\ status' = [status EXCEPT ![e] = "pending"]
  /\ UNCHANGED <<attempts, delay, loop, conn, threads, broker, faults>>

\* One second passes.
Tick ==
  /\ \E e \in Event : delay[e] > 0
  /\ delay' = [e \in Event |-> IF delay[e] > 0 THEN delay[e] - 1 ELSE 0]
  /\ UNCHANGED <<status, attempts, loop, conn, threads, broker, faults>>

\* The broker takes a frame off the connection.
BrokerAccept(e) ==
  /\ wire[e] > 0
  /\ wire' = [wire EXCEPT ![e] = @ - 1]
  /\ delivered' = [delivered EXCEPT ![e] = @ + 1]
  /\ UNCHANGED <<table, loop, conn, threads, handed, faults>>

-----------------------------------------------------------------------------
(* Both publishers *)

\* ClaimOutbox / claim_outbox returns the records it marked 'publishing'.
Claim(p) ==
  /\ pc[p] = "idle" /\ ctx[p] = "live"
  /\ \E B \in Claimable : TakeRows(B) /\ StartBatch(p, B)
  /\ UNCHANGED <<conn, threads, broker, faults>>

\* The claim commits, its caller gets an error instead of the records.
ClaimLost(p) ==
  /\ pc[p] = "idle" /\ ctx[p] = "live"
  /\ Fault("claim")
  /\ \E B \in Claimable : TakeRows(B)
  /\ UNCHANGED <<loop, conn, threads, broker>>

MarkPublished(p) ==
  /\ pc[p] = "mark" /\ ctx[p] = "live"
  /\ SetPublished(cur[p])
  /\ NextRecord(p)
  /\ UNCHANGED <<conn, threads, broker, faults>>

\* Marking reports an error: the statement may have committed all the same.
MarkPublishedError(p) ==
  /\ pc[p] = "mark" /\ ctx[p] = "live"
  /\ Fault("mark")
  /\ SetPublished(cur[p]) \/ UNCHANGED table
  /\ GoTo(p, "markFailed")
  /\ UNCHANGED <<conn, threads, broker>>

\* The unguarded UPDATE ... SET status = 'failed' WHERE id.
MarkFailed(p) ==
  /\ pc[p] = "markFailed" /\ ctx[p] = "live"
  /\ SetFailed(cur[p])
  /\ NextRecord(p)
  /\ UNCHANGED <<conn, threads, broker, faults>>

\* The process is gone: its batch and its threads with it.
Die(p) ==
  /\ pc' = [pc EXCEPT ![p] = "down"]
  /\ batch' = [batch EXCEPT ![p] = {}]
  /\ cur' = [cur EXCEPT ![p] = None]
  /\ channel' = [channel EXCEPT ![p] = "closed"]
  /\ lateClaim' = [q \in PyPublisher |-> IF q = p THEN 0 ELSE lateClaim[q]]
  /\ lateMark' = [q \in PyPublisher |->
                    IF q = p THEN [e \in Event |-> 0] ELSE lateMark[q]]
  /\ UNCHANGED <<table, ctx, broker>>

Crash(p) ==
  /\ pc[p] # "down"
  /\ Fault("crash")
  /\ Die(p)

\* A new process: nothing looks for rows left 'publishing' by the old one.
Restart(p) ==
  /\ pc[p] = "down"
  /\ pc' = [pc EXCEPT ![p] = "idle"]
  /\ channel' = [channel EXCEPT ![p] = "open"]
  /\ ctx' = [ctx EXCEPT ![p] = "live"]
  /\ UNCHANGED <<table, batch, cur, threads, broker, faults>>

-----------------------------------------------------------------------------
(* The Go publisher of Document Intake *)

\* Publish returns once the frame is written: there is no publisher confirm.
GoPublish(p) ==
  /\ pc[p] = "publish" /\ channel[p] = "open"
  /\ handed' = [handed EXCEPT ![cur[p]] = @ + 1]
  /\ wire' = [wire EXCEPT ![cur[p]] = @ + 1]
  /\ GoTo(p, "mark")
  /\ UNCHANGED <<table, conn, threads, delivered, faults>>

\* Going on to mark the record published in spite of the error.
GoPublishErrorIgnored(p) ==
  /\ pc[p] = "publish" /\ channel[p] = "closed"
  /\ GoTo(p, "mark")
  /\ UNCHANGED <<table, conn, threads, broker, faults>>

\* Publishing on a closed channel fails, for the rest of the process's life.
GoPublishError(p) ==
  /\ pc[p] = "publish" /\ channel[p] = "closed"
  /\ GoTo(p, "markFailed")
  /\ UNCHANGED <<table, conn, threads, broker, faults>>

\* An error of MarkOutboxFailed is logged, the loop goes on.
GoMarkFailedError(p) ==
  /\ pc[p] = "markFailed" /\ ctx[p] = "live"
  /\ Fault("markFailed")
  /\ SetFailed(cur[p]) \/ UNCHANGED table
  /\ NextRecord(p)
  /\ UNCHANGED <<conn, threads, broker>>

\* The connection is lost, with any frames the broker has not yet read.
GoDrop(p) ==
  /\ channel[p] = "open" /\ pc[p] # "down"
  /\ Fault("drop")
  /\ channel' = [channel EXCEPT ![p] = "closed"]
  /\ \E lost \in SUBSET Event :
       wire' = [e \in Event |-> IF e \in lost THEN 0 ELSE wire[e]]
  /\ UNCHANGED <<table, loop, ctx, threads, handed, delivered>>

\* SIGTERM cancels the context; an idle publisher returns at once.
GoShutdown(p) ==
  /\ pc[p] # "down" /\ ctx[p] = "live"
  /\ Fault("shutdown")
  /\ ctx' = [ctx EXCEPT ![p] = "cancelled"]
  /\ pc' = [pc EXCEPT ![p] = IF @ = "idle" THEN "down" ELSE @]
  /\ UNCHANGED <<table, batch, cur, channel, threads, broker>>

\* With the context cancelled both marks fail before they reach the server.
GoMarkCancelled(p) ==
  /\ ctx[p] = "cancelled"
  /\ \/ pc[p] = "mark" /\ GoTo(p, "markFailed")
     \/ pc[p] = "markFailed" /\ NextRecord(p)
  /\ UNCHANGED <<table, conn, threads, broker, faults>>

\* main returns without waiting for the publisher's goroutine.
GoExit(p) ==
  /\ ctx[p] = "cancelled" /\ pc[p] # "down"
  /\ Die(p)
  /\ UNCHANGED faults

-----------------------------------------------------------------------------
(* The Python publisher of Fingerprint *)

\* aio_pika confirms: publish returns when the broker has the message.
PyPublish(p) ==
  /\ pc[p] = "publish"
  /\ handed' = [handed EXCEPT ![cur[p]] = @ + 1]
  /\ delivered' = [delivered EXCEPT ![cur[p]] = @ + 1]
  /\ GoTo(p, "mark")
  /\ UNCHANGED <<table, conn, threads, wire, faults>>

\* wait_for gives up: the broker may or may not have the message.
PyPublishTimeout(p) ==
  /\ pc[p] = "publish"
  /\ Fault("publish")
  /\ \/ UNCHANGED broker
     \/ /\ handed' = [handed EXCEPT ![cur[p]] = @ + 1]
        /\ delivered' = [delivered EXCEPT ![cur[p]] = @ + 1]
        /\ UNCHANGED wire
  /\ GoTo(p, "markFailed")
  /\ UNCHANGED <<table, conn, threads>>

\* wait_for gives up on the claim: its thread runs on, with no one to take
\* the rows.
PyClaimTimeout(p) ==
  /\ pc[p] = "idle"
  /\ Fault("claim")
  /\ lateClaim' = [lateClaim EXCEPT ![p] = @ + 1]
  /\ UNCHANGED <<table, loop, conn, lateMark, broker>>

PyLateClaim(p) ==
  /\ lateClaim[p] > 0
  /\ lateClaim' = [lateClaim EXCEPT ![p] = @ - 1]
  /\ \/ \E B \in Claimable : TakeRows(B)
     \/ Claimable = {} /\ UNCHANGED table
  /\ UNCHANGED <<loop, conn, lateMark, broker, faults>>

\* wait_for gives up on mark_outbox_published: its thread runs on, and the
\* coroutine goes on to mark the row failed.
PyMarkTimeout(p) ==
  /\ pc[p] = "mark"
  /\ Fault("mark")
  /\ lateMark' = [lateMark EXCEPT ![p][cur[p]] = @ + 1]
  /\ GoTo(p, "markFailed")
  /\ UNCHANGED <<table, conn, lateClaim, broker>>

PyLateMark(p, e) ==
  /\ lateMark[p][e] > 0
  /\ lateMark' = [lateMark EXCEPT ![p][e] = @ - 1]
  /\ SetPublished(e)
  /\ UNCHANGED <<loop, conn, lateClaim, broker, faults>>

\* An error of mark_outbox_failed leaves the loop over the records.
PyMarkFailedError(p) ==
  /\ pc[p] = "markFailed"
  /\ Fault("markFailed")
  /\ SetFailed(cur[p]) \/ UNCHANGED table
  /\ EndBatch(p)
  /\ UNCHANGED <<conn, threads, broker>>

-----------------------------------------------------------------------------

GoStep(p) ==
  \/ GoPublish(p) \/ GoPublishError(p) \/ GoMarkFailedError(p)
  \/ GoDrop(p) \/ GoShutdown(p) \/ GoMarkCancelled(p) \/ GoExit(p)

PyStep(p) ==
  \/ PyPublish(p) \/ PyPublishTimeout(p) \/ PyClaimTimeout(p)
  \/ PyLateClaim(p) \/ PyMarkTimeout(p) \/ PyMarkFailedError(p)
  \/ \E e \in Event : PyLateMark(p, e)

CommonStep(p) ==
  \/ Claim(p) \/ ClaimLost(p) \/ MarkPublished(p) \/ MarkPublishedError(p)
  \/ MarkFailed(p) \/ Crash(p) \/ Restart(p)

Environment ==
  \/ \E e \in Event : Insert(e) \/ BrokerAccept(e)
  \/ Tick

Next ==
  \/ Environment
  \/ \E p \in Publisher : CommonStep(p)
  \/ \E p \in GoPublisher : GoStep(p)
  \/ \E p \in PyPublisher : PyStep(p)

Spec == Init /\ [][Next]_vars

\* Time passes, the broker reads its connections, the loops of a running
\* process take their next step, threads end, and a supervisor restarts a
\* process that is down.  No fault is assumed to happen or not to happen.
Fairness ==
  /\ WF_vars(Tick)
  /\ \A e \in Event : WF_vars(BrokerAccept(e))
  /\ \A p \in Publisher :
       /\ WF_vars(Claim(p))
       /\ WF_vars(MarkPublished(p))
       /\ WF_vars(MarkFailed(p))
       /\ WF_vars(Restart(p))
  /\ \A p \in GoPublisher :
       /\ WF_vars(GoPublish(p) \/ GoPublishError(p))
       /\ WF_vars(GoMarkCancelled(p))
  /\ \A p \in PyPublisher :
       /\ WF_vars(PyPublish(p))
       /\ WF_vars(PyLateClaim(p))
       /\ \A e \in Event : WF_vars(PyLateMark(p, e))

FairSpec == Spec /\ Fairness

-----------------------------------------------------------------------------
(* Properties *)

Recorded(e) == status[e] # "none"

\* A record in the hands of a publisher is in no other publisher's hands, and
\* its row cannot be claimed: neither the unguarded UPDATEs of the two marks
\* nor a thread that outlived its timeout reopens a row that is being worked
\* on.  (ClaimOutbox, FOR UPDATE SKIP LOCKED.)
ExclusiveClaim ==
  \A p \in Publisher : \A e \in batch[p] :
    /\ status[e] \in {"publishing", "published"}
    /\ \A q \in Publisher \ {p} : e \notin batch[q]

\* A row says 'published' only if a publish call put its message on the way,
\* late marks and marks of unknown outcome included.  (MarkOutboxPublished
\* after Publish.)
PublishedWasHanded ==
  \A e \in Event : status[e] = "published" => handed[e] > 0

\* A message goes out twice only because something failed: each copy beyond
\* the first is paid for by a fault of its own, so consumers see duplicates
\* only after a failure.  (Claims exclude each other, a batch is worked
\* through once, a row is reopened only after an error.)
DuplicatesNeedFaults ==
  \A e \in Event : handed[e] <= faults + 1

\* Every recorded event reaches the broker and its row settles in 'published',
\* however often publishing and marking it failed on the way.
EventuallyPublished ==
  \A e \in Event :
    Recorded(e) ~> [](status[e] = "published" /\ delivered[e] > 0)

\* Every recorded event reaches the broker.
EventuallyDelivered ==
  \A e \in Event : Recorded(e) ~> delivered[e] > 0
=============================================================================
