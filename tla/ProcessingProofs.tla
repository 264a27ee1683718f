-------------------------- MODULE ProcessingProofs --------------------------
(***************************************************************************)
(* Proofs about the Document Processing worker, for any number of events,  *)
(* tasks, repeated deliveries, crashes and lost connections.               *)
(***************************************************************************)
EXTENDS Processing, FiniteSetTheorems, TLAPS

-----------------------------------------------------------------------------
(* The inductive invariant *)

\* A task has a message exactly while it runs, and only then can its channel
\* be gone, which takes a lost connection.
Tasks ==
  /\ \A t \in Task : pc[t] = "idle" <=> msg[t] = None
  /\ \A t \in stale : pc[t] \notin {"idle", "unacked"}
  /\ drops = 0 => stale = {}

\* The task t works on the event e.
WorksOn(t, e) == pc[t] = "work" /\ msg[t].event = e

\* In memory an event is claimed exactly while a task works on it or once it
\* has its result, and by one task only.
Claims ==
  ~durable =>
    /\ \A e \in Event :
         /\ e \in claimed <=> jobs[e] \in {"processing", "processed"}
         /\ jobs[e] = "processing" <=> \E t \in Task : WorksOn(t, e)
         /\ made[e] = IF jobs[e] = "processed" THEN 1 ELSE 0
         /\ jobs[e] = "processed" => Recorded(e)
    /\ \A e \in Event : \A t, u \in Task : WorksOn(t, e) /\ WorksOn(u, e) => t = u

\* A task that holds its event: one that only has to acknowledge it does not
\* count.
Holding == {"work", "retry", "unacked"}

\* Someone answers for the event e.
Safe(e) ==
  \/ Waiting(e)
  \/ \E t \in Task : pc[t] \in Holding /\ msg[t].event = e
  \/ e \in dlq
  \/ Recorded(e)

\* x-retry-count is at most the number of failed attempts.
RetriesEarned ==
  /\ \A m \in Msg : queue[m] > 0 => failures[m.event] >= m.retries
  /\ \A t \in Task : pc[t] # "idle" => failures[msg[t].event] >= msg[t].retries
  /\ \A t \in Task : pc[t] = "retry" => failures[msg[t].event] >= msg[t].retries + 1

\* While the connection has held, no event is lost and none is given up early.
Lossless ==
  drops = 0 =>
    /\ \A e \in Event : copies[e] > 0 => Safe(e)
    /\ RetriesEarned
    /\ DeadLetterEarned

IInv ==
  /\ TypeOK
  /\ Tasks
  /\ Claims
  /\ Lossless

-----------------------------------------------------------------------------
(* Helpers *)

PC == {"idle", "work", "ack", "retry", "ackOld", "unacked"}

\* A task that runs has a message.
LEMMA HasMessage ==
  ASSUME TypeOK, Tasks, NEW t \in Task, pc[t] # "idle"
  PROVE  /\ msg[t] \in Msg /\ msg[t].event \in Event
         /\ msg[t].retries \in 0 .. MaxAttempts
<1>1. msg[t] \in Msg
  BY DEF TypeOK, Tasks
<1> QED BY <1>1 DEF Msg

\* A task moves on.
LEMMA GotoFacts ==
  ASSUME TypeOK, Tasks, NEW t \in Task, pc[t] # "idle", NEW l \in PC \ {"idle"},
         l = "unacked" => t \notin stale,
         Goto(t, l), UNCHANGED <<msg, stale, drops>>
  PROVE  /\ pc' \in [Task -> PC] /\ msg' \in [Task -> Msg \cup {None}] /\ stale' \subseteq Task
         /\ pc'[t] = l /\ \A u \in Task \ {t} : pc'[u] = pc[u]
         /\ Tasks'
<1>1. pc' \in [Task -> PC] /\ pc'[t] = l /\ \A u \in Task \ {t} : pc'[u] = pc[u]
  BY DEF TypeOK, Goto, PC
<1> QED BY <1>1 DEF TypeOK, Tasks

\* A task ends.
LEMMA EndFacts ==
  ASSUME TypeOK, Tasks, NEW t \in Task, pc[t] # "idle", End(t), UNCHANGED drops
  PROVE  /\ pc' \in [Task -> PC] /\ msg' \in [Task -> Msg \cup {None}] /\ stale' \subseteq Task
         /\ pc'[t] = "idle" /\ msg'[t] = None
         /\ \A u \in Task \ {t} : pc'[u] = pc[u] /\ msg'[u] = msg[u]
         /\ Tasks'
<1>1. /\ pc' \in [Task -> PC] /\ msg' \in [Task -> Msg \cup {None}] /\ stale' \subseteq Task
      /\ pc'[t] = "idle" /\ msg'[t] = None
      /\ \A u \in Task \ {t} : pc'[u] = pc[u] /\ msg'[u] = msg[u]
      /\ stale' = stale \ {t}
  BY DEF TypeOK, End, Goto, PC
<1>2. Tasks'
  BY <1>1 DEF TypeOK, Tasks
<1> QED BY <1>1, <1>2

\* What was recorded stays recorded.
RecordsStay == \A e \in Event : Recorded(e) => Recorded(e)'

\* The claims are kept by a step that changes neither them, nor the jobs and
\* results, nor who works on what.
LEMMA ClaimsKept ==
  ASSUME Claims, UNCHANGED <<durable, claimed, jobs, made>>, RecordsStay,
         \A t \in Task : \/ pc'[t] = pc[t] /\ msg'[t] = msg[t]
                         \/ pc[t] # "work" /\ pc'[t] # "work"
  PROVE  Claims'
<1>1. \A t \in Task : \A e : WorksOn(t, e)' <=> WorksOn(t, e)
  BY DEF WorksOn
<1>2. ASSUME ~durable, NEW e \in Event
      PROVE  /\ e \in claimed' <=> jobs'[e] \in {"processing", "processed"}
             /\ jobs'[e] = "processing" <=> \E t \in Task : WorksOn(t, e)'
             /\ made'[e] = IF jobs'[e] = "processed" THEN 1 ELSE 0
             /\ jobs'[e] = "processed" => Recorded(e)'
  BY <1>1, <1>2 DEF Claims, RecordsStay
<1>3. ASSUME ~durable, NEW e \in Event, NEW t \in Task, NEW u \in Task,
             WorksOn(t, e)', WorksOn(u, e)'
      PROVE  t = u
  BY <1>1, <1>3 DEF Claims
<1> QED BY <1>2, <1>3 DEF Claims

\* What RabbitMQ takes back waits again.
LEMMA TakenBackFacts ==
  ASSUME TypeOK, TakenBack(Task)
  PROVE  /\ queue' \in [Msg -> Nat]
         /\ \A m \in Msg : queue[m] > 0 => queue'[m] > 0
         /\ \A t \in Task \ stale : msg[t] \in Msg => queue'[msg[t]] > 0
         /\ \A m \in Msg : queue'[m] > 0 => queue[m] > 0 \/ \E t \in Task : msg[t] = m
<1> DEFINE S(m) == {t \in Task \ stale : msg[t] = m}
<1>1. \A m : IsFiniteSet(S(m)) /\ Cardinality(S(m)) \in Nat
  <2> SUFFICES ASSUME NEW m PROVE IsFiniteSet(S(m)) /\ Cardinality(S(m)) \in Nat
    OBVIOUS
  <2>1. S(m) \subseteq Task
    OBVIOUS
  <2> QED BY <2>1, TaskAssumption, FS_Subset, FS_CardinalityType
<1>2. ASSUME NEW m PROVE S(m) # {} <=> Cardinality(S(m)) > 0
  <2> HIDE DEF S
  <2>1. IsFiniteSet(S(m)) /\ Cardinality(S(m)) \in Nat
    BY <1>1
  <2>2. Cardinality(S(m)) = 0 <=> S(m) = {}
    BY <2>1, FS_EmptySet
  <2> QED BY <2>1, <2>2
<1>3. \A t \in Task \ stale : t \in S(msg[t])
  OBVIOUS
<1>4. \A m : S(m) # {} => \E t \in Task : msg[t] = m
  OBVIOUS
<1>5. queue' = [m \in Msg |-> queue[m] + Cardinality(S(m))]
  BY DEF TakenBack
<1> HIDE DEF S
<1>6. \A m \in Msg : queue'[m] = queue[m] + Cardinality(S(m)) /\ queue[m] \in Nat
  BY <1>5 DEF TypeOK
<1>7. queue' \in [Msg -> Nat]
  BY <1>1, <1>5, <1>6
<1>8. ASSUME NEW t \in Task \ stale, msg[t] \in Msg PROVE queue'[msg[t]] > 0
  <2>1. Cardinality(S(msg[t])) > 0 /\ Cardinality(S(msg[t])) \in Nat
    BY <1>1, <1>2, <1>3
  <2> QED BY <1>6, <1>8, <2>1
<1>9. ASSUME NEW m \in Msg, queue'[m] > 0 PROVE queue[m] > 0 \/ \E t \in Task : msg[t] = m
  <2>1. queue[m] > 0 \/ Cardinality(S(m)) > 0
    BY <1>1, <1>6, <1>9
  <2> QED BY <1>2, <1>4, <2>1
<1> QED BY <1>1, <1>6, <1>7, <1>8, <1>9

\* While nothing is lost, the parts of Lossless.
LEMMA LosslessParts ==
  ASSUME Lossless, drops = 0
  PROVE  /\ \A e \in Event : copies[e] > 0 => Safe(e)
         /\ \A m \in Msg : queue[m] > 0 => failures[m.event] >= m.retries
         /\ \A t \in Task : pc[t] # "idle" => failures[msg[t].event] >= msg[t].retries
         /\ \A t \in Task : pc[t] = "retry" => failures[msg[t].event] >= msg[t].retries + 1
         /\ \A e \in dlq : failures[e] = MaxAttempts + 1
BY DEF Lossless, RetriesEarned, DeadLetterEarned

\* An attempt that fails counts, up to the last one allowed.
LEMMA FailedCounts ==
  ASSUME TypeOK, NEW e \in Event, Failed(e)
  PROVE  /\ failures' \in [Event -> 0 .. MaxAttempts + 1]
         /\ \A x \in Event : failures'[x] >= failures[x]
         /\ \A n \in 0 .. MaxAttempts : failures[e] >= n => failures'[e] >= n + 1
         /\ \A x \in Event : failures[x] = MaxAttempts + 1 => failures'[x] = MaxAttempts + 1
<1> DEFINE v == IF failures[e] <= MaxAttempts THEN failures[e] + 1 ELSE failures[e]
<1>1. failures \in [Event -> 0 .. MaxAttempts + 1] /\ MaxAttempts \in Nat
  BY ProcessingAssumption DEF TypeOK
<1>2. failures[e] \in 0 .. MaxAttempts + 1
  BY <1>1
<1>3. v \in 0 .. MaxAttempts + 1 /\ v >= failures[e]
  BY <1>1, <1>2
<1>4. \A n \in 0 .. MaxAttempts : failures[e] >= n => v >= n + 1
  BY <1>1, <1>2
<1>5. failures[e] = MaxAttempts + 1 => v = MaxAttempts + 1
  BY <1>1
<1>6. failures' = [failures EXCEPT ![e] = v]
  BY DEF Failed
<1> HIDE DEF v
<1>7. /\ failures' \in [Event -> 0 .. MaxAttempts + 1]
      /\ failures'[e] = v /\ \A x \in Event \ {e} : failures'[x] = failures[x]
  BY <1>1, <1>3, <1>6
<1>8. \A x \in Event : failures[x] \in 0 .. MaxAttempts + 1
  BY <1>1
<1>9. \A x \in Event : failures'[x] >= failures[x]
  BY <1>3, <1>7, <1>8
<1> QED BY <1>4, <1>5, <1>7, <1>9

\* A message is published again with its retry counted.
LEMMA NextTryFacts ==
  ASSUME NEW m \in Msg, m.retries + 1 \in 0 .. MaxAttempts
  PROVE  /\ NextTry(m) \in Msg /\ NextTry(m).event = m.event
         /\ NextTry(m).retries = m.retries + 1
<1>1. m \in [event: Event, retries: 0 .. MaxAttempts]
  BY DEF Msg
<1>2. PICK n \in 0 .. MaxAttempts : n = m.retries + 1
  OBVIOUS
<1>3. NextTry(m) = [m EXCEPT !.retries = n]
  BY <1>2 DEF NextTry
<1> QED BY <1>1, <1>2, <1>3 DEF Msg

\* A message is added to the queue.
LEMMA PutFacts ==
  ASSUME TypeOK, NEW m \in Msg, Put(m)
  PROVE  /\ queue' \in [Msg -> Nat] /\ queue'[m] > 0
         /\ \A x \in Msg \ {m} : queue'[x] = queue[x]
         /\ \A x \in Event : Waiting(x) => Waiting(x)'
<1>1. queue \in [Msg -> Nat]
  BY DEF TypeOK
<1>2. queue[m] \in Nat
  BY <1>1
<1>3. queue[m] + 1 \in Nat /\ queue[m] + 1 > 0
  BY <1>2
<1>4. queue' = [queue EXCEPT ![m] = queue[m] + 1]
  BY DEF Put
<1>5. /\ queue' \in [Msg -> Nat] /\ queue'[m] > 0
      /\ \A x \in Msg \ {m} : queue'[x] = queue[x]
  BY <1>1, <1>3, <1>4
<1> QED BY <1>5 DEF Waiting

\* Who answered for an event still does, when the queue and the records only
\* gain and its tasks are still at work or retrying.
LEMMA SafeKept ==
  ASSUME NEW e \in Event, Safe(e), RecordsStay, dlq \subseteq dlq', Waiting(e) => Safe(e)',
         \A t \in Task : pc[t] \in Holding /\ msg[t].event = e => Safe(e)'
  PROVE  Safe(e)'
<1>1. CASE Waiting(e)
  BY <1>1
<1>2. CASE \E t \in Task : pc[t] \in Holding /\ msg[t].event = e
  BY <1>2
<1>3. CASE e \in dlq
  BY <1>3 DEF Safe, Holding
<1>4. CASE Recorded(e)
  BY <1>4 DEF Safe, RecordsStay
<1> QED BY <1>1, <1>2, <1>3, <1>4 DEF Safe, Holding

\* The retries stay earned when failures only grow, one task moves, and what
\* is new in the queue and among the dead letters is earned.
LEMMA EarnedKept ==
  ASSUME TypeOK, Tasks, Lossless, drops = 0, NEW t \in Task,
         failures' \in [Event -> 0 .. MaxAttempts + 1],
         \A x \in Event : failures'[x] >= failures[x],
         \A x \in Event : failures[x] = MaxAttempts + 1 => failures'[x] = MaxAttempts + 1,
         \A u \in Task \ {t} : pc'[u] = pc[u] /\ msg'[u] = msg[u],
         pc'[t] # "idle" => failures'[msg'[t].event] >= msg'[t].retries,
         pc'[t] = "retry" => failures'[msg'[t].event] >= msg'[t].retries + 1,
         \A m \in Msg : queue'[m] > 0 => queue[m] > 0 \/ failures'[m.event] >= m.retries,
         \A e \in dlq' : e \in dlq \/ failures'[e] = MaxAttempts + 1
  PROVE  RetriesEarned' /\ DeadLetterEarned'
<1>1. MaxAttempts \in Nat
  BY ProcessingAssumption
<1>2. \A x \in Event : failures[x] \in Nat /\ failures'[x] \in Nat
  <2>1. \A x \in Event : failures[x] \in 0 .. MaxAttempts + 1 /\ failures'[x] \in 0 .. MaxAttempts + 1
    BY DEF TypeOK
  <2> QED BY <1>1, <2>1
<1>3. \A m \in Msg : m.event \in Event /\ m.retries \in Nat
  BY <1>1 DEF Msg
<1>4. ASSUME NEW m \in Msg, queue'[m] > 0 PROVE failures'[m.event] >= m.retries
  <2>1. CASE queue[m] > 0
    <3>1. failures[m.event] >= m.retries
      BY <2>1, LosslessParts
    <3> QED BY <1>2, <1>3, <3>1
  <2> QED BY <1>4, <2>1
<1>5. ASSUME NEW u \in Task \ {t}, pc[u] # "idle"
      PROVE  failures'[msg[u].event] >= failures[msg[u].event]
  BY <1>5, HasMessage
<1>6. ASSUME NEW u \in Task, pc'[u] # "idle" PROVE failures'[msg'[u].event] >= msg'[u].retries
  <2>1. CASE u # t
    <3>1. msg[u] \in Msg /\ pc[u] # "idle"
      BY <1>6, <2>1, HasMessage
    <3>2. failures[msg[u].event] >= msg[u].retries
      BY <3>1, LosslessParts
    <3>3. failures'[msg[u].event] >= msg[u].retries
      BY <1>2, <1>3, <1>5, <2>1, <3>1, <3>2
    <3> QED BY <2>1, <3>3
  <2> QED BY <1>6, <2>1
<1>7. ASSUME NEW u \in Task, pc'[u] = "retry" PROVE failures'[msg'[u].event] >= msg'[u].retries + 1
  <2>1. CASE u # t
    <3>1. msg[u] \in Msg /\ pc[u] = "retry" /\ pc[u] # "idle"
      BY <1>7, <2>1, HasMessage
    <3>2. failures[msg[u].event] >= msg[u].retries + 1
      BY <3>1, LosslessParts
    <3>3. failures'[msg[u].event] >= msg[u].retries + 1
      BY <1>2, <1>3, <1>5, <2>1, <3>1, <3>2
    <3> QED BY <2>1, <3>3
  <2> QED BY <1>7, <2>1
<1>8. ASSUME NEW e \in dlq' PROVE failures'[e] = MaxAttempts + 1
  <2>1. CASE e \in dlq
    BY <2>1, LosslessParts DEF TypeOK
  <2> QED BY <2>1
<1> QED BY <1>4, <1>6, <1>7, <1>8 DEF RetriesEarned, DeadLetterEarned

\* A task is given a message.
LEMMA StartFacts ==
  ASSUME TypeOK, Tasks, NEW t \in Task, pc[t] = "idle", NEW l \in PC \ {"idle"}, NEW m \in Msg,
         Goto(t, l), msg' = [msg EXCEPT ![t] = m], UNCHANGED <<stale, drops>>,
         queue[m] > 0, queue' = [queue EXCEPT ![m] = @ - 1]
  PROVE  /\ pc' \in [Task -> PC] /\ msg' \in [Task -> Msg \cup {None}] /\ stale' \subseteq Task
         /\ pc'[t] = l /\ msg'[t] = m
         /\ \A u \in Task \ {t} : pc'[u] = pc[u] /\ msg'[u] = msg[u]
         /\ Tasks'
         /\ queue' \in [Msg -> Nat]
         /\ \A x \in Msg : queue'[x] > 0 => queue[x] > 0
         /\ \A x \in Event \ {m.event} : Waiting(x) => Waiting(x)'
<1>1. /\ pc' \in [Task -> PC] /\ msg' \in [Task -> Msg \cup {None}] /\ stale' \subseteq Task
      /\ pc'[t] = l /\ msg'[t] = m
      /\ \A u \in Task \ {t} : pc'[u] = pc[u] /\ msg'[u] = msg[u]
  BY DEF TypeOK, Goto, PC
<1>2. m # None
  BY MsgAssumption
<1>3. Tasks'
  BY <1>1, <1>2 DEF TypeOK, Tasks
<1>4. queue \in [Msg -> Nat]
  BY DEF TypeOK
<1>5. queue[m] \in Nat
  BY <1>4
<1>6. queue[m] - 1 \in Nat
  BY <1>5
<1>7. queue' = [queue EXCEPT ![m] = queue[m] - 1]
  OBVIOUS
<1>8. queue' \in [Msg -> Nat] /\ \A x \in Msg \ {m} : queue'[x] = queue[x]
  BY <1>4, <1>6, <1>7
<1>9. \A x \in Msg : queue'[x] > 0 => queue[x] > 0
  BY <1>8
<1>10. \A x \in Event \ {m.event} : Waiting(x) => Waiting(x)'
  BY <1>8 DEF Waiting
<1> QED BY <1>1, <1>3, <1>8, <1>9, <1>10

-----------------------------------------------------------------------------
(* The steps *)

\* Arrive keeps the invariant.
LEMMA ArriveStep ==
  ASSUME IInv, NEW e \in Event, Arrive(e)
  PROVE  IInv'
<1> DEFINE m == [event |-> e, retries |-> 0]
<1>1. TypeOK /\ Tasks /\ Claims /\ Lossless /\ MaxAttempts \in Nat /\ MaxCopies \in Nat
  BY ProcessingAssumption DEF IInv
<1>2. UNCHANGED <<durable, malformed, dlq, pc, msg, stale, claimed, jobs, outbox, attempts, made,
                  crashes, drops, failures, fate>>
  BY DEF Arrive, config, memory, faults
<1>3. /\ copies' \in [Event -> 0 .. MaxCopies]
      /\ \A x \in Event \ {e} : copies'[x] = copies[x]
  <2>1. copies \in [Event -> 0 .. MaxCopies] /\ copies' = [copies EXCEPT ![e] = copies[e] + 1]
    BY <1>1 DEF Arrive, TypeOK
  <2>2. copies[e] \in 0 .. MaxCopies /\ copies[e] < MaxCopies
    BY <2>1 DEF Arrive
  <2>3. copies[e] + 1 \in 0 .. MaxCopies
    BY <1>1, <2>2
  <2> QED BY <2>1, <2>3
<1>4. m \in Msg /\ m.event = e /\ m.retries = 0 /\ Put(m)
  BY <1>1 DEF Msg, Arrive
<1> HIDE DEF m
<1>5. /\ queue' \in [Msg -> Nat] /\ queue'[m] > 0
      /\ \A x \in Msg \ {m} : queue'[x] = queue[x]
      /\ \A x \in Event : Waiting(x) => Waiting(x)'
  BY <1>1, <1>4, PutFacts
<1>6. TypeOK' /\ Tasks'
  BY <1>1, <1>2, <1>3, <1>5 DEF TypeOK, Tasks
<1>r. RecordsStay
  BY <1>2 DEF RecordsStay, Recorded
<1>7. Claims'
  <2>1. \A t \in Task :
          \/ pc'[t] = pc[t] /\ msg'[t] = msg[t]
          \/ pc[t] # "work" /\ pc'[t] # "work"
    BY <1>2
  <2>2. UNCHANGED <<durable, claimed, jobs, made>>
    BY <1>2
  <2> QED BY Zenon, <1>1, <1>r, <2>1, <2>2, ClaimsKept
<1>8. ASSUME drops' = 0, NEW x \in Event, copies'[x] > 0 PROVE Safe(x)'
  <2>1. CASE x = e
    BY <1>4, <1>5, <2>1 DEF Safe, Waiting, Holding
  <2>2. CASE x # e
    <3>1. Safe(x)
      BY <1>1, <1>2, <1>3, <1>8, <2>2, LosslessParts
    <3> QED BY <1>2, <1>5, <3>1 DEF Safe, Recorded, Holding
  <2> QED BY <2>1, <2>2
<1>9. ASSUME drops' = 0 PROVE RetriesEarned' /\ DeadLetterEarned'
  <2>1. \A x \in Msg : queue'[x] > 0 => failures'[x.event] >= x.retries
    <3>1. failures[e] \in 0 .. MaxAttempts + 1
      BY <1>1 DEF TypeOK
    <3>2. failures[e] >= 0
      BY <1>1, <3>1
    <3> QED BY <1>1, <1>2, <1>4, <1>5, <1>9, <3>2, LosslessParts
  <2> QED BY <1>1, <1>2, <1>9, <2>1, LosslessParts DEF RetriesEarned, DeadLetterEarned
<1> QED BY <1>6, <1>7, <1>8, <1>9 DEF IInv, Lossless

\* Consume keeps the invariant.
LEMMA ConsumeStep ==
  ASSUME IInv, NEW t \in Task, NEW m \in Msg, Consume(t, m)
  PROVE  IInv'
<1>1. TypeOK /\ Tasks /\ Claims /\ Lossless /\ MaxAttempts \in Nat
  BY ProcessingAssumption DEF IInv
<1>2. /\ UNCHANGED <<durable, malformed, dlq, copies, stale, outbox, attempts, made,
                     crashes, drops, fate>>
      /\ queue[m] > 0 /\ pc[t] = "idle"
      /\ queue' = [queue EXCEPT ![m] = @ - 1] /\ msg' = [msg EXCEPT ![t] = m]
  BY DEF Consume, config, faults
<1>3. m.event \in Event /\ m.retries \in 0 .. MaxAttempts
  BY DEF Msg
<1>4. PICK l \in {"work", "ack", "retry"} :
        /\ Goto(t, l)
        /\ \/ /\ l = "retry" /\ Failed(m.event) /\ UNCHANGED <<claimed, jobs>>
           \/ /\ l = "ack" /\ ~Unclaimed(m.event) /\ UNCHANGED <<claimed, jobs, failures>>
           \/ /\ l = "work" /\ Unclaimed(m.event) /\ StartJob(m.event) /\ UNCHANGED failures
  BY DEF Consume
<1>5. /\ pc' \in [Task -> PC] /\ msg' \in [Task -> Msg \cup {None}] /\ stale' \subseteq Task
      /\ pc'[t] = l /\ msg'[t] = m
      /\ \A u \in Task \ {t} : pc'[u] = pc[u] /\ msg'[u] = msg[u]
      /\ Tasks'
      /\ queue' \in [Msg -> Nat]
      /\ \A x \in Msg : queue'[x] > 0 => queue[x] > 0
      /\ \A x \in Event \ {m.event} : Waiting(x) => Waiting(x)'
  <2>1. l \in PC \ {"idle"}
    BY DEF PC
  <2> QED BY <1>1, <1>2, <1>4, <2>1, StartFacts
<1>6. /\ failures' \in [Event -> 0 .. MaxAttempts + 1]
      /\ \A x \in Event : failures'[x] >= failures[x]
      /\ \A x \in Event : failures[x] = MaxAttempts + 1 => failures'[x] = MaxAttempts + 1
      /\ l = "retry" => \A n \in 0 .. MaxAttempts : failures[m.event] >= n =>
                           failures'[m.event] >= n + 1
  <2>1. CASE Failed(m.event)
    BY <1>1, <1>3, <2>1, FailedCounts
  <2>2. CASE UNCHANGED failures /\ l # "retry"
    <3>1. \A x \in Event : failures[x] \in 0 .. MaxAttempts + 1
      BY <1>1 DEF TypeOK
    <3>2. \A x \in Event : failures[x] >= failures[x]
      BY <1>1, <3>1
    <3> QED BY <1>1, <2>2, <3>2 DEF TypeOK
  <2> QED BY <1>4, <2>1, <2>2
<1>7. /\ claimed' \subseteq Event
      /\ jobs' \in [Event -> {"none", "processing", "processed", "failed"}]
  BY <1>1, <1>3, <1>4 DEF TypeOK, StartJob
<1>8. TypeOK'
  BY <1>1, <1>2, <1>5, <1>6, <1>7 DEF TypeOK, PC
<1>r. RecordsStay
  BY <1>2 DEF RecordsStay, Recorded
<1>9. Claims'
  <2>1. CASE l # "work"
    <3>1. \A u \in Task :
            \/ pc'[u] = pc[u] /\ msg'[u] = msg[u]
            \/ pc[u] # "work" /\ pc'[u] # "work"
      BY <1>2, <1>5, <2>1
    <3>2. UNCHANGED <<durable, claimed, jobs, made>>
      BY <1>2, <1>4, <2>1
    <3> QED BY Zenon, <1>1, <1>r, <3>1, <3>2, ClaimsKept
  <2>2. CASE l = "work" /\ ~durable
    <3>1. /\ m.event \notin claimed /\ claimed' = claimed \cup {m.event}
          /\ jobs' = [jobs EXCEPT ![m.event] = "processing"]
      BY <1>4, <2>2 DEF Unclaimed, StartJob
    <3>2. /\ jobs'[m.event] = "processing"
          /\ \A e \in Event \ {m.event} : jobs'[e] = jobs[e]
      BY <1>1, <1>3, <3>1 DEF TypeOK
    <3>3. ~\E u \in Task : WorksOn(u, m.event)
      BY <1>1, <1>3, <2>2, <3>1 DEF Claims
    <3>4. \A u \in Task : \A e \in Event :
            WorksOn(u, e)' <=> IF e = m.event THEN u = t ELSE WorksOn(u, e)
      BY <1>2, <1>5, <2>2, <3>3 DEF WorksOn
    <3>5. made[m.event] = 0
      BY <1>1, <1>3, <2>2, <3>1 DEF Claims
    <3>6. ASSUME NEW e \in Event
          PROVE  /\ e \in claimed' <=> jobs'[e] \in {"processing", "processed"}
                 /\ jobs'[e] = "processing" <=> \E u \in Task : WorksOn(u, e)'
                 /\ made'[e] = IF jobs'[e] = "processed" THEN 1 ELSE 0
                 /\ jobs'[e] = "processed" => Recorded(e)'
      <4>1. CASE e = m.event
        BY <1>2, <3>1, <3>2, <3>4, <3>5, <4>1
      <4>2. CASE e # m.event
        BY <1>1, <1>2, <1>r, <2>2, <3>1, <3>2, <3>4, <4>2 DEF Claims, RecordsStay
      <4> QED BY <4>1, <4>2
    <3>7. ASSUME NEW e \in Event, NEW u \in Task, NEW v \in Task, WorksOn(u, e)', WorksOn(v, e)'
          PROVE  u = v
      BY <1>1, <2>2, <3>4, <3>7 DEF Claims
    <3> QED BY <3>6, <3>7 DEF Claims
  <2>3. CASE durable
    BY <1>2, <2>3 DEF Claims
  <2> QED BY <2>1, <2>2, <2>3
<1>10. ASSUME drops' = 0, NEW x \in Event, copies'[x] > 0 PROVE Safe(x)'
  <2>1. Safe(x)
    BY <1>1, <1>2, <1>10, LosslessParts
  <2>2. ASSUME NEW u \in Task, pc[u] \in Holding, msg[u].event = x PROVE Safe(x)'
    BY <1>2, <1>5, <2>2 DEF Safe, Holding
  <2>3. CASE x # m.event
    <3>1. Waiting(x) => Safe(x)'
      BY <1>5, <2>3 DEF Safe, Holding
    <3> QED BY <1>2, <1>r, <2>1, <2>2, <3>1, SafeKept
  <2>4. CASE x = m.event /\ l \in Holding
    BY <1>5, <2>4 DEF Safe, Holding
  <2>5. CASE x = m.event /\ l = "ack"
    <3>1. ~durable /\ x \in claimed
      BY <1>4, <2>5 DEF Unclaimed
    <3>2. CASE jobs[x] = "processing"
      <4>1. PICK u \in Task : WorksOn(u, x)
        BY <1>1, <3>1, <3>2 DEF Claims
      <4> QED BY <2>2, <4>1 DEF WorksOn, Holding
    <3>3. CASE jobs[x] = "processed"
      <4>1. Recorded(x)'
        BY <1>1, <1>r, <3>1, <3>3 DEF Claims, RecordsStay
      <4> QED BY <4>1 DEF Safe, Holding
    <3> QED BY <1>1, <3>1, <3>2, <3>3 DEF Claims
  <2> QED BY <2>3, <2>4, <2>5 DEF Holding
<1>11. ASSUME drops' = 0 PROVE RetriesEarned' /\ DeadLetterEarned'
  <2>1. drops = 0
    BY <1>2, <1>11
  <2>2. failures[m.event] >= m.retries
    BY <1>1, <1>2, <2>1, LosslessParts
  <2>3. failures'[m.event] >= m.retries
    <3>1. failures[m.event] \in 0 .. MaxAttempts + 1 /\ failures'[m.event] \in 0 .. MaxAttempts + 1
      BY <1>1, <1>3, <1>6 DEF TypeOK
    <3>2. failures'[m.event] >= failures[m.event]
      BY <1>3, <1>6
    <3> QED BY <1>1, <1>3, <2>2, <3>1, <3>2
  <2>4. l = "retry" => failures'[m.event] >= m.retries + 1
    BY <1>3, <1>6, <2>2
  <2>5. /\ pc'[t] # "idle" => failures'[msg'[t].event] >= msg'[t].retries
        /\ pc'[t] = "retry" => failures'[msg'[t].event] >= msg'[t].retries + 1
    BY <1>5, <2>3, <2>4
  <2>6. /\ \A x \in Msg : queue'[x] > 0 => queue[x] > 0 \/ failures'[x.event] >= x.retries
        /\ \A e \in dlq' : e \in dlq \/ failures'[e] = MaxAttempts + 1
    BY <1>2, <1>5
  <2> QED BY Zenon, <1>1, <1>5, <1>6, <2>1, <2>5, <2>6, EarnedKept
<1> QED BY <1>5, <1>8, <1>9, <1>10, <1>11 DEF IInv, Lossless

\* Complete keeps the invariant.
LEMMA CompleteStep ==
  ASSUME IInv, NEW t \in Task, Complete(t)
  PROVE  IInv'
<1>1. TypeOK /\ Tasks /\ Claims /\ Lossless /\ MaxAttempts \in Nat
  BY ProcessingAssumption DEF IInv
<1>2. PICK e : e = msg[t].event
  OBVIOUS
<1>3. /\ pc[t] = "work" /\ ~durable /\ Goto(t, "ack")
      /\ jobs' = [jobs EXCEPT ![e] = "processed"]
      /\ outbox' = [outbox EXCEPT ![e] = @ + 1]
      /\ made' = [made EXCEPT ![e] = @ + 1]
      /\ UNCHANGED <<durable, malformed, queue, dlq, copies, msg, stale, claimed, attempts,
                     crashes, drops, failures, fate>>
  BY <1>2 DEF Complete, config, broker, faults
<1>4. e \in Event /\ msg[t] \in Msg
  BY <1>1, <1>2, <1>3, HasMessage
<1>5. /\ pc' \in [Task -> PC] /\ msg' \in [Task -> Msg \cup {None}] /\ stale' \subseteq Task
      /\ pc'[t] = "ack" /\ \A u \in Task \ {t} : pc'[u] = pc[u] /\ msg'[u] = msg[u]
      /\ Tasks'
  <2>1. "ack" \in PC \ {"idle"} /\ pc[t] # "idle"
    BY <1>3 DEF PC
  <2> QED BY <1>1, <1>3, <2>1, GotoFacts
<1>6. /\ outbox' \in [Event -> Nat] /\ outbox'[e] > 0
      /\ \A x \in Event \ {e} : outbox'[x] = outbox[x]
  <2>1. outbox \in [Event -> Nat]
    BY <1>1 DEF TypeOK
  <2>2. outbox[e] \in Nat
    BY <1>4, <2>1
  <2>3. outbox[e] + 1 \in Nat /\ outbox[e] + 1 > 0
    BY <2>2
  <2> QED BY <1>3, <1>4, <2>1, <2>3
<1>7. /\ made[e] = 0 /\ jobs[e] = "processing" /\ e \in claimed
      /\ \A u \in Task : WorksOn(u, e) => u = t
  BY <1>1, <1>2, <1>3, <1>4 DEF Claims, WorksOn
<1>8. /\ made' \in [Event -> Nat] /\ made'[e] = 1
      /\ \A x \in Event \ {e} : made'[x] = made[x]
  <2>1. made \in [Event -> Nat] /\ made' = [made EXCEPT ![e] = made[e] + 1]
    BY <1>1, <1>3 DEF TypeOK
  <2>2. made[e] + 1 = 1
    BY <1>7
  <2> QED BY <1>4, <2>1, <2>2
<1>9. /\ jobs' \in [Event -> {"none", "processing", "processed", "failed"}]
      /\ jobs'[e] = "processed" /\ \A x \in Event \ {e} : jobs'[x] = jobs[x]
  BY <1>1, <1>3, <1>4 DEF TypeOK
<1>10. TypeOK'
  BY <1>1, <1>3, <1>5, <1>6, <1>8, <1>9 DEF TypeOK, PC
<1>r. RecordsStay /\ Recorded(e)'
  BY <1>3, <1>6 DEF RecordsStay, Recorded
<1>11. \A u \in Task : \A x \in Event : WorksOn(u, x)' <=> x # e /\ WorksOn(u, x)
  BY <1>2, <1>3, <1>5, <1>7 DEF WorksOn
<1>12. Claims'
  <2>1. ASSUME NEW x \in Event
        PROVE  /\ x \in claimed' <=> jobs'[x] \in {"processing", "processed"}
               /\ jobs'[x] = "processing" <=> \E u \in Task : WorksOn(u, x)'
               /\ made'[x] = IF jobs'[x] = "processed" THEN 1 ELSE 0
               /\ jobs'[x] = "processed" => Recorded(x)'
    <3>1. CASE x = e
      BY <1>3, <1>7, <1>8, <1>9, <1>11, <1>r, <3>1
    <3>2. CASE x # e
      BY <1>1, <1>3, <1>8, <1>9, <1>11, <1>r, <3>2 DEF Claims, RecordsStay
    <3> QED BY <3>1, <3>2
  <2>2. ASSUME NEW x \in Event, NEW u \in Task, NEW v \in Task, WorksOn(u, x)', WorksOn(v, x)'
        PROVE  u = v
    BY <1>1, <1>3, <1>11, <2>2 DEF Claims
  <2> QED BY <2>1, <2>2 DEF Claims
<1>13. ASSUME drops' = 0, NEW x \in Event, copies'[x] > 0 PROVE Safe(x)'
  <2>1. Safe(x)
    BY <1>1, <1>3, <1>13, LosslessParts
  <2>2. ASSUME NEW u \in Task, pc[u] \in Holding, msg[u].event = x PROVE Safe(x)'
    <3>1. CASE u = t
      BY <1>2, <1>r, <2>2, <3>1 DEF Safe, Holding
    <3>2. CASE u # t
      BY <1>5, <2>2, <3>2 DEF Safe, Holding
    <3> QED BY <3>1, <3>2
  <2>3. Waiting(x) => Safe(x)'
    BY <1>3 DEF Safe, Waiting, Holding
  <2> QED BY <1>3, <1>r, <2>1, <2>2, <2>3, SafeKept
<1>14. ASSUME drops' = 0 PROVE RetriesEarned' /\ DeadLetterEarned'
  <2>1. drops = 0
    BY <1>3, <1>14
  <2> QED BY <1>1, <1>3, <1>5, <2>1, LosslessParts DEF RetriesEarned, DeadLetterEarned
<1> QED BY <1>5, <1>10, <1>12, <1>13, <1>14 DEF IInv, Lossless

\* Fail keeps the invariant.
LEMMA FailStep ==
  ASSUME IInv, NEW t \in Task, Fail(t)
  PROVE  IInv'
<1>1. TypeOK /\ Tasks /\ Claims /\ Lossless /\ MaxAttempts \in Nat
  BY ProcessingAssumption DEF IInv
<1>2. PICK e : e = msg[t].event
  OBVIOUS
<1>3. /\ pc[t] = "work" /\ Goto(t, "retry") /\ FailJob(e) /\ ReleaseEvent(e) /\ Failed(e)
      /\ UNCHANGED <<durable, malformed, queue, dlq, copies, msg, stale, outbox, attempts, made,
                     crashes, drops, fate>>
  BY <1>2 DEF Fail, config, broker, faults
<1>4. e \in Event /\ msg[t] \in Msg /\ msg[t].retries \in 0 .. MaxAttempts
  BY <1>1, <1>2, <1>3, HasMessage
<1>5. /\ pc' \in [Task -> PC] /\ msg' \in [Task -> Msg \cup {None}] /\ stale' \subseteq Task
      /\ pc'[t] = "retry" /\ \A u \in Task \ {t} : pc'[u] = pc[u] /\ msg'[u] = msg[u]
      /\ Tasks'
  <2>1. "retry" \in PC \ {"idle"} /\ pc[t] # "idle"
    BY <1>3 DEF PC
  <2> QED BY <1>1, <1>3, <2>1, GotoFacts
<1>6. /\ failures' \in [Event -> 0 .. MaxAttempts + 1]
      /\ \A x \in Event : failures'[x] >= failures[x]
      /\ \A n \in 0 .. MaxAttempts : failures[e] >= n => failures'[e] >= n + 1
      /\ \A x \in Event : failures[x] = MaxAttempts + 1 => failures'[x] = MaxAttempts + 1
  BY <1>1, <1>3, <1>4, FailedCounts
<1>7. /\ claimed' \subseteq Event
      /\ jobs' \in [Event -> {"none", "processing", "processed", "failed"}]
  BY <1>1, <1>3, <1>4 DEF TypeOK, FailJob, ReleaseEvent
<1>8. TypeOK'
  BY <1>1, <1>3, <1>5, <1>6, <1>7 DEF TypeOK, PC
<1>r. RecordsStay
  BY <1>3 DEF RecordsStay, Recorded
<1>9. Claims'
  <2>1. CASE durable
    BY <1>3, <2>1 DEF Claims
  <2>2. CASE ~durable
    <3>1. /\ claimed' = claimed \ {e} /\ jobs'[e] = "failed"
          /\ \A x \in Event \ {e} : jobs'[x] = jobs[x]
      BY <1>1, <1>3, <1>4, <2>2 DEF TypeOK, FailJob, ReleaseEvent
    <3>2. made[e] = 0 /\ \A u \in Task : WorksOn(u, e) => u = t
      BY <1>1, <1>2, <1>3, <1>4, <2>2 DEF Claims, WorksOn
    <3>3. \A u \in Task : \A x \in Event : WorksOn(u, x)' <=> x # e /\ WorksOn(u, x)
      BY <1>2, <1>3, <1>5, <3>2 DEF WorksOn
    <3>4. ASSUME NEW x \in Event
          PROVE  /\ x \in claimed' <=> jobs'[x] \in {"processing", "processed"}
                 /\ jobs'[x] = "processing" <=> \E u \in Task : WorksOn(u, x)'
                 /\ made'[x] = IF jobs'[x] = "processed" THEN 1 ELSE 0
                 /\ jobs'[x] = "processed" => Recorded(x)'
      <4>1. CASE x = e
        BY <1>3, <3>1, <3>2, <3>3, <4>1
      <4>2. CASE x # e
        BY <1>1, <1>3, <1>r, <2>2, <3>1, <3>3, <4>2 DEF Claims, RecordsStay
      <4> QED BY <4>1, <4>2
    <3>5. ASSUME NEW x \in Event, NEW u \in Task, NEW v \in Task, WorksOn(u, x)', WorksOn(v, x)'
          PROVE  u = v
      BY <1>1, <2>2, <3>3, <3>5 DEF Claims
    <3> QED BY <3>4, <3>5 DEF Claims
  <2> QED BY <2>1, <2>2
<1>10. ASSUME drops' = 0, NEW x \in Event, copies'[x] > 0 PROVE Safe(x)'
  <2>1. Safe(x)
    BY <1>1, <1>3, <1>10, LosslessParts
  <2>2. ASSUME NEW u \in Task, pc[u] \in Holding, msg[u].event = x PROVE Safe(x)'
    <3>1. pc'[u] \in Holding /\ msg'[u].event = x
      BY <1>3, <1>5, <2>2 DEF Holding
    <3> QED BY <3>1 DEF Safe, Holding
  <2>3. Waiting(x) => Safe(x)'
    BY <1>3 DEF Safe, Waiting, Holding
  <2> QED BY <1>3, <1>r, <2>1, <2>2, <2>3, SafeKept
<1>11. ASSUME drops' = 0 PROVE RetriesEarned' /\ DeadLetterEarned'
  <2>1. drops = 0
    BY <1>3, <1>11
  <2>2. failures[e] >= msg[t].retries
    BY <1>1, <1>2, <1>3, <2>1, LosslessParts
  <2>3. failures'[e] >= msg[t].retries + 1
    BY <1>4, <1>6, <2>2
  <2>4. failures'[e] >= msg[t].retries
    <3>1. failures'[e] \in 0 .. MaxAttempts + 1
      BY <1>4, <1>6
    <3> QED BY <1>1, <1>4, <2>3, <3>1
  <2>5. /\ pc'[t] # "idle" => failures'[msg'[t].event] >= msg'[t].retries
        /\ pc'[t] = "retry" => failures'[msg'[t].event] >= msg'[t].retries + 1
    BY <1>2, <1>3, <2>3, <2>4
  <2>6. /\ \A x \in Msg : queue'[x] > 0 => queue[x] > 0 \/ failures'[x.event] >= x.retries
        /\ \A x \in dlq' : x \in dlq \/ failures'[x] = MaxAttempts + 1
    BY <1>3
  <2> QED BY Zenon, <1>1, <1>5, <1>6, <2>1, <2>5, <2>6, EarnedKept
<1> QED BY <1>5, <1>8, <1>9, <1>10, <1>11 DEF IInv, Lossless

\* A step of a task that does not work keeps the invariant, when the queue and
\* the dead letters only gain, what they gain is earned, and a task that gives
\* up its retry leaves the event safe.
LEMMA MoveStep ==
  ASSUME IInv, NEW t \in Task, pc[t] \in {"ack", "retry", "ackOld"}, NEW e, e = msg[t].event,
         UNCHANGED <<durable, malformed, copies, claimed, jobs, outbox, attempts, made,
                     crashes, drops, failures, fate>>,
         pc' \in [Task -> PC], msg' \in [Task -> Msg \cup {None}], stale' \subseteq Task, Tasks',
         pc'[t] # "work", \A u \in Task \ {t} : pc'[u] = pc[u] /\ msg'[u] = msg[u],
         queue' \in [Msg -> Nat], \A x \in Event : Waiting(x) => Waiting(x)',
         dlq' \subseteq Event, dlq \subseteq dlq',
         drops = 0 =>
           /\ pc[t] = "retry" => Safe(e)'
           /\ pc'[t] # "idle" => pc'[t] \in {"ackOld", "unacked"} /\ msg'[t] = msg[t]
           /\ \A m \in Msg : queue'[m] > 0 => queue[m] > 0 \/ failures[m.event] >= m.retries
           /\ \A x \in dlq' : x \in dlq \/ failures[x] = MaxAttempts + 1
  PROVE  IInv'
<1>1. TypeOK /\ Tasks /\ Claims /\ Lossless
  BY DEF IInv
<1>2. TypeOK'
  BY <1>1 DEF TypeOK, PC
<1>r. RecordsStay
  BY DEF RecordsStay, Recorded
<1>3. Claims'
  <2>1. \A u \in Task :
          \/ pc'[u] = pc[u] /\ msg'[u] = msg[u]
          \/ pc[u] # "work" /\ pc'[u] # "work"
    OBVIOUS
  <2>2. UNCHANGED <<durable, claimed, jobs, made>>
    OBVIOUS
  <2> QED BY Zenon, <1>1, <1>r, <2>1, <2>2, ClaimsKept
<1>4. ASSUME drops' = 0, NEW x \in Event, copies'[x] > 0 PROVE Safe(x)'
  <2>1. Safe(x) /\ drops = 0
    BY <1>1, <1>4, LosslessParts
  <2>2. ASSUME NEW u \in Task, pc[u] \in Holding, msg[u].event = x PROVE Safe(x)'
    <3>1. CASE u = t
      BY <2>1, <2>2, <3>1 DEF Holding
    <3>2. CASE u # t
      BY <2>2, <3>2 DEF Safe, Holding
    <3> QED BY <3>1, <3>2
  <2>3. Waiting(x) => Safe(x)'
    BY DEF Safe, Holding
  <2> QED BY <1>r, <2>1, <2>2, <2>3, SafeKept
<1>5. ASSUME drops' = 0 PROVE RetriesEarned' /\ DeadLetterEarned'
  <2>1. drops = 0
    BY <1>5
  <2>2. failures \in [Event -> 0 .. MaxAttempts + 1] /\ MaxAttempts \in Nat
    BY <1>1, ProcessingAssumption DEF TypeOK
  <2>3. \A x \in Event : failures'[x] \in 0 .. MaxAttempts + 1 /\ failures'[x] = failures[x]
    BY <2>2
  <2>4. /\ \A x \in Event : failures'[x] >= failures[x]
        /\ \A x \in Event : failures[x] = MaxAttempts + 1 => failures'[x] = MaxAttempts + 1
    BY <2>2, <2>3
  <2>5. pc'[t] # "idle" => failures'[msg'[t].event] >= msg'[t].retries
    BY <1>1, <2>1, LosslessParts
  <2>6. pc'[t] # "retry"
    BY <2>1
  <2>7. failures' \in [Event -> 0 .. MaxAttempts + 1]
    BY <2>2
  <2>8. /\ \A m \in Msg : queue'[m] > 0 => queue[m] > 0 \/ failures'[m.event] >= m.retries
        /\ \A x \in dlq' : x \in dlq \/ failures'[x] = MaxAttempts + 1
    BY <2>1
  <2> QED BY Zenon, <1>1, <2>1, <2>4, <2>5, <2>6, <2>7, <2>8, EarnedKept
<1> QED BY <1>2, <1>3, <1>4, <1>5 DEF IInv, Lossless

\* Ack keeps the invariant.
LEMMA AckStep ==
  ASSUME IInv, NEW t \in Task, Ack(t)
  PROVE  IInv'
<1>1. TypeOK /\ Tasks /\ Claims /\ Lossless
  BY DEF IInv
<1>2. /\ pc[t] = "ack" /\ pc[t] # "idle"
      /\ UNCHANGED <<durable, malformed, queue, dlq, copies, claimed, jobs, outbox, attempts, made,
                     crashes, drops, failures, fate>>
  BY DEF Ack, config, broker, memory, faults
<1>3. /\ queue' \in [Msg -> Nat] /\ dlq' \subseteq Event /\ dlq \subseteq dlq'
      /\ \A x \in Event : Waiting(x) => Waiting(x)'
      /\ \A m \in Msg : queue'[m] > 0 => queue[m] > 0
  BY <1>1, <1>2 DEF TypeOK, Waiting
<1>4. CASE t \notin stale /\ End(t)
  <2>1. /\ pc' \in [Task -> PC] /\ msg' \in [Task -> Msg \cup {None}] /\ stale' \subseteq Task
        /\ pc'[t] = "idle" /\ \A u \in Task \ {t} : pc'[u] = pc[u] /\ msg'[u] = msg[u]
        /\ Tasks'
    BY <1>1, <1>2, <1>4, EndFacts
  <2> QED BY <1>2, <1>3, <2>1, MoveStep
<1>5. CASE t \in stale /\ Goto(t, "retry") /\ UNCHANGED <<msg, stale>>
  <2>1. "retry" \in PC \ {"idle"} /\ drops # 0
    BY <1>1, <1>5 DEF PC, Tasks
  <2>2. /\ pc' \in [Task -> PC] /\ msg' \in [Task -> Msg \cup {None}] /\ stale' \subseteq Task
        /\ pc'[t] = "retry" /\ \A u \in Task \ {t} : pc'[u] = pc[u] /\ msg'[u] = msg[u]
        /\ Tasks'
    BY <1>1, <1>2, <1>5, <2>1, GotoFacts
  <2> QED BY <1>2, <1>3, <2>1, <2>2, MoveStep
<1> QED BY <1>4, <1>5 DEF Ack

\* Retry keeps the invariant.
LEMMA RetryStep ==
  ASSUME IInv, NEW t \in Task, Retry(t)
  PROVE  IInv'
<1>1. TypeOK /\ Tasks /\ Claims /\ Lossless /\ MaxAttempts \in Nat
  BY ProcessingAssumption DEF IInv
<1>2. /\ pc[t] = "retry" /\ pc[t] # "idle" /\ MayRetry(msg[t])
      /\ UNCHANGED <<durable, malformed, dlq, copies, claimed, jobs, outbox, attempts, made,
                     crashes, drops, failures, fate>>
  BY DEF Retry, config, memory, faults
<1>3. dlq' \subseteq Event /\ dlq \subseteq dlq' /\ \A e \in dlq' : e \in dlq
  BY <1>1, <1>2 DEF TypeOK
<1>4. CASE Put(NextTry(msg[t])) /\ Goto(t, "ackOld") /\ UNCHANGED <<msg, stale>>
  <2>1. /\ msg[t] \in Msg /\ msg[t].event \in Event /\ msg[t].retries \in 0 .. MaxAttempts
        /\ msg[t].retries < MaxAttempts
    BY <1>1, <1>2, HasMessage DEF MayRetry
  <2>2. msg[t].retries + 1 \in 0 .. MaxAttempts
    BY <1>1, <2>1
  <2>3. PICK m \in Msg : m = NextTry(msg[t]) /\ m.event = msg[t].event /\ m.retries = msg[t].retries + 1
    BY <2>1, <2>2, NextTryFacts
  <2>4. /\ queue' \in [Msg -> Nat] /\ queue'[m] > 0
        /\ \A x \in Msg \ {m} : queue'[x] = queue[x]
        /\ \A x \in Event : Waiting(x) => Waiting(x)'
    BY <1>1, <1>4, <2>3, PutFacts
  <2>5. "ackOld" \in PC \ {"idle"}
    BY DEF PC
  <2>6. /\ pc' \in [Task -> PC] /\ msg' \in [Task -> Msg \cup {None}] /\ stale' \subseteq Task
        /\ pc'[t] = "ackOld" /\ \A u \in Task \ {t} : pc'[u] = pc[u] /\ msg'[u] = msg[u]
        /\ msg'[t] = msg[t] /\ Tasks'
    BY <1>1, <1>2, <1>4, <2>5, GotoFacts
  <2>7. PICK e : e = msg[t].event /\ Safe(e)'
    <3>1. PICK e : e = msg[t].event
      OBVIOUS
    <3>2. Waiting(e)'
      BY <2>3, <2>4, <3>1 DEF Waiting
    <3>3. Safe(e)'
      BY <3>2 DEF Safe, Holding
    <3> QED BY <3>1, <3>3
  <2>8. ASSUME drops = 0, NEW x \in Msg, queue'[x] > 0 PROVE queue[x] > 0 \/ failures[x.event] >= x.retries
    <3>1. failures[m.event] >= m.retries
      BY <1>1, <1>2, <2>3, <2>8, LosslessParts
    <3> QED BY <2>4, <2>8, <3>1
  <2> QED BY <1>2, <1>3, <2>4, <2>6, <2>7, <2>8, MoveStep
<1>5. CASE t \in stale /\ End(t) /\ UNCHANGED queue
  <2>1. drops # 0
    BY <1>1, <1>5 DEF Tasks
  <2>2. /\ pc' \in [Task -> PC] /\ msg' \in [Task -> Msg \cup {None}] /\ stale' \subseteq Task
        /\ pc'[t] = "idle" /\ \A u \in Task \ {t} : pc'[u] = pc[u] /\ msg'[u] = msg[u]
        /\ Tasks'
    BY <1>1, <1>2, <1>5, EndFacts
  <2>3. queue' \in [Msg -> Nat] /\ \A x \in Event : Waiting(x) => Waiting(x)'
    BY <1>1, <1>5 DEF TypeOK, Waiting
  <2> QED BY <1>2, <1>3, <2>1, <2>2, <2>3, MoveStep
<1>6. CASE t \notin stale /\ Goto(t, "unacked") /\ UNCHANGED <<queue, msg, stale>>
  <2>1. "unacked" \in PC \ {"idle"}
    BY DEF PC
  <2>2. /\ pc' \in [Task -> PC] /\ msg' \in [Task -> Msg \cup {None}] /\ stale' \subseteq Task
        /\ pc'[t] = "unacked" /\ \A u \in Task \ {t} : pc'[u] = pc[u] /\ msg'[u] = msg[u]
        /\ msg'[t] = msg[t] /\ Tasks'
    BY <1>1, <1>2, <1>6, <2>1, GotoFacts
  <2>3. queue' \in [Msg -> Nat] /\ \A x \in Event : Waiting(x) => Waiting(x)'
    BY <1>1, <1>6 DEF TypeOK, Waiting
  <2>4. PICK e : e = msg[t].event
    OBVIOUS
  <2>5. Safe(e)'
    BY <2>2, <2>4 DEF Safe, Holding
  <2>6. \A m \in Msg : queue'[m] > 0 => queue[m] > 0
    BY <1>6
  <2> QED BY <1>2, <1>3, <2>2, <2>3, <2>4, <2>5, <2>6, MoveStep
<1> QED BY <1>4, <1>5, <1>6 DEF Retry

\* AckOld keeps the invariant.
LEMMA AckOldStep ==
  ASSUME IInv, NEW t \in Task, AckOld(t)
  PROVE  IInv'
<1>1. TypeOK /\ Tasks /\ Claims /\ Lossless
  BY DEF IInv
<1>2. /\ pc[t] = "ackOld" /\ pc[t] # "idle" /\ End(t)
      /\ UNCHANGED <<durable, malformed, queue, dlq, copies, claimed, jobs, outbox, attempts, made,
                     crashes, drops, failures, fate>>
  BY DEF AckOld, config, broker, memory, faults
<1>3. /\ queue' \in [Msg -> Nat] /\ dlq' \subseteq Event /\ dlq \subseteq dlq'
      /\ \A x \in Event : Waiting(x) => Waiting(x)'
  BY <1>1, <1>2 DEF TypeOK, Waiting
<1>4. /\ pc' \in [Task -> PC] /\ msg' \in [Task -> Msg \cup {None}] /\ stale' \subseteq Task
      /\ pc'[t] = "idle" /\ \A u \in Task \ {t} : pc'[u] = pc[u] /\ msg'[u] = msg[u]
      /\ Tasks'
  BY <1>1, <1>2, EndFacts
<1> QED BY <1>2, <1>3, <1>4, MoveStep

\* Reject keeps the invariant.
LEMMA RejectStep ==
  ASSUME IInv, NEW t \in Task, Reject(t)
  PROVE  IInv'
<1>1. TypeOK /\ Tasks /\ Claims /\ Lossless /\ MaxAttempts \in Nat
  BY ProcessingAssumption DEF IInv
<1>2. /\ pc[t] = "retry" /\ pc[t] # "idle" /\ ~MayRetry(msg[t]) /\ End(t)
      /\ dlq' = IF t \in stale THEN dlq ELSE dlq \cup {msg[t].event}
      /\ UNCHANGED <<durable, malformed, queue, copies, claimed, jobs, outbox, attempts, made,
                     crashes, drops, failures, fate>>
  BY DEF Reject, config, memory, faults
<1>3. /\ msg[t].event \in Event /\ msg[t].retries = MaxAttempts
  BY <1>1, <1>2, HasMessage DEF MayRetry
<1>4. /\ queue' \in [Msg -> Nat] /\ dlq' \subseteq Event /\ dlq \subseteq dlq'
      /\ \A x \in Event : Waiting(x) => Waiting(x)'
  BY <1>1, <1>2, <1>3 DEF TypeOK, Waiting
<1>5. /\ pc' \in [Task -> PC] /\ msg' \in [Task -> Msg \cup {None}] /\ stale' \subseteq Task
      /\ pc'[t] = "idle" /\ \A u \in Task \ {t} : pc'[u] = pc[u] /\ msg'[u] = msg[u]
      /\ Tasks'
  BY <1>1, <1>2, EndFacts
<1>6. PICK e \in Event : e = msg[t].event
  BY <1>3
<1>7. ASSUME drops = 0 PROVE failures[e] = MaxAttempts + 1 /\ e \in dlq'
  <2>1. failures[e] >= MaxAttempts + 1
    BY <1>1, <1>2, <1>3, <1>6, <1>7, LosslessParts
  <2>2. failures[e] \in 0 .. MaxAttempts + 1
    BY <1>1 DEF TypeOK
  <2>3. t \notin stale
    BY <1>1, <1>7 DEF Tasks
  <2> QED BY <1>1, <1>2, <1>6, <2>1, <2>2, <2>3
<1>8. ASSUME drops = 0 PROVE Safe(e)'
  BY <1>7, <1>8 DEF Safe, Holding
<1>9. ASSUME drops = 0, NEW x \in dlq' PROVE x \in dlq \/ failures[x] = MaxAttempts + 1
  BY <1>2, <1>6, <1>7, <1>9
<1> QED BY <1>2, <1>4, <1>5, <1>6, <1>8, <1>9, MoveStep

\* A step of the publisher keeps the invariant, when what was recorded stays
\* recorded.
LEMMA PublisherStep ==
  ASSUME IInv, RecordsStay,
         UNCHANGED <<durable, malformed, queue, dlq, copies, pc, msg, stale, claimed, jobs, made,
                     crashes, drops, failures>>,
         outbox' \in [Event -> Nat], attempts' \in [Event -> 0 .. MaxAttempts],
         fate' \in [Event -> SUBSET {"announced", "given up", "forgotten"}]
  PROVE  IInv'
<1>1. TypeOK /\ Tasks /\ Claims /\ Lossless
  BY DEF IInv
<1>2. TypeOK' /\ Tasks'
  BY <1>1 DEF TypeOK, Tasks
<1>3. Claims'
  <2>1. \A u \in Task :
          \/ pc'[u] = pc[u] /\ msg'[u] = msg[u]
          \/ pc[u] # "work" /\ pc'[u] # "work"
    OBVIOUS
  <2>2. UNCHANGED <<durable, claimed, jobs, made>>
    OBVIOUS
  <2> QED BY Zenon, <1>1, <2>1, <2>2, ClaimsKept
<1>4. ASSUME drops' = 0, NEW x \in Event, copies'[x] > 0 PROVE Safe(x)'
  <2>1. Safe(x)
    BY <1>1, <1>4, LosslessParts
  <2>2. \A u \in Task : pc[u] \in Holding /\ msg[u].event = x => Safe(x)'
    BY DEF Safe, Holding
  <2>3. Waiting(x) => Safe(x)'
    BY DEF Safe, Waiting, Holding
  <2> QED BY <2>1, <2>2, <2>3, SafeKept
<1>5. ASSUME drops' = 0 PROVE RetriesEarned' /\ DeadLetterEarned'
  BY <1>1, <1>5, LosslessParts DEF RetriesEarned, DeadLetterEarned
<1> QED BY <1>2, <1>3, <1>4, <1>5 DEF IInv, Lossless

\* PublishOutbox and PublishFails keep the invariant.
LEMMA PublishStep ==
  ASSUME IInv, NEW e \in Event, Publish(e)
  PROVE  IInv'
<1>1. /\ outbox \in [Event -> Nat] /\ attempts \in [Event -> 0 .. MaxAttempts] /\ MaxAttempts \in Nat
      /\ fate \in [Event -> SUBSET {"announced", "given up", "forgotten"}]
  BY ProcessingAssumption DEF IInv, TypeOK
<1>2. /\ outbox[e] > 0
      /\ UNCHANGED <<durable, malformed, queue, dlq, copies, pc, msg, stale, claimed, jobs, made,
                     crashes, drops, failures>>
  BY DEF Publish, PublishOutbox, PublishFails, config, broker, faults
<1>3. outbox[e] \in Nat /\ attempts[e] \in 0 .. MaxAttempts
  BY <1>1
<1>m. MaxAttempts \in Nat /\ outbox[e] > 0
  BY <1>1, <1>2
<1>n. outbox[e] - 1 \in Nat
  <2>1. ASSUME NEW n \in Nat, n > 0 PROVE n - 1 \in Nat
    BY <2>1
  <2> QED BY <1>3, <1>m, <2>1
<1>z. 0 \in 0 .. MaxAttempts
  BY <1>m
<1>4. CASE /\ attempts[e] + 1 < MaxAttempts
           /\ attempts' = [attempts EXCEPT ![e] = @ + 1] /\ UNCHANGED <<outbox, fate>>
  <2>1. attempts[e] + 1 \in 0 .. MaxAttempts
    <3>1. attempts[e] + 1 < MaxAttempts
      BY <1>4
    <3> QED BY <1>3, <1>m, <3>1
  <2>2. attempts' \in [Event -> 0 .. MaxAttempts]
    BY <1>1, <1>4, <2>1
  <2>3. RecordsStay
    BY <1>4 DEF RecordsStay, Recorded
  <2> QED BY <1>1, <1>2, <1>4, <2>2, <2>3, PublisherStep
<1>5. ASSUME NEW f \in {"announced", "given up"},
             outbox' = [outbox EXCEPT ![e] = @ - 1], attempts' = [attempts EXCEPT ![e] = 0],
             fate' = [fate EXCEPT ![e] = @ \cup {f}]
      PROVE  IInv'
  <2>1. outbox[e] - 1 \in Nat /\ 0 \in 0 .. MaxAttempts
    BY <1>n, <1>z
  <2>2. /\ outbox' \in [Event -> Nat] /\ attempts' \in [Event -> 0 .. MaxAttempts]
        /\ \A x \in Event \ {e} : outbox'[x] = outbox[x]
    BY <1>1, <1>5, <2>1
  <2>3. fate[e] \cup {f} \in SUBSET {"announced", "given up", "forgotten"}
    BY <1>1
  <2>4. /\ fate' \in [Event -> SUBSET {"announced", "given up", "forgotten"}]
        /\ fate'[e] # {} /\ \A x \in Event \ {e} : fate'[x] = fate[x]
    BY <1>1, <1>5, <2>3
  <2>5. RecordsStay
    BY <2>2, <2>4 DEF RecordsStay, Recorded
  <2> QED BY <1>2, <2>2, <2>4, <2>5, PublisherStep
<1> QED BY <1>4, <1>5 DEF Publish, PublishOutbox, PublishFails

\* Crash keeps the invariant.
LEMMA CrashStep ==
  ASSUME IInv, Crash
  PROVE  IInv'
<1>1. TypeOK /\ Tasks /\ Claims /\ Lossless /\ MaxAttempts \in Nat /\ MaxCrashes \in Nat
  BY ProcessingAssumption DEF IInv
<1>2. /\ TakenBack(Task) /\ crashes < MaxCrashes /\ crashes' = crashes + 1
      /\ pc' = [t \in Task |-> "idle"] /\ msg' = [t \in Task |-> None] /\ stale' = {}
      /\ claimed' = {} /\ jobs' = [e \in Event |-> "none"]
      /\ outbox' = Zero /\ attempts' = Zero /\ made' = Zero
      /\ fate' = [e \in Event |-> IF outbox[e] > 0 THEN fate[e] \cup {"forgotten"} ELSE fate[e]]
      /\ UNCHANGED <<durable, malformed, dlq, copies, drops, failures>>
  BY DEF Crash, config
<1>3. /\ queue' \in [Msg -> Nat]
      /\ \A m \in Msg : queue[m] > 0 => queue'[m] > 0
      /\ \A t \in Task \ stale : msg[t] \in Msg => queue'[msg[t]] > 0
      /\ \A m \in Msg : queue'[m] > 0 => queue[m] > 0 \/ \E t \in Task : msg[t] = m
  BY <1>1, <1>2, TakenBackFacts
<1>4. outbox' \in [Event -> Nat] /\ attempts' \in [Event -> 0 .. MaxAttempts] /\ made' \in [Event -> Nat]
  <2>1. 0 \in Nat /\ 0 \in 0 .. MaxAttempts
    BY <1>1
  <2> QED BY <1>2, <2>1 DEF Zero
<1>5. fate' \in [Event -> SUBSET {"announced", "given up", "forgotten"}]
  <2>1. \A e \in Event : fate[e] \in SUBSET {"announced", "given up", "forgotten"}
    BY <1>1 DEF TypeOK
  <2> QED BY <1>2, <2>1
<1>6. crashes' \in 0 .. MaxCrashes
  <2>1. crashes \in 0 .. MaxCrashes /\ MaxCrashes \in Nat
    BY <1>1 DEF TypeOK
  <2>2. crashes < MaxCrashes /\ crashes' = crashes + 1
    BY <1>2
  <2> QED BY <2>1, <2>2
<1>7. TypeOK' /\ Tasks'
  BY <1>1, <1>2, <1>3, <1>4, <1>5, <1>6 DEF TypeOK, Tasks
<1>8. RecordsStay
  BY <1>2 DEF RecordsStay, Recorded
<1>9. Claims'
  <2>1. \A e \in Event : jobs'[e] = "none" /\ made'[e] = 0 /\ e \notin claimed'
    BY <1>2 DEF Zero
  <2>2. \A t \in Task : \A e : ~WorksOn(t, e)'
    BY <1>2 DEF WorksOn
  <2> QED BY <2>1, <2>2 DEF Claims
<1>10. ASSUME drops' = 0, NEW x \in Event, copies'[x] > 0 PROVE Safe(x)'
  <2>1. Safe(x) /\ drops = 0 /\ stale = {}
    BY <1>1, <1>2, <1>10, LosslessParts DEF Tasks
  <2>2. ASSUME NEW u \in Task, pc[u] \in Holding, msg[u].event = x PROVE Safe(x)'
    <3>1. msg[u] \in Msg
      BY <1>1, <2>2, HasMessage DEF Holding
    <3>2. PICK m \in Msg : m = msg[u]
      BY <3>1
    <3>3. queue'[m] > 0 /\ m.event = x
      BY <1>3, <2>1, <2>2, <3>2
    <3>4. Waiting(x)'
      BY <3>3 DEF Waiting
    <3> QED BY <3>4 DEF Safe, Holding
  <2>3. Waiting(x) => Safe(x)'
    BY <1>3 DEF Safe, Waiting, Holding
  <2> QED BY <1>2, <1>8, <2>1, <2>2, <2>3, SafeKept
<1>11. ASSUME drops' = 0 PROVE RetriesEarned' /\ DeadLetterEarned'
  <2>1. drops = 0
    BY <1>2, <1>11
  <2>2. ASSUME NEW m \in Msg, queue'[m] > 0 PROVE failures'[m.event] >= m.retries
    <3>1. CASE queue[m] > 0
      BY <1>1, <1>2, <2>1, <3>1, LosslessParts
    <3>2. CASE \E t \in Task : msg[t] = m
      <4>1. PICK t \in Task : msg[t] = m
        BY <3>2
      <4>2. pc[t] # "idle"
        BY <1>1, <4>1, MsgAssumption DEF Tasks
      <4> QED BY <1>1, <1>2, <2>1, <4>1, <4>2, LosslessParts
    <3> QED BY <1>3, <2>2, <3>1, <3>2
  <2>3. \A t \in Task : pc'[t] = "idle"
    BY <1>2
  <2>4. DeadLetterEarned'
    BY <1>1, <1>2, <2>1, LosslessParts DEF DeadLetterEarned
  <2> QED BY <2>2, <2>3, <2>4 DEF RetriesEarned
<1> QED BY <1>7, <1>9, <1>10, <1>11 DEF IInv, Lossless

\* Drop keeps the invariant.
LEMMA DropStep ==
  ASSUME IInv, Drop
  PROVE  IInv'
<1>1. TypeOK /\ Tasks /\ Claims /\ Lossless /\ MaxDrops \in Nat
  BY ProcessingAssumption DEF IInv
<1>2. /\ TakenBack(Task) /\ drops < MaxDrops /\ drops' = drops + 1
      /\ pc' = [t \in Task |-> IF pc[t] = "unacked" THEN "idle" ELSE pc[t]]
      /\ msg' = [t \in Task |-> IF pc[t] = "unacked" THEN None ELSE msg[t]]
      /\ stale' = {t \in Task : pc[t] \notin {"idle", "unacked"}}
      /\ UNCHANGED <<durable, malformed, dlq, copies, claimed, jobs, outbox, attempts, made,
                     crashes, failures, fate>>
  BY DEF Drop, config, memory
<1>3. queue' \in [Msg -> Nat]
  BY <1>1, <1>2, TakenBackFacts
<1>4. drops' \in 0 .. MaxDrops /\ drops' # 0
  <2>1. drops \in 0 .. MaxDrops /\ MaxDrops \in Nat
    BY <1>1 DEF TypeOK
  <2>2. drops < MaxDrops /\ drops' = drops + 1
    BY <1>2
  <2> QED BY <2>1, <2>2
<1>5. TypeOK' /\ Tasks'
  BY <1>1, <1>2, <1>3, <1>4 DEF TypeOK, Tasks
<1>6. Claims'
  <2>1. \A u \in Task :
          \/ pc'[u] = pc[u] /\ msg'[u] = msg[u]
          \/ pc[u] # "work" /\ pc'[u] # "work"
    BY <1>2
  <2>2. UNCHANGED <<durable, claimed, jobs, made>>
    BY <1>2
  <2>3. RecordsStay
    BY <1>2 DEF RecordsStay, Recorded
  <2> QED BY Zenon, <1>1, <2>1, <2>2, <2>3, ClaimsKept
<1> QED BY <1>4, <1>5, <1>6 DEF IInv, Lossless

-----------------------------------------------------------------------------
(* The theorems *)

\* The invariant holds before the first delivery.
LEMMA Initially == Init => IInv
<1> SUFFICES ASSUME Init PROVE IInv
  OBVIOUS
<1>1. /\ MaxAttempts \in Nat /\ MaxCopies \in Nat /\ MaxCrashes \in Nat /\ MaxDrops \in Nat
  BY ProcessingAssumption
<1>2. 0 \in Nat /\ 0 \in 0 .. MaxAttempts /\ 0 \in 0 .. MaxAttempts + 1 /\ 0 \in 0 .. MaxCopies
      /\ 0 \in 0 .. MaxCrashes /\ 0 \in 0 .. MaxDrops
  BY <1>1
<1>3. TypeOK
  BY <1>2 DEF Init, TypeOK, Zero
<1>4. Tasks
  BY DEF Init, Tasks
<1>5. Claims
  <2>1. \A e \in Event : jobs[e] = "none" /\ made[e] = 0 /\ e \notin claimed
    BY DEF Init, Zero
  <2>2. \A t \in Task : \A e : ~WorksOn(t, e)
    BY DEF Init, WorksOn
  <2> QED BY <2>1, <2>2 DEF Claims
<1>6. \A e \in Event : ~(copies[e] > 0)
  BY DEF Init, Zero
<1>7. (\A m \in Msg : ~(queue[m] > 0)) /\ (\A t \in Task : pc[t] = "idle") /\ dlq = {}
  BY DEF Init
<1>8. Lossless
  BY <1>6, <1>7 DEF Lossless, RetriesEarned, DeadLetterEarned
<1> QED BY <1>3, <1>4, <1>5, <1>8 DEF IInv

\* Every step keeps the invariant.
LEMMA Inductive == IInv /\ [Next]_vars => IInv'
<1> SUFFICES ASSUME IInv, [Next]_vars PROVE IInv'
  OBVIOUS
<1>1. ASSUME NEW e \in Event, Arrive(e) PROVE IInv'
  BY <1>1, ArriveStep
<1>2. ASSUME NEW e \in Event, Publish(e) PROVE IInv'
  BY <1>2, PublishStep
<1>3. ASSUME NEW t \in Task, NEW m \in Msg, Consume(t, m) PROVE IInv'
  BY <1>3, ConsumeStep
<1>4. ASSUME NEW t \in Task, TaskStep(t) PROVE IInv'
  BY <1>4, CompleteStep, FailStep, AckStep, RetryStep, AckOldStep, RejectStep DEF TaskStep
<1>5. CASE UNCHANGED vars
  <2>1. UNCHANGED <<durable, malformed, queue, dlq, copies, pc, msg, stale, claimed, jobs, made,
                    crashes, drops, failures, outbox, attempts, fate>>
    BY <1>5 DEF vars, broker, memory
  <2>2. RecordsStay
    BY <2>1 DEF RecordsStay, Recorded
  <2>3. /\ outbox' \in [Event -> Nat] /\ attempts' \in [Event -> 0 .. MaxAttempts]
        /\ fate' \in [Event -> SUBSET {"announced", "given up", "forgotten"}]
    BY <2>1 DEF IInv, TypeOK
  <2> QED BY <2>1, <2>2, <2>3, PublisherStep
<1> QED BY <1>1, <1>2, <1>3, <1>4, <1>5, CrashStep, DropStep DEF Next, Deliver

\* The inductive invariant holds throughout.
LEMMA Invariance == Spec => []IInv
BY Initially, Inductive, PTL DEF Spec

\* Every variable keeps its type, whatever the number of tasks, deliveries,
\* crashes and lost connections: in particular the worker never takes from an
\* empty queue or outbox.
THEOREM TypeCorrect == Spec => []TypeOK
<1>1. IInv => TypeOK
  BY DEF IInv
<1> QED BY <1>1, Invariance, PTL

\* As long as the connection to RabbitMQ holds, no uploaded document is lost
\* by the worker: neither by a failed attempt, nor by a retry published before
\* its acknowledgement, nor by a crash in between (handle and _consume).
THEOREM NothingLost == Spec => []NotLost
<1>1. IInv => NotLost
  <2> SUFFICES ASSUME IInv, drops = 0, NEW e \in Event, copies[e] > 0
               PROVE  Waiting(e) \/ InHand(e) \/ e \in dlq \/ Recorded(e)
    BY DEF NotLost
  <2>1. TypeOK /\ Tasks /\ stale = {} /\ Safe(e)
    BY LosslessParts DEF IInv, Tasks
  <2>2. ASSUME NEW t \in Task, pc[t] \in Holding, msg[t].event = e PROVE InHand(e)
    <3>1. msg[t] # None
      BY <2>1, <2>2 DEF Tasks, Holding
    <3> QED BY <2>1, <2>2, <3>1 DEF InHand
  <2> QED BY <2>1, <2>2 DEF Safe, Holding
<1> QED BY <1>1, Invariance, PTL

\* In one life of the worker the in-memory claims give every event at most one
\* result and one task at a time, however often it is delivered, also when
\* connections are lost in between (claim_event and release_event).
THEOREM OneResult == Spec => []ProcessedOnce
<1>1. IInv => ProcessedOnce
  <2> SUFFICES ASSUME IInv, ~durable, NEW e \in Event
               PROVE  /\ made[e] <= 1
                      /\ jobs[e] = "processing" <=>
                           Cardinality({t \in Task : pc[t] = "work" /\ msg[t].event = e}) = 1
    BY DEF ProcessedOnce
  <2> DEFINE S == {t \in Task : pc[t] = "work" /\ msg[t].event = e}
  <2>1. /\ made[e] = IF jobs[e] = "processed" THEN 1 ELSE 0
        /\ jobs[e] = "processing" <=> \E t \in Task : WorksOn(t, e)
        /\ \A t, u \in Task : WorksOn(t, e) /\ WorksOn(u, e) => t = u
    BY DEF IInv, Claims
  <2>2. IsFiniteSet(S)
    BY TaskAssumption, FS_Subset
  <2>3. Cardinality(S) = 1 <=> \E t : S = {t}
    BY <2>2, FS_Singleton
  <2>4. (\E t : S = {t}) <=> jobs[e] = "processing"
    BY <2>1 DEF WorksOn
  <2>5. made[e] <= 1
    BY <2>1
  <2> QED BY <2>3, <2>4, <2>5
<1> QED BY <1>1, Invariance, PTL

\* As long as the connection holds, an event is dead-lettered only after
\* MaxAttempts + 1 failed attempts on it, those before a crash included
\* (_consume and the header x-retry-count).
THEOREM DeadLettersEarned == Spec => []DeadLetterEarned
<1>1. IInv => DeadLetterEarned
  BY DEF IInv, Lossless, DeadLetterEarned
<1> QED BY <1>1, Invariance, PTL
=============================================================================
