---------------------------- MODULE OutboxProofs ----------------------------
(***************************************************************************)
(* Proofs about the outbox publishers, for any number of rows, publishers  *)
(* and faults.                                                             *)
(***************************************************************************)
EXTENDS Outbox, TLAPS

USE DEF table, loop, conn, threads, broker

\* The parts of TypeOK that the helpers of the model are about.
RowTyped ==
  /\ status \in [Event -> Status]
  /\ attempts \in [Event -> Nat]
  /\ delay \in [Event -> Nat]

LoopTyped ==
  /\ pc \in [Publisher -> PC]
  /\ batch \in [Publisher -> SUBSET Event]
  /\ cur \in [Publisher -> Event \cup {None}]

\* The helpers that touch the table keep its type.
LEMMA RowTypes ==
  ASSUME TypeOK, NEW e \in Event \cup {None}, NEW B \in SUBSET Event,
         TakeRows(B) \/ SetPublished(e) \/ SetFailed(e) \/ UNCHANGED table
  PROVE  RowTyped'
<1> USE DEF RowTyped
<1>1. ASSUME e \in Event PROVE Backoff(attempts[e]) \in Nat
  <2> DEFINE n == IF attempts[e] < BackoffCap THEN attempts[e] ELSE BackoffCap
  <2>1. attempts[e] \in Nat
    BY <1>1 DEF TypeOK
  <2>2. n \in 0 .. BackoffCap
    BY <2>1, BackoffAssumption
  <2> QED BY <2>2, PowerAssumption DEF Backoff
<1>2. CASE TakeRows(B)
  BY <1>2, BackoffAssumption DEF TypeOK, TakeRows, Status
<1>3. CASE SetPublished(e)
  BY <1>3 DEF TypeOK, SetPublished, Status
<1>4. CASE SetFailed(e)
  <2>1. CASE e \in Event
    BY <1>1, <1>4, <2>1 DEF TypeOK, SetFailed, Status
  <2>2. CASE e = None
    BY <1>4, <2>2, NoneAssumption DEF TypeOK, SetFailed, Status
  <2> QED BY <2>1, <2>2
<1>5. CASE UNCHANGED table
  BY <1>5 DEF TypeOK
<1> QED BY <1>2, <1>3, <1>4, <1>5

\* Counting an event up, or nothing at all outside the loop.
LEMMA CountTypes ==
  ASSUME NEW f \in [Event -> Nat], NEW e \in Event \cup {None}
  PROVE  [f EXCEPT ![e] = @ + 1] \in [Event -> Nat]
<1>1. CASE e \in Event
  BY <1>1
<1>2. CASE e = None
  <2>1. \A x \in Event : x # e
    BY <1>2, NoneAssumption
  <2> QED BY <2>1
<1> QED BY <1>1, <1>2

\* The helpers that move a publisher through its loop keep the loop's type.
LEMMA StartTypes ==
  ASSUME TypeOK, NEW p \in Publisher, NEW B \in SUBSET Event, StartBatch(p, B)
  PROVE  LoopTyped'
BY DEF TypeOK, LoopTyped, StartBatch, PC

\* So does moving to another place in the loop.
LEMMA GoToTypes ==
  ASSUME TypeOK, NEW p \in Publisher, NEW l \in PC, GoTo(p, l)
  PROVE  LoopTyped'
BY DEF TypeOK, LoopTyped, GoTo

\* So does going on to the next record, or ending the batch.
LEMMA EndTypes ==
  ASSUME TypeOK, NEW p \in Publisher, EndBatch(p) \/ NextRecord(p)
  PROVE  LoopTyped'
<1>1. CASE EndBatch(p)
  BY <1>1 DEF TypeOK, LoopTyped, EndBatch, PC
<1>2. batch[p] \ {cur[p]} \in SUBSET Event
  BY DEF TypeOK
<1> QED BY <1>1, <1>2, StartTypes DEF NextRecord, EndBatch, TypeOK, LoopTyped, PC

-----------------------------------------------------------------------------

\* Every step keeps every variable in its type.
LEMMA TypeStep == TypeOK /\ [Next]_vars => TypeOK'
<1> SUFFICES ASSUME TypeOK, [Next]_vars PROVE TypeOK'
  OBVIOUS
<1>1. ASSUME NEW e \in Event, Insert(e) PROVE TypeOK'
  BY <1>1 DEF TypeOK, Insert, Status
<1>2. ASSUME NEW e \in Event, BrokerAccept(e) PROVE TypeOK'
  BY <1>2 DEF TypeOK, BrokerAccept
<1>3. CASE Tick
  BY <1>3 DEF TypeOK, Tick
<1>4. ASSUME NEW p \in Publisher, CommonStep(p) PROVE TypeOK'
  <2>0. cur[p] \in Event \cup {None}
    BY <1>4 DEF TypeOK
  <2>1. CASE Claim(p)
    <3>0. PICK B \in SUBSET Event : TakeRows(B) /\ StartBatch(p, B)
      BY <2>1 DEF Claim, Claimable
    <3>1. RowTyped'
      BY <2>1, <3>0, RowTypes DEF Claim
    <3>2. LoopTyped'
      BY <2>1, <3>0, StartTypes DEF Claim
    <3> QED BY <2>1, <3>1, <3>2 DEF TypeOK, Claim, RowTyped, LoopTyped
  <2>2. CASE ClaimLost(p)
    <3>0. PICK B \in SUBSET Event : TakeRows(B)
      BY <2>2 DEF ClaimLost, Claimable
    <3>1. RowTyped'
      BY <2>2, <3>0, RowTypes DEF ClaimLost
    <3> QED BY <2>2, <3>1 DEF TypeOK, ClaimLost, RowTyped, Fault
  <2>3. CASE MarkPublished(p)
    <3>1. RowTyped'
      BY <2>3, <2>0, RowTypes DEF MarkPublished
    <3>2. LoopTyped'
      BY <2>3, EndTypes DEF MarkPublished
    <3> QED BY <2>3, <3>1, <3>2 DEF TypeOK, MarkPublished, RowTyped, LoopTyped
  <2>4. CASE MarkPublishedError(p)
    <3>1. RowTyped'
      BY <2>4, <2>0, RowTypes DEF MarkPublishedError
    <3>2. LoopTyped'
      BY <2>4, GoToTypes DEF MarkPublishedError, PC
    <3> QED BY <2>4, <3>1, <3>2 DEF TypeOK, MarkPublishedError, RowTyped, LoopTyped, Fault
  <2>5. CASE MarkFailed(p)
    <3>1. RowTyped'
      BY <2>5, <2>0, RowTypes DEF MarkFailed
    <3>2. LoopTyped'
      BY <2>5, EndTypes DEF MarkFailed
    <3> QED BY <2>5, <3>1, <3>2 DEF TypeOK, MarkFailed, RowTyped, LoopTyped
  <2>6. CASE Crash(p)
    BY <2>6 DEF TypeOK, Crash, Die, Fault, PC
  <2>7. CASE Restart(p)
    BY <2>7 DEF TypeOK, Restart, PC
  <2> QED BY <1>4, <2>1, <2>2, <2>3, <2>4, <2>5, <2>6, <2>7 DEF CommonStep
<1>5. ASSUME NEW p \in GoPublisher, GoStep(p) PROVE TypeOK'
  <2> p \in Publisher
    BY DEF Publisher
  <2>0. cur[p] \in Event \cup {None}
    BY DEF TypeOK
  <2>1. CASE GoPublish(p)
    <3>1. LoopTyped'
      BY <2>1, GoToTypes DEF GoPublish, PC
    <3>2. handed' \in [Event -> Nat] /\ wire' \in [Event -> Nat]
      BY <2>1, <2>0, CountTypes DEF TypeOK, GoPublish
    <3> QED BY <2>1, <3>1, <3>2 DEF TypeOK, GoPublish, LoopTyped
  <2>2. CASE GoPublishError(p)
    <3>1. LoopTyped'
      BY <2>2, GoToTypes DEF GoPublishError, PC
    <3> QED BY <2>2, <3>1 DEF TypeOK, GoPublishError, LoopTyped
  <2>3. CASE GoMarkFailedError(p)
    <3>1. RowTyped'
      BY <2>3, <2>0, RowTypes DEF GoMarkFailedError
    <3>2. LoopTyped'
      BY <2>3, EndTypes DEF GoMarkFailedError
    <3> QED BY <2>3, <3>1, <3>2 DEF TypeOK, GoMarkFailedError, RowTyped, LoopTyped, Fault
  <2>4. CASE GoDrop(p)
    BY <2>4 DEF TypeOK, GoDrop, Fault
  <2>5. CASE GoShutdown(p)
    BY <2>5 DEF TypeOK, GoShutdown, Fault, PC
  <2>6. CASE GoMarkCancelled(p)
    <3>1. LoopTyped'
      BY <2>6, EndTypes, GoToTypes DEF GoMarkCancelled, PC
    <3> QED BY <2>6, <3>1 DEF TypeOK, GoMarkCancelled, LoopTyped
  <2>7. CASE GoExit(p)
    BY <2>7 DEF TypeOK, GoExit, Die, PC
  <2> QED BY <1>5, <2>1, <2>2, <2>3, <2>4, <2>5, <2>6, <2>7 DEF GoStep
<1>6. ASSUME NEW p \in PyPublisher, PyStep(p) PROVE TypeOK'
  <2> p \in Publisher
    BY DEF Publisher
  <2>0. cur[p] \in Event \cup {None}
    BY DEF TypeOK
  <2>1. CASE PyPublish(p)
    <3>1. LoopTyped'
      BY <2>1, GoToTypes DEF PyPublish, PC
    <3>2. handed' \in [Event -> Nat] /\ delivered' \in [Event -> Nat]
      BY <2>1, <2>0, CountTypes DEF TypeOK, PyPublish
    <3> QED BY <2>1, <3>1, <3>2 DEF TypeOK, PyPublish, LoopTyped
  <2>2. CASE PyPublishTimeout(p)
    <3>1. LoopTyped'
      BY <2>2, GoToTypes DEF PyPublishTimeout, PC
    <3>2. handed' \in [Event -> Nat] /\ delivered' \in [Event -> Nat]
      <4>1. /\ [handed EXCEPT ![cur[p]] = @ + 1] \in [Event -> Nat]
            /\ [delivered EXCEPT ![cur[p]] = @ + 1] \in [Event -> Nat]
        BY <2>0, CountTypes DEF TypeOK
      <4> QED BY <2>2, <4>1 DEF TypeOK, PyPublishTimeout
    <3> QED BY <2>2, <3>1, <3>2 DEF TypeOK, PyPublishTimeout, LoopTyped, Fault
  <2>3. CASE PyClaimTimeout(p)
    BY <2>3 DEF TypeOK, PyClaimTimeout, Fault
  <2>4. CASE PyLateClaim(p)
    <3>0. PICK B \in SUBSET Event : TakeRows(B) \/ UNCHANGED table
      BY <2>4 DEF PyLateClaim, Claimable
    <3>1. RowTyped'
      BY <2>4, <3>0, RowTypes DEF PyLateClaim
    <3> QED BY <2>4, <3>1 DEF TypeOK, PyLateClaim, RowTyped
  <2>5. CASE PyMarkTimeout(p)
    <3>1. LoopTyped'
      BY <2>5, GoToTypes DEF PyMarkTimeout, PC
    <3>2. [lateMark[p] EXCEPT ![cur[p]] = @ + 1] \in [Event -> Nat]
      BY <2>0, CountTypes DEF TypeOK
    <3>3. lateMark' \in [PyPublisher -> [Event -> Nat]]
      BY <2>5, <3>2 DEF TypeOK, PyMarkTimeout
    <3> QED BY <2>5, <3>1, <3>3 DEF TypeOK, PyMarkTimeout, LoopTyped, Fault
  <2>6. CASE PyMarkFailedError(p)
    <3>1. RowTyped'
      BY <2>6, <2>0, RowTypes DEF PyMarkFailedError
    <3>2. LoopTyped'
      BY <2>6, EndTypes DEF PyMarkFailedError
    <3> QED BY <2>6, <3>1, <3>2 DEF TypeOK, PyMarkFailedError, RowTyped, LoopTyped, Fault
  <2>7. ASSUME NEW e \in Event, PyLateMark(p, e) PROVE TypeOK'
    <3>1. RowTyped'
      BY <2>7, <2>0, RowTypes DEF PyLateMark
    <3> QED BY <2>7, <3>1 DEF TypeOK, PyLateMark, RowTyped
  <2> QED BY <1>6, <2>1, <2>2, <2>3, <2>4, <2>5, <2>6, <2>7 DEF PyStep
<1>7. CASE UNCHANGED vars
  BY <1>7 DEF TypeOK, vars
<1> QED BY <1>1, <1>2, <1>3, <1>4, <1>5, <1>6, <1>7 DEF Next, Environment

\* The model's variables keep their types in every behaviour.
THEOREM TypeCorrect == Spec => []TypeOK
<1>1. Init => TypeOK
  BY DEF Init, TypeOK, Status, PC
<1> QED BY <1>1, TypeStep, PTL DEF Spec

-----------------------------------------------------------------------------
(* The inductive invariant *)

\* A publisher inside its loop works on a record of its batch; outside of the
\* loop it has none.
LoopShape ==
  \A p \in Publisher :
    /\ pc[p] \in {"publish", "mark", "markFailed"} => cur[p] \in batch[p]
    /\ pc[p] \in {"idle", "down"} => batch[p] = {}

\* Only Go publishers are shut down through their context.
PyLive == \A p \in PyPublisher : ctx[p] = "live"

\* Whoever is about to mark a row published has sent its message.
SentBeforeMark ==
  /\ \A p \in Publisher : pc[p] = "mark" => handed[cur[p]] > 0
  /\ \A p \in PyPublisher, e \in Event : lateMark[p][e] > 0 => handed[e] > 0

\* A row that may be sent again has been sent at most once per fault: a row
\* that can be claimed, a claimed record not yet published, and a record
\* about to be marked failed.
PaidFor ==
  /\ \A e \in Event : handed[e] <= faults + 1
  /\ \A e \in Event : status[e] \in {"none", "pending", "failed"} => handed[e] <= faults
  /\ \A p \in Publisher : \A e \in batch[p] :
       ~(cur[p] = e /\ pc[p] \in {"mark", "markFailed"}) => handed[e] <= faults
  /\ \A p \in Publisher :
       pc[p] = "markFailed" /\ ctx[p] = "live" => handed[cur[p]] <= faults

Holding == TypeOK /\ LoopShape /\ PyLive /\ ExclusiveClaim
IInv == Holding /\ SentBeforeMark /\ PublishedWasHanded /\ PaidFor

\* Publisher p alone moves: on to a record of what is now its batch B, or out
\* of its loop.
Moves(p, B) ==
  /\ \A q \in Publisher \ {p} :
       pc'[q] = pc[q] /\ batch'[q] = batch[q] /\ cur'[q] = cur[q]
  /\ batch'[p] = B
  /\ \/ pc'[p] = "publish" /\ cur'[p] \in B
     \/ pc'[p] \in {"idle", "down"} /\ B = {}

\* A batch that begins is at one of its records, or empty.
LEMMA StartMoves ==
  ASSUME TypeOK, NEW p \in Publisher, NEW B \in SUBSET Event, StartBatch(p, B)
  PROVE  Moves(p, B)
BY DEF TypeOK, StartBatch, Moves

\* A batch that ends leaves none.
LEMMA EndMoves ==
  ASSUME TypeOK, NEW p \in Publisher, EndBatch(p)
  PROVE  Moves(p, {})
BY DEF TypeOK, EndBatch, Moves

\* Going on drops the current record from the batch.
LEMMA NextMoves ==
  ASSUME TypeOK, NEW p \in Publisher, NextRecord(p)
  PROVE  Moves(p, batch[p] \ {cur[p]})
<1> DEFINE rest == batch[p] \ {cur[p]}
<1>1. rest \in SUBSET Event
  BY DEF TypeOK
<1>2. CASE rest # {} /\ StartBatch(p, rest)
  BY <1>1, <1>2, StartMoves
<1>3. CASE rest = {} /\ EndBatch(p)
  BY <1>3, EndMoves
<1> QED BY <1>2, <1>3 DEF NextRecord

\* What a holder of a record relies on: its batch is a set of rows, and the
\* record it works on is in it, and in no other batch.
LEMMA Held ==
  ASSUME Holding
  PROVE  /\ \A q \in Publisher : \A e \in batch[q] :
              /\ e \in Event
              /\ status[e] \in {"publishing", "published"}
              /\ \A r \in Publisher \ {q} : e \notin batch[r]
         /\ \A q \in Publisher :
              pc[q] \in {"publish", "mark", "markFailed"} =>
                cur[q] \in batch[q] /\ cur[q] \in Event
BY DEF Holding, TypeOK, LoopShape, ExclusiveClaim

\* Claims stay exclusive when p goes on with rows nobody else holds, and all
\* held rows are being worked on.
LEMMA ExclusiveKept ==
  ASSUME Holding, NEW p \in Publisher, NEW B, Moves(p, B),
         \A q \in Publisher \ {p} : \A e \in B : e \notin batch[q],
         \A q \in Publisher : \A e \in batch'[q] : status'[e] \in {"publishing", "published"}
  PROVE  ExclusiveClaim'
<1> SUFFICES ASSUME NEW q \in Publisher, NEW e \in batch'[q], NEW r \in Publisher \ {q}
             PROVE  e \notin batch'[r]
  BY DEF ExclusiveClaim
<1>1. CASE q = p
  <2>1. e \in B /\ batch'[r] = batch[r]
    BY <1>1 DEF Moves
  <2> QED BY <2>1, <1>1
<1>2. CASE q # p
  <2>1. e \in batch[q]
    BY <1>2 DEF Moves
  <2>2. CASE r = p
    BY <2>1, <2>2, <1>2 DEF Moves
  <2>3. CASE r # p
    <3>1. batch'[r] = batch[r]
      BY <2>3 DEF Moves
    <3> QED BY <2>1, <3>1, Held
  <2> QED BY <2>2, <2>3
<1> QED BY <1>1, <1>2

\* A claim takes rows that nobody holds.
LEMMA ClaimExclusive ==
  ASSUME Holding, NEW p \in Publisher, Claim(p)
  PROVE  ExclusiveClaim'
<1>1. PICK B \in SUBSET Event :
             (\A e \in B : Due(e)) /\ TakeRows(B) /\ StartBatch(p, B)
  BY DEF Claim, Claimable
<1>2. Moves(p, B)
  BY <1>1, StartMoves DEF Holding
<1>3. \A q \in Publisher : \A e \in B : e \notin batch[q]
  <2> SUFFICES ASSUME NEW q \in Publisher, NEW e \in B, e \in batch[q] PROVE FALSE
    OBVIOUS
  <2>1. status[e] \in {"publishing", "published"}
    BY Held
  <2>2. status[e] \in {"pending", "failed"}
    BY <1>1 DEF Due
  <2> QED BY <2>1, <2>2
<1>4. \A q \in Publisher : \A e \in batch'[q] : status'[e] \in {"publishing", "published"}
  <2> SUFFICES ASSUME NEW q \in Publisher, NEW e \in batch'[q]
               PROVE  status'[e] \in {"publishing", "published"}
    OBVIOUS
  <2>1. CASE q = p
    BY <2>1, <1>1, <1>2 DEF Moves, TakeRows
  <2>2. CASE q # p
    <3>1. e \in batch[q] /\ e \in Event
      BY <2>2, <1>2, Held DEF Moves
    <3>2. e \notin B /\ status[e] \in {"publishing", "published"}
      BY <3>1, <1>3, Held
    <3> QED BY <3>1, <3>2, <1>1 DEF TakeRows
  <2> QED BY <2>1, <2>2
<1> QED BY <1>2, <1>3, <1>4, ExclusiveKept

\* A record marked failed has left its holder's batch.
LEMMA FailedExclusive ==
  ASSUME Holding, NEW p \in Publisher, pc[p] = "markFailed", NextRecord(p),
         SetFailed(cur[p]) \/ UNCHANGED table
  PROVE  ExclusiveClaim'
<1> DEFINE B == batch[p] \ {cur[p]}
<1>1. Moves(p, B)
  BY NextMoves DEF Holding
<1>2. cur[p] \in batch[p] /\ cur[p] \in Event
  BY Held
<1>3. \A q \in Publisher \ {p} : \A e \in B : e \notin batch[q]
  BY Held
<1>4. \A q \in Publisher : \A e \in batch'[q] : status'[e] \in {"publishing", "published"}
  <2> SUFFICES ASSUME NEW q \in Publisher, NEW e \in batch'[q]
               PROVE  status'[e] \in {"publishing", "published"}
    OBVIOUS
  <2>1. e \in batch[q] /\ e # cur[p]
    <3>1. CASE q = p
      BY <3>1, <1>1 DEF Moves
    <3>2. CASE q # p
      BY <3>2, <1>1, <1>2, Held DEF Moves
    <3> QED BY <3>1, <3>2
  <2>2. e \in Event /\ status[e] \in {"publishing", "published"}
    BY <2>1, Held
  <2>3. status'[e] = status[e]
    BY <2>1, <2>2 DEF SetFailed, Holding, TypeOK
  <2> QED BY <2>2, <2>3
<1> QED BY <1>1, <1>3, <1>4, ExclusiveKept

\* Sending a record that has been paid for: the copy is covered until the
\* record is marked, whoever else works on other records.
LEMMA SendPaid ==
  ASSUME Holding, PaidFor, TypeOK', NEW p \in Publisher, pc[p] = "publish",
         NEW l \in {"mark", "markFailed"}, GoTo(p, l),
         l = "mark" => faults' = faults,
         l = "markFailed" => faults' = faults + 1,
         \/ handed' = [handed EXCEPT ![cur[p]] = @ + 1]
         \/ handed' = handed /\ l = "markFailed",
         UNCHANGED <<status, ctx>>
  PROVE  PaidFor'
<1>1. cur[p] \in batch[p] /\ cur[p] \in Event
  BY Held
<1>2. /\ handed \in [Event -> Nat]
      /\ faults \in Nat
      /\ pc \in [Publisher -> PC]
  BY DEF Holding, TypeOK
<1>3. \A e \in Event : /\ e # cur[p] => handed'[e] = handed[e]
                       /\ handed[e] \in Nat
                       /\ handed'[cur[p]] <= handed[cur[p]] + 1
  BY <1>1, <1>2
<1>4. handed[cur[p]] <= faults
  BY <1>1 DEF PaidFor
<1>5. \A e \in Event : handed[e] <= faults + 1
  BY DEF PaidFor
<1>6. faults' \in {faults, faults + 1}
  OBVIOUS
<1>7. UNCHANGED <<batch, cur>> /\ pc' = [pc EXCEPT ![p] = l]
  BY DEF GoTo
<1>8. \A e \in Event : handed'[e] <= faults' + 1
  BY <1>1, <1>2, <1>3, <1>4, <1>5, <1>6
<1>9. \A e \in Event : status'[e] \in {"none", "pending", "failed"} => handed'[e] <= faults'
  <2> SUFFICES ASSUME NEW e \in Event, status[e] \in {"none", "pending", "failed"}
               PROVE  handed'[e] <= faults'
    OBVIOUS
  <2>1. e # cur[p]
    BY <1>1, Held
  <2>2. handed[e] <= faults
    BY DEF PaidFor
  <2> QED BY <2>1, <2>2, <1>2, <1>3, <1>6
<1>10. \A q \in Publisher : \A e \in batch'[q] :
         ~(cur'[q] = e /\ pc'[q] \in {"mark", "markFailed"}) => handed'[e] <= faults'
  <2> SUFFICES ASSUME NEW q \in Publisher, NEW e \in batch[q],
                      ~(cur[q] = e /\ pc'[q] \in {"mark", "markFailed"})
               PROVE  handed'[e] <= faults'
    BY <1>7
  <2>1. e # cur[p] /\ e \in Event
    BY <1>1, <1>2, <1>7, Held
  <2>2. ~(cur[q] = e /\ pc[q] \in {"mark", "markFailed"})
    BY <1>2, <1>7
  <2>3. handed[e] <= faults
    BY <2>2 DEF PaidFor
  <2> QED BY <2>1, <2>3, <1>2, <1>3, <1>6
<1>11. \A q \in Publisher :
         pc'[q] = "markFailed" /\ ctx'[q] = "live" => handed'[cur'[q]] <= faults'
  <2> SUFFICES ASSUME NEW q \in Publisher, pc'[q] = "markFailed", ctx[q] = "live"
               PROVE  handed'[cur[q]] <= faults'
    BY <1>7
  <2>1. CASE q = p
    <3>1. faults' = faults + 1
      BY <2>1, <1>2, <1>7
    <3> QED BY <2>1, <3>1, <1>1, <1>2, <1>3, <1>4
  <2>2. CASE q # p
    <3>1. pc[q] = "markFailed"
      BY <2>2, <1>2, <1>7
    <3>2. handed[cur[q]] <= faults
      BY <3>1 DEF PaidFor
    <3>3. cur[q] \in Event /\ cur[q] # cur[p]
      BY <3>1, <2>2, <1>1, Held
    <3> QED BY <3>2, <3>3, <1>2, <1>3, <1>6
  <2> QED BY <2>1, <2>2
<1> QED BY <1>8, <1>9, <1>10, <1>11 DEF PaidFor

\* Every step keeps the shape of the loops.
LEMMA LoopStep ==
  ASSUME Holding, TypeOK', [Next]_vars
  PROVE  (LoopShape /\ PyLive)'
<1> USE PublisherAssumption, NoneAssumption DEF Holding, LoopShape, PyLive, TypeOK, PC
<1>1. ASSUME NEW e \in Event, Insert(e) PROVE (LoopShape /\ PyLive)'
  BY <1>1 DEF Insert
<1>2. ASSUME NEW e \in Event, BrokerAccept(e) PROVE (LoopShape /\ PyLive)'
  BY <1>2 DEF BrokerAccept
<1>3. CASE Tick
  BY <1>3 DEF Tick
<1>4. ASSUME NEW p \in Publisher, CommonStep(p) PROVE (LoopShape /\ PyLive)'
  <2>1. CASE Claim(p)
    <3>1. PICK B \in SUBSET Event :
                 (\A e \in B : Due(e)) /\ TakeRows(B) /\ StartBatch(p, B)
      BY <2>1 DEF Claim, Claimable
    <3>2. Moves(p, B)
      BY <3>1, StartMoves
    <3> QED BY <2>1, <3>1, <3>2 DEF Claim, TakeRows, Due, Moves
  <2>2. CASE ClaimLost(p)
    BY <2>2 DEF ClaimLost, TakeRows, Claimable, Due, Fault
  <2>3. CASE MarkPublished(p)
    <3>1. Moves(p, batch[p] \ {cur[p]})
      BY <2>3, NextMoves DEF MarkPublished
    <3> QED BY <2>3, <3>1 DEF MarkPublished, SetPublished, Moves
  <2>4. CASE MarkPublishedError(p)
    BY <2>4 DEF MarkPublishedError, SetPublished, GoTo, Fault
  <2>5. CASE MarkFailed(p)
    <3>1. Moves(p, batch[p] \ {cur[p]})
      BY <2>5, NextMoves DEF MarkFailed
    <3> QED BY <2>5, <3>1 DEF MarkFailed, SetFailed, Moves
  <2>6. CASE Crash(p)
    BY <2>6 DEF Crash, Die, Fault
  <2>7. CASE Restart(p)
    BY <2>7 DEF Restart
  <2> QED BY <1>4, <2>1, <2>2, <2>3, <2>4, <2>5, <2>6, <2>7 DEF CommonStep
<1>5. ASSUME NEW p \in GoPublisher, GoStep(p) PROVE (LoopShape /\ PyLive)'
  <2> p \in Publisher
    BY DEF Publisher
  <2>1. CASE GoPublish(p)
    BY <2>1 DEF GoPublish, GoTo
  <2>2. CASE GoPublishError(p)
    BY <2>2 DEF GoPublishError, GoTo
  <2>3. CASE GoMarkFailedError(p)
    <3>1. Moves(p, batch[p] \ {cur[p]})
      BY <2>3, NextMoves DEF GoMarkFailedError
    <3> QED BY <2>3, <3>1 DEF GoMarkFailedError, SetFailed, Fault, Moves
  <2>4. CASE GoDrop(p)
    BY <2>4 DEF GoDrop, Fault
  <2>5. CASE GoShutdown(p)
    BY <2>5 DEF GoShutdown, Fault
  <2>6. CASE GoMarkCancelled(p)
    BY <2>6 DEF GoMarkCancelled, GoTo, NextRecord, StartBatch, EndBatch
  <2>7. CASE GoExit(p)
    BY <2>7 DEF GoExit, Die
  <2> QED BY <1>5, <2>1, <2>2, <2>3, <2>4, <2>5, <2>6, <2>7 DEF GoStep
<1>6. ASSUME NEW p \in PyPublisher, PyStep(p) PROVE (LoopShape /\ PyLive)'
  <2> p \in Publisher
    BY DEF Publisher
  <2>1. CASE PyPublish(p)
    BY <2>1 DEF PyPublish, GoTo
  <2>2. CASE PyPublishTimeout(p)
    BY <2>2 DEF PyPublishTimeout, GoTo, Fault
  <2>3. CASE PyClaimTimeout(p)
    BY <2>3 DEF PyClaimTimeout, Fault
  <2>4. CASE PyLateClaim(p)
    BY <2>4 DEF PyLateClaim, TakeRows, Claimable, Due
  <2>5. CASE PyMarkTimeout(p)
    BY <2>5 DEF PyMarkTimeout, GoTo, Fault
  <2>6. CASE PyMarkFailedError(p)
    BY <2>6 DEF PyMarkFailedError, SetFailed, EndBatch, Fault
  <2>7. ASSUME NEW e \in Event, PyLateMark(p, e) PROVE (LoopShape /\ PyLive)'
    BY <2>7 DEF PyLateMark, SetPublished
  <2> QED BY <1>6, <2>1, <2>2, <2>3, <2>4, <2>5, <2>6, <2>7 DEF PyStep
<1>7. CASE UNCHANGED vars
  BY <1>7 DEF vars
<1> QED BY <1>1, <1>2, <1>3, <1>4, <1>5, <1>6, <1>7 DEF Next, Environment

\* Every step keeps claims exclusive.
LEMMA ClaimStep ==
  ASSUME Holding, TypeOK', [Next]_vars
  PROVE  ExclusiveClaim'
<1> USE PublisherAssumption, NoneAssumption DEF Holding, LoopShape, ExclusiveClaim, TypeOK
<1>1. ASSUME NEW e \in Event, Insert(e) PROVE ExclusiveClaim'
  BY <1>1 DEF Insert
<1>2. ASSUME NEW e \in Event, BrokerAccept(e) PROVE ExclusiveClaim'
  BY <1>2 DEF BrokerAccept
<1>3. CASE Tick
  BY <1>3 DEF Tick
<1>4. ASSUME NEW p \in Publisher, CommonStep(p) PROVE ExclusiveClaim'
  <2>1. CASE Claim(p)
    BY <2>1, ClaimExclusive
  <2>2. CASE ClaimLost(p)
    BY <2>2 DEF ClaimLost, TakeRows, Claimable, Due, Fault
  <2>3. CASE MarkPublished(p)
    <3>1. Moves(p, batch[p] \ {cur[p]})
      BY <2>3, NextMoves DEF MarkPublished
    <3> QED BY <2>3, <3>1 DEF MarkPublished, SetPublished, Moves
  <2>4. CASE MarkPublishedError(p)
    BY <2>4 DEF MarkPublishedError, SetPublished, GoTo, Fault
  <2>5. CASE MarkFailed(p)
    BY <2>5, FailedExclusive DEF MarkFailed
  <2>6. CASE Crash(p)
    BY <2>6 DEF Crash, Die, Fault
  <2>7. CASE Restart(p)
    BY <2>7 DEF Restart
  <2> QED BY <1>4, <2>1, <2>2, <2>3, <2>4, <2>5, <2>6, <2>7 DEF CommonStep
<1>5. ASSUME NEW p \in GoPublisher, GoStep(p) PROVE ExclusiveClaim'
  <2> p \in Publisher
    BY DEF Publisher
  <2>1. CASE GoPublish(p)
    BY <2>1 DEF GoPublish, GoTo
  <2>2. CASE GoPublishError(p)
    BY <2>2 DEF GoPublishError, GoTo
  <2>3. CASE GoMarkFailedError(p)
    BY <2>3, FailedExclusive DEF GoMarkFailedError
  <2>4. CASE GoDrop(p)
    BY <2>4 DEF GoDrop, Fault
  <2>5. CASE GoShutdown(p)
    BY <2>5 DEF GoShutdown, Fault
  <2>6. CASE GoMarkCancelled(p)
    BY <2>6 DEF GoMarkCancelled, GoTo, NextRecord, StartBatch, EndBatch
  <2>7. CASE GoExit(p)
    BY <2>7 DEF GoExit, Die
  <2> QED BY <1>5, <2>1, <2>2, <2>3, <2>4, <2>5, <2>6, <2>7 DEF GoStep
<1>6. ASSUME NEW p \in PyPublisher, PyStep(p) PROVE ExclusiveClaim'
  <2> p \in Publisher
    BY DEF Publisher
  <2>1. CASE PyPublish(p)
    BY <2>1 DEF PyPublish, GoTo
  <2>2. CASE PyPublishTimeout(p)
    BY <2>2 DEF PyPublishTimeout, GoTo, Fault
  <2>3. CASE PyClaimTimeout(p)
    BY <2>3 DEF PyClaimTimeout, Fault
  <2>4. CASE PyLateClaim(p)
    BY <2>4 DEF PyLateClaim, TakeRows, Claimable, Due
  <2>5. CASE PyMarkTimeout(p)
    BY <2>5 DEF PyMarkTimeout, GoTo, Fault
  <2>6. CASE PyMarkFailedError(p)
    BY <2>6 DEF PyMarkFailedError, SetFailed, EndBatch, Fault
  <2>7. ASSUME NEW e \in Event, PyLateMark(p, e) PROVE ExclusiveClaim'
    BY <2>7 DEF PyLateMark, SetPublished
  <2> QED BY <1>6, <2>1, <2>2, <2>3, <2>4, <2>5, <2>6, <2>7 DEF PyStep
<1>7. CASE UNCHANGED vars
  BY <1>7 DEF vars
<1> QED BY <1>1, <1>2, <1>3, <1>4, <1>5, <1>6, <1>7 DEF Next, Environment

\* Every step keeps sending before marking.
LEMMA SentStep ==
  ASSUME Holding, SentBeforeMark, PublishedWasHanded, TypeOK', [Next]_vars
  PROVE  (SentBeforeMark /\ PublishedWasHanded)'
<1> USE PublisherAssumption, NoneAssumption DEF Holding, LoopShape, SentBeforeMark, PublishedWasHanded, TypeOK
<1>1. ASSUME NEW e \in Event, Insert(e) PROVE (SentBeforeMark /\ PublishedWasHanded)'
  BY <1>1 DEF Insert
<1>2. ASSUME NEW e \in Event, BrokerAccept(e) PROVE (SentBeforeMark /\ PublishedWasHanded)'
  BY <1>2 DEF BrokerAccept
<1>3. CASE Tick
  BY <1>3 DEF Tick
<1>4. ASSUME NEW p \in Publisher, CommonStep(p) PROVE (SentBeforeMark /\ PublishedWasHanded)'
  <2>1. CASE Claim(p)
    <3>1. PICK B \in SUBSET Event :
                 (\A e \in B : Due(e)) /\ TakeRows(B) /\ StartBatch(p, B)
      BY <2>1 DEF Claim, Claimable
    <3>2. Moves(p, B)
      BY <3>1, StartMoves
    <3> QED BY <2>1, <3>1, <3>2 DEF Claim, TakeRows, Due, Moves
  <2>2. CASE ClaimLost(p)
    BY <2>2 DEF ClaimLost, TakeRows, Claimable, Due, Fault
  <2>3. CASE MarkPublished(p)
    <3>1. Moves(p, batch[p] \ {cur[p]})
      BY <2>3, NextMoves DEF MarkPublished
    <3> QED BY <2>3, <3>1 DEF MarkPublished, SetPublished, Moves
  <2>4. CASE MarkPublishedError(p)
    BY <2>4 DEF MarkPublishedError, SetPublished, GoTo, Fault
  <2>5. CASE MarkFailed(p)
    <3>1. Moves(p, batch[p] \ {cur[p]})
      BY <2>5, NextMoves DEF MarkFailed
    <3> QED BY <2>5, <3>1 DEF MarkFailed, SetFailed, Moves
  <2>6. CASE Crash(p)
    BY <2>6 DEF Crash, Die, Fault
  <2>7. CASE Restart(p)
    BY <2>7 DEF Restart
  <2> QED BY <1>4, <2>1, <2>2, <2>3, <2>4, <2>5, <2>6, <2>7 DEF CommonStep
<1>5. ASSUME NEW p \in GoPublisher, GoStep(p) PROVE (SentBeforeMark /\ PublishedWasHanded)'
  <2> p \in Publisher
    BY DEF Publisher
  <2>1. CASE GoPublish(p)
    BY <2>1 DEF GoPublish, GoTo
  <2>2. CASE GoPublishError(p)
    BY <2>2 DEF GoPublishError, GoTo
  <2>3. CASE GoMarkFailedError(p)
    <3>1. Moves(p, batch[p] \ {cur[p]})
      BY <2>3, NextMoves DEF GoMarkFailedError
    <3> QED BY <2>3, <3>1 DEF GoMarkFailedError, SetFailed, Fault, Moves
  <2>4. CASE GoDrop(p)
    BY <2>4 DEF GoDrop, Fault
  <2>5. CASE GoShutdown(p)
    BY <2>5 DEF GoShutdown, Fault
  <2>6. CASE GoMarkCancelled(p)
    <3>1. CASE GoTo(p, "markFailed")
      BY <2>6, <3>1 DEF GoMarkCancelled, GoTo
    <3>2. CASE NextRecord(p)
      <4>1. Moves(p, batch[p] \ {cur[p]})
        BY <3>2, NextMoves
      <4> QED BY <2>6, <4>1 DEF GoMarkCancelled, Moves
    <3> QED BY <2>6, <3>1, <3>2 DEF GoMarkCancelled
  <2>7. CASE GoExit(p)
    BY <2>7 DEF GoExit, Die
  <2> QED BY <1>5, <2>1, <2>2, <2>3, <2>4, <2>5, <2>6, <2>7 DEF GoStep
<1>6. ASSUME NEW p \in PyPublisher, PyStep(p) PROVE (SentBeforeMark /\ PublishedWasHanded)'
  <2> p \in Publisher
    BY DEF Publisher
  <2>1. CASE PyPublish(p)
    BY <2>1 DEF PyPublish, GoTo
  <2>2. CASE PyPublishTimeout(p)
    <3>1. cur[p] \in Event
      BY <2>2 DEF PyPublishTimeout
    <3>2. \A e \in Event : handed'[e] >= handed[e]
      BY <2>2, <3>1 DEF PyPublishTimeout
    <3>3. \A q \in Publisher : pc'[q] = "mark" => pc[q] = "mark" /\ cur[q] \in Event
      BY <2>2 DEF PyPublishTimeout, GoTo
    <3>4. UNCHANGED <<cur, lateMark, status>>
      BY <2>2 DEF PyPublishTimeout, GoTo
    <3>5. \A q \in Publisher : pc'[q] = "mark" => handed'[cur'[q]] > 0
      BY <3>2, <3>3, <3>4
    <3> QED BY <3>2, <3>4, <3>5
  <2>3. CASE PyClaimTimeout(p)
    BY <2>3 DEF PyClaimTimeout, Fault
  <2>4. CASE PyLateClaim(p)
    BY <2>4 DEF PyLateClaim, TakeRows, Claimable, Due
  <2>5. CASE PyMarkTimeout(p)
    BY <2>5 DEF PyMarkTimeout, GoTo, Fault
  <2>6. CASE PyMarkFailedError(p)
    BY <2>6 DEF PyMarkFailedError, SetFailed, EndBatch, Fault
  <2>7. ASSUME NEW e \in Event, PyLateMark(p, e) PROVE (SentBeforeMark /\ PublishedWasHanded)'
    BY <2>7 DEF PyLateMark, SetPublished
  <2> QED BY <1>6, <2>1, <2>2, <2>3, <2>4, <2>5, <2>6, <2>7 DEF PyStep
<1>7. CASE UNCHANGED vars
  BY <1>7 DEF vars
<1> QED BY <1>1, <1>2, <1>3, <1>4, <1>5, <1>6, <1>7 DEF Next, Environment

\* Every step keeps copies paid for by faults.
LEMMA PaidStep ==
  ASSUME Holding, PaidFor, TypeOK', [Next]_vars
  PROVE  PaidFor'
<1> USE PublisherAssumption, NoneAssumption DEF Holding, LoopShape, PyLive, ExclusiveClaim, PaidFor, TypeOK
<1>1. ASSUME NEW e \in Event, Insert(e) PROVE PaidFor'
  BY <1>1 DEF Insert
<1>2. ASSUME NEW e \in Event, BrokerAccept(e) PROVE PaidFor'
  BY <1>2 DEF BrokerAccept
<1>3. CASE Tick
  BY <1>3 DEF Tick
<1>4. ASSUME NEW p \in Publisher, CommonStep(p) PROVE PaidFor'
  <2>1. CASE Claim(p)
    <3>1. PICK B \in SUBSET Event :
                 (\A e \in B : Due(e)) /\ TakeRows(B) /\ StartBatch(p, B)
      BY <2>1 DEF Claim, Claimable
    <3>2. Moves(p, B)
      BY <3>1, StartMoves
    <3>a. \A e \in Event : handed'[e] <= faults' + 1
      BY <2>1 DEF Claim
    <3>b. \A e \in Event : status'[e] \in {"none", "pending", "failed"} => handed'[e] <= faults'
      BY <2>1, <3>1 DEF Claim, TakeRows
    <3>c. \A q \in Publisher : \A e \in batch'[q] :
            ~(cur'[q] = e /\ pc'[q] \in {"mark", "markFailed"}) => handed'[e] <= faults'
      BY <2>1, <3>1, <3>2 DEF Claim, Due, Moves
    <3>d. \A q \in Publisher :
            pc'[q] = "markFailed" /\ ctx'[q] = "live" => handed'[cur'[q]] <= faults'
      BY <2>1, <3>2 DEF Claim, Moves
    <3> QED BY <3>a, <3>b, <3>c, <3>d
  <2>2. CASE ClaimLost(p)
    BY <2>2 DEF ClaimLost, TakeRows, Claimable, Due, Fault
  <2>3. CASE MarkPublished(p)
    <3>1. Moves(p, batch[p] \ {cur[p]})
      BY <2>3, NextMoves DEF MarkPublished
    <3>2. cur[p] \in batch[p] /\ cur[p] \in Event
      BY <2>3 DEF MarkPublished
    <3>a. \A e \in Event : handed'[e] <= faults' + 1
      BY <2>3 DEF MarkPublished
    <3>b. \A e \in Event : status'[e] \in {"none", "pending", "failed"} => handed'[e] <= faults'
      BY <2>3, <3>2 DEF MarkPublished, SetPublished
    <3>c. \A q \in Publisher : \A e \in batch'[q] :
            ~(cur'[q] = e /\ pc'[q] \in {"mark", "markFailed"}) => handed'[e] <= faults'
      BY <2>3, <3>1 DEF MarkPublished, Moves
    <3>d. \A q \in Publisher :
            pc'[q] = "markFailed" /\ ctx'[q] = "live" => handed'[cur'[q]] <= faults'
      BY <2>3, <3>1 DEF MarkPublished, Moves
    <3> QED BY <3>a, <3>b, <3>c, <3>d
  <2>4. CASE MarkPublishedError(p)
    BY <2>4 DEF MarkPublishedError, SetPublished, GoTo, Fault
  <2>5. CASE MarkFailed(p)
    <3>1. Moves(p, batch[p] \ {cur[p]})
      BY <2>5, NextMoves DEF MarkFailed
    <3>2. cur[p] \in batch[p] /\ cur[p] \in Event
      BY <2>5 DEF MarkFailed
    <3>a. \A e \in Event : handed'[e] <= faults' + 1
      BY <2>5 DEF MarkFailed
    <3>b. \A e \in Event : status'[e] \in {"none", "pending", "failed"} => handed'[e] <= faults'
      BY <2>5, <3>2 DEF MarkFailed, SetFailed
    <3>c. \A q \in Publisher : \A e \in batch'[q] :
            ~(cur'[q] = e /\ pc'[q] \in {"mark", "markFailed"}) => handed'[e] <= faults'
      BY <2>5, <3>1 DEF MarkFailed, Moves
    <3>d. \A q \in Publisher :
            pc'[q] = "markFailed" /\ ctx'[q] = "live" => handed'[cur'[q]] <= faults'
      BY <2>5, <3>1 DEF MarkFailed, Moves
    <3> QED BY <3>a, <3>b, <3>c, <3>d
  <2>6. CASE Crash(p)
    BY <2>6 DEF Crash, Die, Fault
  <2>7. CASE Restart(p)
    BY <2>7 DEF Restart
  <2> QED BY <1>4, <2>1, <2>2, <2>3, <2>4, <2>5, <2>6, <2>7 DEF CommonStep
<1>5. ASSUME NEW p \in GoPublisher, GoStep(p) PROVE PaidFor'
  <2> p \in Publisher
    BY DEF Publisher
  <2>1. CASE GoPublish(p)
    BY <2>1, SendPaid DEF GoPublish, Fault
  <2>2. CASE GoPublishError(p)
    BY <2>2 DEF GoPublishError, GoTo
  <2>3. CASE GoMarkFailedError(p)
    <3>1. Moves(p, batch[p] \ {cur[p]})
      BY <2>3, NextMoves DEF GoMarkFailedError
    <3>2. cur[p] \in batch[p] /\ cur[p] \in Event
      BY <2>3 DEF GoMarkFailedError
    <3>a. \A e \in Event : handed'[e] <= faults' + 1
      BY <2>3 DEF GoMarkFailedError, Fault
    <3>b. \A e \in Event : status'[e] \in {"none", "pending", "failed"} => handed'[e] <= faults'
      BY <2>3, <3>2 DEF GoMarkFailedError, SetFailed, Fault
    <3>c. \A q \in Publisher : \A e \in batch'[q] :
            ~(cur'[q] = e /\ pc'[q] \in {"mark", "markFailed"}) => handed'[e] <= faults'
      BY <2>3, <3>1 DEF GoMarkFailedError, Fault, Moves
    <3>d. \A q \in Publisher :
            pc'[q] = "markFailed" /\ ctx'[q] = "live" => handed'[cur'[q]] <= faults'
      BY <2>3, <3>1 DEF GoMarkFailedError, Fault, Moves
    <3> QED BY <3>a, <3>b, <3>c, <3>d
  <2>4. CASE GoDrop(p)
    BY <2>4 DEF GoDrop, Fault
  <2>5. CASE GoShutdown(p)
    BY <2>5 DEF GoShutdown, Fault
  <2>6. CASE GoMarkCancelled(p)
    <3>0. UNCHANGED <<status, handed, faults, ctx>>
      BY <2>6 DEF GoMarkCancelled
    <3>1. CASE GoTo(p, "markFailed")
      BY <2>6, <3>1 DEF GoMarkCancelled, GoTo
    <3>2. CASE NextRecord(p)
      <4>1. Moves(p, batch[p] \ {cur[p]})
        BY <3>2, NextMoves
      <4>2. \A q \in Publisher : \A e \in batch'[q] :
              ~(cur'[q] = e /\ pc'[q] \in {"mark", "markFailed"}) => handed[e] <= faults
        BY <4>1 DEF Moves
      <4>3. \A q \in Publisher :
              pc'[q] = "markFailed" /\ ctx[q] = "live" => handed[cur'[q]] <= faults
        BY <4>1 DEF Moves
      <4> QED BY <3>0, <4>2, <4>3
    <3> QED BY <2>6, <3>1, <3>2 DEF GoMarkCancelled
  <2>7. CASE GoExit(p)
    BY <2>7 DEF GoExit, Die
  <2> QED BY <1>5, <2>1, <2>2, <2>3, <2>4, <2>5, <2>6, <2>7 DEF GoStep
<1>6. ASSUME NEW p \in PyPublisher, PyStep(p) PROVE PaidFor'
  <2> p \in Publisher
    BY DEF Publisher
  <2>1. CASE PyPublish(p)
    BY <2>1, SendPaid DEF PyPublish, Fault
  <2>2. CASE PyPublishTimeout(p)
    BY <2>2, SendPaid DEF PyPublishTimeout, Fault
  <2>3. CASE PyClaimTimeout(p)
    BY <2>3 DEF PyClaimTimeout, Fault
  <2>4. CASE PyLateClaim(p)
    BY <2>4 DEF PyLateClaim, TakeRows, Claimable, Due
  <2>5. CASE PyMarkTimeout(p)
    BY <2>5 DEF PyMarkTimeout, GoTo, Fault
  <2>6. CASE PyMarkFailedError(p)
    BY <2>6 DEF PyMarkFailedError, SetFailed, EndBatch, Fault
  <2>7. ASSUME NEW e \in Event, PyLateMark(p, e) PROVE PaidFor'
    BY <2>7 DEF PyLateMark, SetPublished
  <2> QED BY <1>6, <2>1, <2>2, <2>3, <2>4, <2>5, <2>6, <2>7 DEF PyStep
<1>7. CASE UNCHANGED vars
  BY <1>7 DEF vars
<1> QED BY <1>1, <1>2, <1>3, <1>4, <1>5, <1>6, <1>7 DEF Next, Environment

\* The invariant holds throughout every behaviour.
LEMMA Invariance == Spec => []IInv
<1>1. Init => IInv
  BY DEF Init, IInv, Holding, TypeOK, LoopShape, PyLive, ExclusiveClaim,
         SentBeforeMark, PublishedWasHanded, PaidFor, Publisher, Status, PC
<1>2. IInv /\ [Next]_vars => IInv'
  <2> SUFFICES ASSUME IInv, [Next]_vars PROVE IInv'
    OBVIOUS
  <2>1. TypeOK'
    BY TypeStep DEF IInv, Holding
  <2>2. LoopShape' /\ PyLive'
    BY <2>1, LoopStep DEF IInv
  <2>3. ExclusiveClaim'
    BY <2>1, ClaimStep DEF IInv
  <2>4. SentBeforeMark' /\ PublishedWasHanded'
    BY <2>1, SentStep DEF IInv
  <2>5. PaidFor'
    BY <2>1, PaidStep DEF IInv
  <2> QED BY <2>1, <2>2, <2>3, <2>4, <2>5 DEF IInv, Holding
<1> QED BY <1>1, <1>2, PTL DEF Spec

\* However claims, marks, late threads, crashes and restarts interleave, no
\* record is held by two publishers and no held row can be claimed
\* (ClaimOutbox, MarkOutboxPublished, MarkOutboxFailed and their Python twins).
THEOREM ClaimsExclusive == Spec => []ExclusiveClaim
<1>1. IInv => ExclusiveClaim
  BY DEF IInv, Holding
<1> QED BY <1>1, Invariance, PTL

\* A row marked published, by whichever thread, has been sent: Publish comes
\* before MarkOutboxPublished on every path.
THEOREM PublishedAfterSend == Spec => []PublishedWasHanded
<1>1. IInv => PublishedWasHanded
  BY DEF IInv
<1> QED BY <1>1, Invariance, PTL

\* A row is sent at most once more than there have been faults: without a
\* fault the publishers send no event twice.
THEOREM DuplicatesBounded == Spec => []DuplicatesNeedFaults
<1>1. IInv => DuplicatesNeedFaults
  BY DEF IInv, PaidFor, DuplicatesNeedFaults
<1> QED BY <1>1, Invariance, PTL
=============================================================================
