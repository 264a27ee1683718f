-------------------------- MODULE UploadPoolProofs --------------------------
(***************************************************************************)
(* Proofs about the admission of proxied uploads, for any organizations,   *)
(* clients and configuration of the pool.                                  *)
(***************************************************************************)
EXTENDS UploadPool, FiniteSetTheorems, TLAPS

USE DEF bucket, breaker

-----------------------------------------------------------------------------
(* Arithmetic *)

\* Facts about products that the provers are told once.
LEMMA NatProduct == ASSUME NEW a \in Nat, NEW b \in Nat PROVE a * b \in Nat
  OBVIOUS

\* Products distribute over sums.
LEMMA Distribute ==
  ASSUME NEW a \in Int, NEW b \in Int, NEW c \in Int
  PROVE  (a + b) * c = a * c + b * c
  OBVIOUS

\* Products distribute over differences.
LEMMA RateSplit ==
  ASSUME NEW a \in Int, NEW b \in Int, NEW c \in Int
  PROVE  c * (a - b) = c * a - c * b
  OBVIOUS

\* Quotient and remainder are unique.
LEMMA DivisionUnique ==
  ASSUME NEW f \in Nat \ {0}, NEW p \in Int, NEW q \in Int,
         NEW r \in 0 .. f - 1, NEW t \in 0 .. f - 1,
         f * p + r = f * q + t
  PROVE  r = t
<1>1. f * (p - q) = t - r
  BY RateSplit
<1>2. p - q \in Int /\ f \in Int
  OBVIOUS
<1>3. ASSUME NEW d \in Int, d >= 1 PROVE f * d >= f
  <2>1. (d - 1) * f \in Nat
    BY <1>3, NatProduct
  <2>2. f * d = (d - 1) * f + f
    BY <1>3, Distribute
  <2> QED BY <2>1, <2>2
<1>4. ~(p - q >= 1)
  BY <1>1, <1>2, <1>3
<1>5. ~(q - p >= 1)
  <2>1. f * (q - p) = r - t
    BY RateSplit
  <2> QED BY <2>1, <1>3
<1>6. p = q
  BY <1>4, <1>5
<1> QED BY <1>6

\* Counting modulo f.
LEMMA ModCounts ==
  ASSUME NEW s \in Nat, NEW f \in Nat \ {0}
  PROVE  /\ s % f \in 0 .. f - 1
         /\ (s % f) + 1 < f => (s + 1) % f = (s % f) + 1
         /\ (s % f) + 1 >= f => (s + 1) % f = 0
<1> DEFINE r == s % f
           t == (s + 1) % f
<1>1. PICK p \in Int : s = f * p + r /\ r \in 0 .. f - 1
  <2>1. s = f * (s \div f) + r /\ s \div f \in Int /\ r \in 0 .. f - 1
    OBVIOUS
  <2> QED BY <2>1
<1>2. PICK q \in Int : s + 1 = f * q + t /\ t \in 0 .. f - 1
  <2>1. s + 1 = f * ((s + 1) \div f) + t /\ (s + 1) \div f \in Int /\ t \in 0 .. f - 1
    OBVIOUS
  <2> QED BY <2>1
<1> HIDE DEF r, t
<1>3. ASSUME r + 1 < f PROVE t = r + 1
  <2>1. f * p + (r + 1) = f * q + t /\ r + 1 \in 0 .. f - 1
    BY <1>1, <1>2, <1>3
  <2> QED BY <1>2, <2>1, DivisionUnique
<1>4. ASSUME r + 1 >= f PROVE t = 0
  <2>1. f * (p + 1) = f * p + f
    BY Distribute
  <2>2. f * (p + 1) + 0 = f * q + t /\ p + 1 \in Int /\ 0 \in 0 .. f - 1
    BY <1>1, <1>2, <1>4, <2>1
  <2> QED BY <1>2, <2>2, DivisionUnique
<1> QED BY <1>1, <1>3, <1>4 DEF r, t

-----------------------------------------------------------------------------
(* The inductive invariant *)

\* Buckets were refilled in the past, and nobody was admitted without one.
BucketHistory ==
  \A o \in Org : last[o] <= now /\ (o \notin tenants => admitted[o] = 0)

\* openUntil is the end of the last trip, and trips are in the past.
BreakerHistory ==
  /\ failures = streak % FailureThreshold
  /\ \A t \in trips : t <= now /\ t + OpenDuration <= openUntil
  /\ openUntil = 0 \/ \E t \in trips : openUntil = t + OpenDuration

IInv == TypeOK /\ BucketHistory /\ SlotsAreHeld /\ RateBound /\ BreakerHistory

\* The circuit is open exactly while it has to be.
LEMMA OpenIffTripped == ASSUME TypeOK, BreakerHistory PROVE now < openUntil <=> Tripped
<1>1. now \in Nat /\ openUntil \in Nat /\ OpenDuration \in Nat /\ trips \subseteq Nat
  BY ConfigAssumption DEF TypeOK
<1>2. ASSUME now < openUntil PROVE Tripped
  <2>1. PICK t \in trips : openUntil = t + OpenDuration
    BY <1>1, <1>2 DEF BreakerHistory
  <2> QED BY <1>2, <2>1 DEF Tripped
<1>3. ASSUME Tripped PROVE now < openUntil
  <2>1. PICK t \in trips : now < t + OpenDuration
    BY <1>3 DEF Tripped
  <2>2. t \in Nat /\ t + OpenDuration <= openUntil
    BY <1>1 DEF BreakerHistory
  <2> QED BY <1>1, <2>1, <2>2
<1> QED BY <1>2, <1>3

\* What a bucket holds after a refill, and how much the refill gave at most.
LEMMA RefilledBounds ==
  ASSUME TypeOK, BucketHistory, NEW o \in Org
  PROVE  /\ Refilled(o) \in 0 .. Burst * Unit
         /\ o \in tenants => Refilled(o) <= tokens[o] + Rate * (now - last[o])
         /\ o \notin tenants => Refilled(o) = Burst * Unit
<1>1. Burst * Unit \in Nat
  BY ConfigAssumption, NatProduct
<1>2. now - last[o] \in Nat /\ Rate \in Nat /\ tokens[o] \in Nat
  BY ConfigAssumption DEF TypeOK, BucketHistory
<1>3. (now - last[o]) * Rate \in Nat /\ (now - last[o]) * Rate = Rate * (now - last[o])
  BY <1>2, NatProduct
<1> DEFINE refill == (now - last[o]) * Rate
<1> HIDE DEF refill
<1>4. refill \in Nat /\ refill = Rate * (now - last[o])
  BY <1>3 DEF refill
<1> QED BY <1>1, <1>2, <1>4 DEF Refilled, Lesser, refill

\* Writing a bucket keeps the types.
LEMMA SetBucketTypes ==
  ASSUME IInv, NEW o \in Org, NEW n \in 0 .. Burst * Unit, SetBucket(o, n)
  PROVE  /\ tenants' \subseteq Org
         /\ tokens' \in [Org -> 0 .. Burst * Unit]
         /\ last' \in [Org -> 0 .. MaxTime]
         /\ born' \in [Org -> 0 .. MaxTime]
BY ConfigAssumption DEF IInv, TypeOK, SetBucket

\* A bucket that is refilled and from which k tokens are taken stays within
\* its rate.
LEMMA RateKept ==
  ASSUME IInv, NEW o \in Org, NEW k \in {0, 1}, Refilled(o) - k * Unit >= 0,
         SetBucket(o, Refilled(o) - k * Unit),
         admitted' = [admitted EXCEPT ![o] = @ + k]
  PROVE  RateBound'
<1> USE DEF IInv
<1> DEFINE n == Refilled(o) - k * Unit
<1>1. Refilled(o) \in Int /\ k * Unit \in Int /\ Unit \in Int /\ Rate \in Int /\ Burst * Unit \in Int
  BY RefilledBounds, ConfigAssumption
<1>2. SUFFICES ASSUME NEW q \in tenants'
               PROVE  admitted'[q] * Unit + tokens'[q] <= Burst * Unit + Rate * (last'[q] - born'[q])
  BY DEF RateBound
<1>3. q \in Org /\ tenants' = tenants \cup {o}
  BY <1>2 DEF TypeOK, SetBucket
<1>4. CASE q # o
  <2>1. q \in tenants
    BY <1>2, <1>3, <1>4
  <2>2. admitted'[q] = admitted[q] /\ tokens'[q] = tokens[q] /\ last'[q] = last[q] /\ born'[q] = born[q]
    BY <1>3, <1>4 DEF TypeOK, SetBucket
  <2> QED BY <2>1, <2>2 DEF RateBound
<1>5. CASE q = o
  <2>1. /\ admitted'[o] = admitted[o] + k /\ tokens'[o] = n /\ last'[o] = now
        /\ born'[o] = IF o \in tenants THEN born[o] ELSE now
    BY DEF TypeOK, SetBucket
  <2>2. admitted[o] \in Int /\ born[o] \in Int /\ now \in Int /\ last[o] \in Int /\ tokens[o] \in Int
    BY DEF TypeOK
  <2>3. admitted'[o] * Unit = admitted[o] * Unit + k * Unit
    BY <1>1, <2>1, <2>2, Distribute
  <2>4. admitted[o] * Unit \in Int /\ Rate * now \in Int /\ Rate * last[o] \in Int /\ Rate * born[o] \in Int
    BY <1>1, <2>2
  <2>5. CASE o \in tenants
    <3>1. admitted[o] * Unit + tokens[o] <= Burst * Unit + Rate * (last[o] - born[o])
      BY <2>5 DEF RateBound
    <3>2. Refilled(o) <= tokens[o] + Rate * (now - last[o])
      BY <2>5, RefilledBounds
    <3>3. /\ Rate * (last[o] - born[o]) = Rate * last[o] - Rate * born[o]
          /\ Rate * (now - last[o]) = Rate * now - Rate * last[o]
          /\ Rate * (now - born[o]) = Rate * now - Rate * born[o]
      BY <1>1, <2>2, RateSplit
    <3>4. last'[q] - born'[q] = now - born[o]
      BY <1>5, <2>1, <2>5
    <3>5. admitted[o] * Unit + k * Unit + n <= Burst * Unit + Rate * (now - born[o])
      BY <1>1, <2>2, <2>4, <3>1, <3>2, <3>3
    <3> QED BY <1>5, <2>1, <2>3, <3>4, <3>5
  <2>6. CASE o \notin tenants
    <3>1. admitted[o] = 0 /\ Refilled(o) = Burst * Unit
      BY <2>6, RefilledBounds DEF BucketHistory
    <3>2. last'[q] - born'[q] = 0
      BY <1>5, <2>1, <2>2, <2>6
    <3>3. admitted[o] * Unit = 0 /\ Rate * 0 = 0
      BY <1>1, <3>1
    <3>4. admitted'[q] * Unit + tokens'[q] = Burst * Unit
      BY <1>1, <1>5, <2>1, <2>3, <3>1, <3>3
    <3> QED BY <1>1, <3>2, <3>3, <3>4
  <2> QED BY <2>5, <2>6
<1> QED BY <1>4, <1>5

\* The handlers under way, when r comes to be or ceases to be one of them.
LEMMA Enter ==
  ASSUME TypeOK, NEW r \in Req, pc[r] = "idle", pc' = [pc EXCEPT ![r] = "work"]
  PROVE  Cardinality(InFlight') = Cardinality(InFlight) + 1
<1>1. IsFiniteSet(InFlight) /\ r \notin InFlight
  BY ClientAssumption, FS_Subset DEF InFlight
<1>2. InFlight' = InFlight \cup {r}
  BY DEF InFlight, TypeOK
<1> QED BY <1>1, <1>2, FS_AddElement

\* A handler that releases its slot is one fewer under way.
LEMMA Leave ==
  ASSUME TypeOK, NEW r \in Req, pc[r] = "return", pc' = [pc EXCEPT ![r] = "idle"]
  PROVE  Cardinality(InFlight') = Cardinality(InFlight) - 1
<1>1. IsFiniteSet(InFlight) /\ r \in InFlight
  BY ClientAssumption, FS_Subset DEF InFlight
<1>2. InFlight' = InFlight \ {r}
  BY DEF InFlight, TypeOK
<1> QED BY <1>1, <1>2, FS_RemoveElement

\* A handler that has its result still holds its slot.
LEMMA StayInFlight ==
  ASSUME TypeOK, NEW r \in Req, pc[r] = "work", pc' = [pc EXCEPT ![r] = "return"]
  PROVE  InFlight' = InFlight
BY DEF InFlight, TypeOK

-----------------------------------------------------------------------------
(* Every step keeps the invariant *)

\* acquire admits: a slot and a token are taken.
LEMMA AcquireStep ==
  ASSUME IInv, NEW r \in Req, NEW o \in Org, Acquire(r, o)
  PROVE  IInv'
<1> USE DEF IInv
<1>1. Refilled(o) - Unit \in 0 .. Burst * Unit /\ Unit \in Nat
  BY RefilledBounds, ConfigAssumption DEF Acquire
<1>2. TypeOK'
  <2>1. slots' \in 0 .. Workers /\ pc' \in [Req -> {"idle", "work", "return"}]
    BY ConfigAssumption DEF TypeOK, Acquire
  <2>2. admitted' \in [Org -> Nat]
    BY DEF TypeOK, Acquire
  <2> QED BY <1>1, <2>1, <2>2, SetBucketTypes DEF TypeOK, Acquire
<1>3. BucketHistory'
  BY DEF BucketHistory, TypeOK, Acquire, SetBucket
<1>4. SlotsAreHeld'
  BY Enter DEF SlotsAreHeld, Acquire
<1>5. RateBound'
  <2> DEFINE k == 1
  <2>1. k * Unit = Unit /\ k \in {0, 1}
    BY <1>1
  <2>2. Refilled(o) - k * Unit >= 0 /\ SetBucket(o, Refilled(o) - k * Unit)
    BY <1>1, <2>1 DEF Acquire
  <2>3. admitted' = [admitted EXCEPT ![o] = @ + k]
    BY DEF Acquire
  <2> HIDE DEF k
  <2> QED BY <2>1, <2>2, <2>3, RateKept
<1>6. BreakerHistory'
  BY DEF BreakerHistory, Acquire
<1> QED BY <1>2, <1>3, <1>4, <1>5, <1>6

\* acquire refuses: the bucket is refilled all the same.
LEMMA RefuseStep ==
  ASSUME IInv, NEW o \in Org, Refuse(o)
  PROVE  IInv'
<1> USE DEF IInv
<1>1. Refilled(o) \in 0 .. Burst * Unit /\ Unit \in Nat
  BY RefilledBounds, ConfigAssumption
<1>2. TypeOK'
  BY <1>1, SetBucketTypes DEF TypeOK, Refuse
<1>3. BucketHistory'
  BY DEF BucketHistory, TypeOK, Refuse, SetBucket
<1>4. SlotsAreHeld'
  BY DEF SlotsAreHeld, InFlight, Refuse
<1>5. RateBound'
  <2> DEFINE k == 0
  <2>1. k * Unit = 0 /\ k \in {0, 1}
    BY <1>1
  <2>2. Refilled(o) - k * Unit >= 0 /\ SetBucket(o, Refilled(o) - k * Unit)
    BY <1>1, <2>1 DEF Refuse
  <2>3. admitted' = [admitted EXCEPT ![o] = @ + k]
    BY DEF Refuse, TypeOK
  <2> HIDE DEF k
  <2> QED BY <2>1, <2>2, <2>3, RateKept
<1>6. BreakerHistory'
  BY DEF BreakerHistory, Refuse
<1> QED BY <1>2, <1>3, <1>4, <1>5, <1>6

\* Where a handler is left with its Put behind it, only the breaker counts.
LEMMA ReturnStep ==
  ASSUME IInv, NEW r \in Req, ReturnEarly(r) \/ PutSucceeds(r) \/ PutFails(r)
  PROVE  IInv'
<1> USE DEF IInv
<1>1. /\ pc[r] = "work" /\ pc' = [pc EXCEPT ![r] = "return"]
      /\ UNCHANGED <<now, slots, bucket, admitted>>
  BY DEF ReturnEarly, PutSucceeds, PutFails
<1>2. SlotsAreHeld'
  BY <1>1, StayInFlight DEF SlotsAreHeld
<1>3. BucketHistory' /\ RateBound'
  BY <1>1 DEF BucketHistory, RateBound
<1>4. pc' \in [Req -> {"idle", "work", "return"}]
  BY <1>1 DEF TypeOK
<1>5. TypeOK' /\ BreakerHistory'
  <2>1. CASE ReturnEarly(r)
    BY <1>1, <1>4, <2>1 DEF TypeOK, BreakerHistory, ReturnEarly
  <2>2. CASE PutSucceeds(r)
    <3>1. 0 % FailureThreshold = 0
      BY ConfigAssumption
    <3>2. TypeOK'
      BY <1>1, <1>4, <2>2, ConfigAssumption DEF TypeOK, PutSucceeds
    <3> QED BY <1>1, <2>2, <3>1, <3>2 DEF BreakerHistory, PutSucceeds
  <2>3. CASE PutFails(r)
    <3>1. /\ (streak % FailureThreshold) + 1 < FailureThreshold
               => (streak + 1) % FailureThreshold = (streak % FailureThreshold) + 1
          /\ (streak % FailureThreshold) + 1 >= FailureThreshold
               => (streak + 1) % FailureThreshold = 0
      BY ModCounts, ConfigAssumption DEF TypeOK
    <3>2. /\ now \in Nat /\ now \in 0 .. MaxTime /\ MaxTime \in Nat /\ OpenDuration \in Nat
          /\ openUntil \in Nat /\ trips \subseteq Nat /\ streak \in Nat /\ failures \in Nat
      BY ConfigAssumption DEF TypeOK
    <3>3. Failed /\ streak' = streak + 1 /\ now' = now
      BY <1>1, <2>3 DEF PutFails, Failed
    <3>4. CASE failures + 1 >= FailureThreshold
      <4>1. (streak + 1) % FailureThreshold = 0
        BY <3>1, <3>4 DEF BreakerHistory
      <4>2. trips' = trips \cup {now} /\ openUntil' = now + OpenDuration /\ failures' = 0
        BY <2>3, <3>2, <3>3, <3>4, <4>1, ConfigAssumption DEF PutFails, Failed, TypeOK
      <4>3. BreakerHistory'
        <5>1. \A t \in trips' : t <= now /\ t + OpenDuration <= openUntil'
          BY <3>2, <4>2 DEF BreakerHistory
        <5> QED BY <3>3, <4>1, <4>2, <5>1 DEF BreakerHistory
      <4>4. openUntil' \in 0 .. MaxTime + OpenDuration /\ trips' \subseteq 0 .. MaxTime
        BY <3>2, <4>2 DEF TypeOK
      <4>5. failures' \in 0 .. FailureThreshold - 1 /\ streak' \in Nat
        BY <3>2, <3>3, <4>2, ConfigAssumption
      <4> QED BY <1>1, <1>4, <4>3, <4>4, <4>5 DEF TypeOK
    <3>5. CASE failures + 1 < FailureThreshold
      <4>1. (streak + 1) % FailureThreshold = failures + 1
        BY <3>1, <3>5 DEF BreakerHistory
      <4>2. trips' = trips /\ openUntil' = openUntil /\ failures' = failures + 1
        BY <2>3, <3>2, <3>3, <3>5, <4>1, ConfigAssumption DEF PutFails, Failed, TypeOK
      <4>3. BreakerHistory'
        BY <3>3, <4>1, <4>2 DEF BreakerHistory
      <4>4. failures' \in 0 .. FailureThreshold - 1 /\ streak' \in Nat
        BY <3>2, <3>3, <3>5, <4>2, ConfigAssumption
      <4> QED BY <1>1, <1>4, <4>2, <4>3, <4>4 DEF TypeOK
    <3> QED BY <3>2, <3>4, <3>5, ConfigAssumption
  <2> QED BY <2>1, <2>2, <2>3
<1> QED BY <1>2, <1>3, <1>5

\* The deferred release.
LEMMA ReleaseStep ==
  ASSUME IInv, NEW r \in Req, Release(r)
  PROVE  IInv'
<1> USE DEF IInv
<1>1. TypeOK'
  BY ConfigAssumption DEF TypeOK, Release
<1>2. SlotsAreHeld'
  BY Leave DEF SlotsAreHeld, Release
<1>3. BucketHistory' /\ RateBound' /\ BreakerHistory'
  BY DEF BucketHistory, RateBound, BreakerHistory, Release
<1> QED BY <1>1, <1>2, <1>3

\* Time passes: buckets may give more, the circuit may close.
LEMMA TickStep ==
  ASSUME IInv, Tick
  PROVE  IInv'
<1> USE DEF IInv
<1>1. TypeOK'
  BY ConfigAssumption DEF TypeOK, Tick
<1>2. BucketHistory' /\ RateBound' /\ SlotsAreHeld'
  BY DEF TypeOK, BucketHistory, RateBound, SlotsAreHeld, InFlight, Tick
<1>3. BreakerHistory'
  BY ConfigAssumption DEF TypeOK, BreakerHistory, Tick
<1> QED BY <1>1, <1>2, <1>3

\* A new pool satisfies the invariant.
LEMMA Initially == Init => IInv
<1> SUFFICES ASSUME Init PROVE IInv
  OBVIOUS
<1>1. Burst * Unit \in Nat /\ 0 % FailureThreshold = 0
  BY ConfigAssumption, NatProduct
<1>2. TypeOK
  BY <1>1, ConfigAssumption DEF Init, TypeOK
<1>3. SlotsAreHeld
  <2>1. InFlight = {}
    BY DEF Init, InFlight
  <2> QED BY <2>1, FS_EmptySet DEF Init, SlotsAreHeld
<1>4. BucketHistory /\ RateBound /\ BreakerHistory
  BY <1>1, ConfigAssumption DEF Init, BucketHistory, RateBound, BreakerHistory
<1> QED BY <1>2, <1>3, <1>4 DEF IInv

\* Every step keeps the invariant.
LEMMA Inductive == IInv /\ [Next]_vars => IInv'
<1> SUFFICES ASSUME IInv, [Next]_vars PROVE IInv'
  OBVIOUS
<1>1. CASE Tick
  BY <1>1, TickStep
<1>2. ASSUME NEW o \in Org, Refuse(o) PROVE IInv'
  BY <1>2, RefuseStep
<1>3. ASSUME NEW o \in Org, NEW r \in Req, Acquire(r, o) PROVE IInv'
  BY <1>3, AcquireStep
<1>4. ASSUME NEW r \in Req, ReturnEarly(r) \/ PutSucceeds(r) \/ PutFails(r) PROVE IInv'
  BY <1>4, ReturnStep
<1>5. ASSUME NEW r \in Req, Release(r) PROVE IInv'
  BY <1>5, ReleaseStep
<1>6. CASE UNCHANGED vars
  BY <1>6 DEF IInv, TypeOK, BucketHistory, SlotsAreHeld, InFlight, RateBound, BreakerHistory, vars
<1> QED BY <1>1, <1>2, <1>3, <1>4, <1>5, <1>6 DEF Next

-----------------------------------------------------------------------------

\* Tokens never leave 0 .. Burst, slots 0 .. Workers, the breaker's count its
\* threshold; all variables keep their types.  (upload_pool.go)
THEOREM TypeCorrect == Spec => []TypeOK
BY Initially, Inductive, PTL DEF Spec, IInv

\* The semaphore always counts exactly the handlers under way: acquire and the
\* deferred release match on every path.  (upload_pool.go)
THEOREM SlotsHeld == Spec => []SlotsAreHeld
BY Initially, Inductive, PTL DEF Spec, IInv

\* No organization is ever admitted more often than its burst and its rate
\* allow over the life of its bucket.  (acquire)
THEOREM RateHolds == Spec => []RateBound
BY Initially, Inductive, PTL DEF Spec, IInv

\* The circuit is open exactly for OpenDuration after every FailureThreshold-th
\* failure in a row, for every configuration (success, failure).
THEOREM BreakerRight == Spec => []BreakerCounts
<1>1. IInv => BreakerCounts
  BY OpenIffTripped DEF IInv, BreakerCounts, BreakerHistory
<1> QED BY <1>1, Initially, Inductive, PTL DEF Spec

\* While the circuit has to be open nothing is let through to the object
\* store (acquire).
THEOREM OpenRefuses == Spec => RefusesWhileOpen
<1>1. ASSUME IInv, [Next]_vars
      PROVE  [\A r \in Req : pc[r] = "idle" /\ pc'[r] = "work" => ~Tripped]_vars
  <2> SUFFICES ASSUME Next, NEW r \in Req, pc[r] = "idle", pc'[r] = "work" PROVE ~Tripped
    BY <1>1
  <2>1. pc \in [Req -> {"idle", "work", "return"}]
    BY <1>1 DEF IInv, TypeOK
  <2>2. PICK o \in Org, q \in Req : Acquire(q, o)
    <3>1. Tick \/ (\E o \in Org : Refuse(o)) => pc' = pc
      BY DEF Tick, Refuse
    <3>2. ASSUME NEW q \in Req, ReturnEarly(q) \/ PutSucceeds(q) \/ PutFails(q) \/ Release(q)
          PROVE  FALSE
      <4>1. pc' = [pc EXCEPT ![q] = "return"] \/ pc' = [pc EXCEPT ![q] = "idle"]
        BY <3>2 DEF ReturnEarly, PutSucceeds, PutFails, Release
      <4> QED BY <2>1, <4>1
    <3> QED BY <3>1, <3>2 DEF Next
  <2>3. ~(now < openUntil)
    <3>1. now \in Nat /\ openUntil \in Nat /\ now >= openUntil
      BY <1>1, <2>2, ConfigAssumption DEF IInv, TypeOK, Acquire
    <3> QED BY <3>1
  <2> QED BY <1>1, <2>3, OpenIffTripped DEF IInv
<1> QED BY <1>1, Initially, Inductive, PTL DEF Spec, RefusesWhileOpen
=============================================================================
