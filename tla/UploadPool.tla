----------------------------- MODULE UploadPool -----------------------------
(***************************************************************************)
(* Admission of proxied uploads: the worker pool, the token bucket of each *)
(* organization and the circuit breaker of upload_pool.go, with the calls  *)
(* that the handler UploadDocument makes to them.                          *)
(*                                                                         *)
(* Time is counted in ticks and tokens, floating-point numbers in the      *)
(* code, in whole units: Unit of them make one token, and a tick refills   *)
(* Rate of them.                                                           *)
(***************************************************************************)
EXTENDS Integers, FiniteSets

CONSTANTS
  Org,               \* organizations
  Req,               \* clients, each with at most one upload under way
  Workers,           \* UploadPoolConfig: size of the pool
  Unit,              \* units in a token
  Rate,              \* units refilled per tick (TenantRate)
  Burst,             \* tokens in a full bucket (TenantBurst)
  FailureThreshold,  \* failures that open the circuit
  OpenDuration,      \* ticks the circuit stays open
  MaxTime            \* bound: the clock stops here

ASSUME ConfigAssumption ==
  /\ Workers \in Nat \ {0} /\ Rate \in Nat \ {0} /\ Burst \in Nat \ {0}
  /\ FailureThreshold \in Nat \ {0} /\ OpenDuration \in Nat \ {0}
  /\ Unit \in Nat \ {0} /\ MaxTime \in Nat
ASSUME ClientAssumption == IsFiniteSet(Req)

VARIABLES
  now,        \* the clock
  slots,      \* len(sem)
  tenants,    \* organizations that have a bucket
  tokens,     \* units in each bucket
  last,       \* when each bucket was last refilled
  failures,   \* the breaker's count
  openUntil,  \* the circuit is open before this time
  pc,         \* where each handler is; "idle" between requests
  born,       \* history: when each bucket was created
  admitted,   \* history: requests admitted, per organization
  streak,     \* history: failed Puts since the last successful one
  trips       \* history: when a row of FailureThreshold failures was complete

bucket == <<tenants, tokens, last, born>>
breaker == <<failures, openUntil, streak, trips>>
vars == <<now, slots, tenants, tokens, last, failures, openUntil, pc,
          born, admitted, streak, trips>>

TypeOK ==
  /\ now \in 0 .. MaxTime
  /\ slots \in 0 .. Workers
  /\ tenants \subseteq Org
  /\ tokens \in [Org -> 0 .. Burst * Unit]
  /\ last \in [Org -> 0 .. MaxTime]
  /\ failures \in 0 .. FailureThreshold - 1
  /\ openUntil \in 0 .. MaxTime + OpenDuration
  /\ pc \in [Req -> {"idle", "work", "return"}]
  /\ born \in [Org -> 0 .. MaxTime]
  /\ admitted \in [Org -> Nat]
  /\ streak \in Nat
  /\ trips \subseteq 0 .. MaxTime

Init ==
  /\ now = 0
  /\ slots = 0
  /\ tenants = {}
  /\ tokens = [o \in Org |-> 0]
  /\ last = [o \in Org |-> 0]
  /\ failures = 0
  /\ openUntil = 0
  /\ pc = [r \in Req |-> "idle"]
  /\ born = [o \in Org |-> 0]
  /\ admitted = [o \in Org |-> 0]
  /\ streak = 0
  /\ trips = {}

-----------------------------------------------------------------------------

Tick ==
  /\ now < MaxTime
  /\ now' = now + 1
  /\ UNCHANGED <<slots, bucket, breaker, pc, admitted>>

Lesser(a, b) == IF a < b THEN a ELSE b

\* Refilling without the cap.
RefilledUncapped(o) ==
  IF o \in tenants THEN tokens[o] + (now - last[o]) * Rate ELSE Burst * Unit

\* What the bucket of o holds once acquire has created or refilled it.
Refilled(o) ==
  IF o \in tenants THEN Lesser(Burst * Unit, tokens[o] + (now - last[o]) * Rate)
                   ELSE Burst * Unit

\* Writing the bucket without bucket.last = now.
SetBucketStale(o, n) ==
  /\ tenants' = tenants \cup {o}
  /\ tokens' = [tokens EXCEPT ![o] = n]
  /\ UNCHANGED last
  /\ born' = [born EXCEPT ![o] = IF o \in tenants THEN @ ELSE now]

\* acquire leaves n units in the bucket of o.
SetBucket(o, n) ==
  /\ tenants' = tenants \cup {o}
  /\ tokens' = [tokens EXCEPT ![o] = n]
  /\ last' = [last EXCEPT ![o] = now]
  /\ born' = [born EXCEPT ![o] = IF o \in tenants THEN @ ELSE now]

\* acquire without its look at openUntil.
AcquireUnchecked(r, o) ==
  /\ pc[r] = "idle"
  /\ Refilled(o) >= Unit
  /\ slots < Workers
  /\ slots' = slots + 1
  /\ SetBucket(o, Refilled(o) - Unit)
  /\ pc' = [pc EXCEPT ![r] = "work"]
  /\ admitted' = [admitted EXCEPT ![o] = @ + 1]
  /\ UNCHANGED <<now, breaker>>

\* acquire takes a slot and a token.  (While the circuit is open acquire
\* returns before it touches anything: that refusal is no step.)
Acquire(r, o) ==
  /\ pc[r] = "idle"
  /\ now >= openUntil
  /\ Refilled(o) >= Unit
  /\ slots < Workers
  /\ slots' = slots + 1
  /\ SetBucket(o, Refilled(o) - Unit)
  /\ pc' = [pc EXCEPT ![r] = "work"]
  /\ admitted' = [admitted EXCEPT ![o] = @ + 1]
  /\ UNCHANGED <<now, breaker>>

\* acquire refuses: the bucket is short of a token, or the pool is full.
Refuse(o) ==
  /\ now >= openUntil
  /\ Refilled(o) < Unit \/ slots = Workers
  /\ SetBucket(o, Refilled(o))
  /\ UNCHANGED <<now, slots, breaker, pc, admitted>>

\* Returning on a path without the deferred release.
ReturnLeaking(r) ==
  /\ pc[r] = "work"
  /\ pc' = [pc EXCEPT ![r] = "idle"]
  /\ UNCHANGED <<now, slots, bucket, breaker, admitted>>

\* The handler returns before it stores anything: no such document, a known
\* idempotency key, a database error.
ReturnEarly(r) ==
  /\ pc[r] = "work"
  /\ pc' = [pc EXCEPT ![r] = "return"]
  /\ UNCHANGED <<now, slots, bucket, breaker, admitted>>

\* Put succeeds: success().
PutSucceeds(r) ==
  /\ pc[r] = "work"
  /\ failures' = 0
  /\ streak' = 0
  /\ pc' = [pc EXCEPT ![r] = "return"]
  /\ UNCHANGED <<now, slots, bucket, openUntil, trips, admitted>>

\* History of a failed Put: the row grows, and may be a whole number of rows.
Failed ==
  /\ streak' = streak + 1
  /\ trips' = IF (streak + 1) % FailureThreshold = 0 THEN trips \cup {now} ELSE trips

\* A failure at the threshold that only starts the count anew.
PutFailsUnopened(r) ==
  /\ pc[r] = "work"
  /\ failures' = IF failures + 1 >= FailureThreshold THEN 0 ELSE failures + 1
  /\ Failed
  /\ pc' = [pc EXCEPT ![r] = "return"]
  /\ UNCHANGED <<now, slots, bucket, openUntil, admitted>>

\* Put fails: failure() counts, and opens the circuit at the threshold.
PutFails(r) ==
  /\ pc[r] = "work"
  /\ \/ /\ failures + 1 >= FailureThreshold
        /\ failures' = 0
        /\ openUntil' = now + OpenDuration
     \/ /\ failures + 1 < FailureThreshold
        /\ failures' = failures + 1
        /\ UNCHANGED openUntil
  /\ Failed
  /\ pc' = [pc EXCEPT ![r] = "return"]
  /\ UNCHANGED <<now, slots, bucket, admitted>>

\* The deferred release.
Release(r) ==
  /\ pc[r] = "return"
  /\ slots > 0
  /\ slots' = slots - 1
  /\ pc' = [pc EXCEPT ![r] = "idle"]
  /\ UNCHANGED <<now, bucket, breaker, admitted>>

Next ==
  \/ Tick
  \/ \E o \in Org : Refuse(o) \/ \E r \in Req : Acquire(r, o)
  \/ \E r \in Req : ReturnEarly(r) \/ PutSucceeds(r) \/ PutFails(r) \/ Release(r)

Spec == Init /\ [][Next]_vars

-----------------------------------------------------------------------------
(* Properties *)

InFlight == {r \in Req : pc[r] # "idle"}

\* The semaphore counts the handlers under way: no path through the handler
\* leaks a slot or frees one twice, so a deferred release never blocks.
SlotsAreHeld == slots = Cardinality(InFlight)

\* Over the whole life of its bucket an organization is admitted at most
\* Burst plus the rate times the elapsed time, however its requests, refusals
\* and refills interleave.
RateBound ==
  \A o \in tenants :
    admitted[o] * Unit + tokens[o] <= Burst * Unit + Rate * (last[o] - born[o])

\* The circuit has to be open: a row of failures was complete less than
\* OpenDuration ago.
Tripped == \E t \in trips : now < t + OpenDuration

\* The circuit is open exactly for OpenDuration after every FailureThreshold-th
\* failure in a row, late results of requests admitted before it opened
\* included, and a success in between starts the count anew.  (success,
\* failure)
BreakerCounts ==
  /\ failures = streak % FailureThreshold
  /\ now < openUntil <=> Tripped

\* While the circuit has to be open, no upload of any organization is let
\* through to the object store.  (acquire)
RefusesWhileOpen ==
  [][\A r \in Req : pc[r] = "idle" /\ pc'[r] = "work" => ~Tripped]_vars
=============================================================================
