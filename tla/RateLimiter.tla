---------------------------- MODULE RateLimiter ----------------------------
(***************************************************************************)
(* The gateway's rate limiter: one token bucket per client address, kept   *)
(* in memory under one mutex.  The clock it reads is the clock of the      *)
(* whole front of the system.                                              *)
(*                                                                         *)
(* Tokens, floating-point numbers in the code, are counted in whole units: *)
(* Unit of them make one token, and a tick refills RateLimitRPS of them.   *)
(***************************************************************************)
EXTENDS Integers

CONSTANTS
  Addr,            \* client addresses, the keys of the limiter
  RateLimitRPS,    \* units refilled per tick
  RateLimitBurst,  \* tokens in a full bucket
  Unit,            \* units in a token
  MaxTime          \* bound: the clock stops here

ASSUME LimitAssumption ==
  /\ RateLimitRPS \in Nat \ {0} /\ RateLimitBurst \in Nat \ {0}
  /\ Unit \in Nat \ {0} /\ MaxTime \in Nat

VARIABLES
  now,      \* the clock
  clients,  \* addresses that have a bucket
  tokens,   \* units in each bucket
  seen,     \* when each bucket was last refilled
  since     \* history: for each address and time, the requests that this
            \* process has let through at that time or later

limiter == <<clients, tokens, seen, since>>

LimiterTypeOK ==
  /\ now \in 0 .. MaxTime
  /\ clients \subseteq Addr
  /\ tokens \in [Addr -> 0 .. RateLimitBurst * Unit]
  /\ seen \in [Addr -> 0 .. MaxTime]
  /\ since \in [Addr -> [0 .. MaxTime -> Nat]]

NoBuckets == [a \in Addr |-> 0]
NothingYet == [a \in Addr |-> [s \in 0 .. MaxTime |-> 0]]

LimiterInit ==
  /\ now = 0
  /\ clients = {} /\ tokens = NoBuckets /\ seen = NoBuckets
  /\ since = NothingYet

\* A new process begins without buckets.
LimiterReset ==
  /\ clients' = {} /\ tokens' = NoBuckets /\ seen' = NoBuckets
  /\ since' = NothingYet

\* A refill without the cap.
RefilledUncapped(a) ==
  IF a \in clients THEN tokens[a] + (now - seen[a]) * RateLimitRPS ELSE RateLimitBurst * Unit

\* What the bucket of a holds before Allow takes a token.
Refilled(a) ==
  LET full == RateLimitBurst * Unit
      refill == tokens[a] + (now - seen[a]) * RateLimitRPS
  IN IF a \in clients /\ refill < full THEN refill ELSE full

\* Allow leaves n units in the bucket of a.
Leave(a, n) ==
  /\ clients' = clients \cup {a}
  /\ tokens' = [tokens EXCEPT ![a] = n]
  /\ seen' = [seen EXCEPT ![a] = now]

\* The history of a request of a that is let through now.
LetThrough(a) ==
  since' = [since EXCEPT ![a] = [s \in 0 .. MaxTime |->
                                   IF s <= now THEN since[a][s] + 1 ELSE since[a][s]]]

\* Taking a token without looking whether there is one.
AdmitEmpty(a) ==
  /\ Leave(a, Refilled(a) - Unit)
  /\ LetThrough(a)

\* Allow returns true.
Admit(a) ==
  /\ Refilled(a) >= Unit
  /\ Leave(a, Refilled(a) - Unit)
  /\ LetThrough(a)

\* Allow returns false: the refill counts, no token is taken.
Deny(a) ==
  /\ Refilled(a) < Unit
  /\ Leave(a, Refilled(a))
  /\ UNCHANGED since

\* Buckets not used for maxAge are dropped.
Cleanup(maxAge) ==
  /\ clients' = {a \in clients : seen[a] >= now - maxAge}
  /\ UNCHANGED <<tokens, seen, since>>

-----------------------------------------------------------------------------
(* The limiter on its own: concurrent requests, the clock, a new process.    *)
(* Nothing in the repository calls Cleanup; here it is called, as any caller *)
(* has to, with an age in which an empty bucket fills up.                    *)

LimiterClock == now < MaxTime /\ now' = now + 1 /\ UNCHANGED limiter

LimiterNext ==
  \/ LimiterClock
  \/ /\ \/ \E a \in Addr : Admit(a) \/ Deny(a)
        \/ LimiterReset
        \/ \E maxAge \in 0 .. MaxTime :
             maxAge * RateLimitRPS >= RateLimitBurst * Unit /\ Cleanup(maxAge)
     /\ UNCHANGED now

LimiterSpec == LimiterInit /\ [][LimiterNext]_<<now, limiter>>

-----------------------------------------------------------------------------

\* In no interval of time, wherever it begins and ends, does an address get
\* more than the burst and the rate times its length: however accepted and
\* refused requests of all addresses, the clock and clean-ups interleave.  (The
\* limit is that of one process: a new one forgets.)  (Limiter.Allow, Cleanup)
AddressRateBound ==
  \A a \in Addr : \A s \in 0 .. now :
    since[a][s] * Unit <= RateLimitBurst * Unit + RateLimitRPS * (now - s)
=============================================================================
