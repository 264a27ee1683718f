--------------------------- MODULE GatewayProofs ---------------------------
(***************************************************************************)
(* Proofs about the gateway, its rate limiter and the Identity service     *)
(* behind it, for any callers, accounts, documents and numbers of stops.   *)
(***************************************************************************)
EXTENDS Gateway, TLAPS

-----------------------------------------------------------------------------
(* The inductive invariant *)

\* What an address was let through in any interval up to now, and what its
\* bucket could give it now, stay within the burst and the rate.
Bucket(a) ==
  /\ a \in clients => seen[a] <= now
  /\ \A s \in 0 .. now :
       since[a][s] * Unit + Refilled(a) <= RateLimitBurst * Unit + RateLimitRPS * (now - s)
  /\ \A s \in 0 .. MaxTime : s > now => since[a][s] = 0

LimiterOK == LimiterTypeOK /\ \A a \in Addr : Bucket(a)

Unique(U) == \A u, v \in U : u.email = v.email => u = v

\* Every account is on record, PostgreSQL forgets none, and no two have one
\* address.
IdentityOK ==
  /\ durable \in BOOLEAN /\ identityUp \in BOOLEAN
  /\ drawn \in Nat /\ stops \in 0 .. MaxStops
  /\ users \subseteq User /\ accounts \subseteq User /\ sessions \subseteq Claims
  /\ users \subseteq accounts /\ (durable => accounts = users)
  /\ Unique(users)

\* A call under way.  One to Document Intake carries the metadata of a token
\* that names an account, unless authentication is switched off.
CallOK(k) ==
  /\ k.at = "sent" => k.claims = None
  /\ k.at = "save" => k.claims \in Claims /\ Names(k.claims, OnRecord) /\ k.fields.route = "login"
  /\ k.to = "identity" /\ k.fields.route = "createUser" => k.fields.email \in Email
  /\ k.to = "documents" =>
       /\ k.fields.route \notin {"login", "createUser"}
       /\ k.fields.route # "createDocument" => k.fields.doc \in Doc
       /\ ~authDisabled =>
            /\ k.fields.bearer # None /\ k.fields.bearer \in Claims
            /\ k.md = [org |-> k.fields.bearer.org, roles |-> UNION k.fields.bearer.roles]
            /\ Names(k.fields.bearer, accounts)

\* Codes that tell the client that nothing has happened.
Refusing == {"InvalidArgument", "Unauthenticated", "PermissionDenied", "NotFound", "AlreadyExists"}

\* A call that is over says what is so, and gives a token only if it is backed.
ResponseOK(k) ==
  /\ k.code = "OK" => Holds(k)
  /\ k.code \in Refusing => ~k.done
  /\ k.code = "AlreadyExists" => \E u \in accounts : u.email = k.fields.email
  /\ k.claims # None => Backed(k.claims)

CallsOK ==
  /\ pc \in [Caller -> {"idle", "waiting", "gone"}]
  /\ call \in [Caller -> Call \cup Response \cup {None}]
  /\ \A c \in Caller :
       IF pc[c] = "idle" THEN call[c] = None
       ELSE \/ call[c] \in Call /\ CallOK(call[c])
            \/ call[c] \in Response /\ ResponseOK(call[c])

FrontOK ==
  /\ authDisabled \in BOOLEAN /\ gatewayUp \in BOOLEAN
  /\ held \subseteq Claims
  /\ docs \in [Doc -> Org \cup {None}]
  /\ served \subseteq [doc: Doc, org: Org, by: Claims \cup {None}]
  /\ TokensAreBacked
  /\ ServedForOwner

IInv == LimiterOK /\ IdentityOK /\ CallsOK /\ FrontOK

-----------------------------------------------------------------------------
(* The rate limiter *)

\* A product of natural numbers is one.
LEMMA NatProduct == ASSUME NEW a \in Nat, NEW b \in Nat PROVE a * b \in Nat
  OBVIOUS

\* Multiplication distributes over addition ...
LEMMA Distribute ==
  ASSUME NEW a \in Int, NEW b \in Int, NEW c \in Int
  PROVE  (a + b) * c = a * c + b * c
  OBVIOUS

\* ... and over subtraction.
LEMMA RateSplit ==
  ASSUME NEW a \in Int, NEW b \in Int, NEW c \in Int
  PROVE  c * (a - b) = c * a - c * b
  OBVIOUS

\* The configuration is made of natural numbers.
LEMMA LimiterNumbers ==
  /\ RateLimitRPS \in Nat /\ RateLimitBurst \in Nat /\ Unit \in Nat /\ Unit > 0 /\ MaxTime \in Nat
  /\ RateLimitBurst * Unit \in Nat
<1>1. /\ RateLimitRPS \in Nat /\ RateLimitBurst \in Nat /\ Unit \in Nat /\ Unit > 0
      /\ MaxTime \in Nat
  BY LimitAssumption
<1> QED BY <1>1, NatProduct

\* The numbers of a bucket.
LEMMA BucketNumbers ==
  ASSUME LimiterOK, NEW a \in Addr
  PROVE  /\ now \in Nat /\ now <= MaxTime /\ seen[a] \in Nat
         /\ tokens[a] \in Nat /\ tokens[a] <= RateLimitBurst * Unit
         /\ since[a] \in [0 .. MaxTime -> Nat]
<1>1. /\ now \in 0 .. MaxTime /\ seen[a] \in 0 .. MaxTime
      /\ since[a] \in [0 .. MaxTime -> Nat] /\ tokens[a] \in 0 .. RateLimitBurst * Unit
  BY DEF LimiterOK, LimiterTypeOK
<1> QED BY <1>1, LimiterNumbers

\* What a bucket holds after a refill.
LEMMA RefilledBounds ==
  ASSUME LimiterOK, NEW a \in Addr
  PROVE  Refilled(a) \in 0 .. RateLimitBurst * Unit
<1> DEFINE refill == (now - seen[a]) * RateLimitRPS
           full == RateLimitBurst * Unit
<1>1. full \in Nat /\ RateLimitRPS \in Nat
  BY LimiterNumbers
<1>2. now \in Nat /\ seen[a] \in Nat /\ tokens[a] \in Nat
  BY BucketNumbers
<1>3. ASSUME a \in clients PROVE refill \in Nat
  <2>1. now - seen[a] \in Nat
    BY <1>2, <1>3 DEF LimiterOK, Bucket
  <2> QED BY <1>1, <2>1, NatProduct
<1>4. Refilled(a) = IF a \in clients /\ tokens[a] + refill < full THEN tokens[a] + refill ELSE full
  BY DEF Refilled
<1> HIDE DEF refill, full
<1>5. Refilled(a) \in 0 .. full
  BY <1>1, <1>2, <1>3, <1>4
<1> QED BY <1>5 DEF full

\* After Allow a bucket holds what it was left with, and the others what they
\* held.
LEMMA LeaveFacts ==
  ASSUME LimiterOK, NEW a \in Addr, NEW n \in 0 .. RateLimitBurst * Unit, Leave(a, n), now' = now
  PROVE  /\ clients' \subseteq Addr /\ seen' \in [Addr -> 0 .. MaxTime]
         /\ tokens' \in [Addr -> 0 .. RateLimitBurst * Unit]
         /\ Refilled(a)' = n /\ seen'[a] <= now
         /\ \A b \in Addr \ {a} :
              /\ Refilled(b)' = Refilled(b)
              /\ b \in clients' => b \in clients /\ seen'[b] = seen[b]
<1>1. PICK full \in Nat : full = RateLimitBurst * Unit
  BY LimiterNumbers
<1>2. /\ clients' = clients \cup {a} /\ tokens' = [tokens EXCEPT ![a] = n]
      /\ seen' = [seen EXCEPT ![a] = now]
  BY DEF Leave
<1>3. /\ now \in 0 .. MaxTime /\ now \in Nat /\ clients \subseteq Addr
      /\ tokens \in [Addr -> 0 .. full] /\ seen \in [Addr -> 0 .. MaxTime] /\ n \in 0 .. full
  BY <1>1, BucketNumbers DEF LimiterOK, LimiterTypeOK
<1>4. /\ tokens'[a] = n /\ seen'[a] = now /\ a \in clients'
      /\ tokens' \in [Addr -> 0 .. full] /\ seen' \in [Addr -> 0 .. MaxTime] /\ clients' \subseteq Addr
  BY <1>2, <1>3
<1>5. Refilled(a)' = n
  <2>1. (now' - seen'[a]) * RateLimitRPS = 0
    BY <1>3, <1>4, LimiterNumbers
  <2>2. Refilled(a)' = IF a \in clients' /\ tokens'[a] + (now' - seen'[a]) * RateLimitRPS < full
                       THEN tokens'[a] + (now' - seen'[a]) * RateLimitRPS ELSE full
    BY <1>1 DEF Refilled
  <2> QED BY <1>1, <1>3, <1>4, <2>1, <2>2
<1>6. ASSUME NEW b \in Addr \ {a}
      PROVE  /\ Refilled(b)' = Refilled(b)
             /\ b \in clients' => b \in clients /\ seen'[b] = seen[b]
  <2>1. /\ b \in clients' <=> b \in clients
        /\ tokens'[b] = tokens[b] /\ seen'[b] = seen[b]
    BY <1>2, <1>3
  <2> QED BY <2>1 DEF Refilled
<1> QED BY <1>1, <1>3, <1>4, <1>5, <1>6

\* Allow keeps every bucket's rate, whether it admits ...
LEMMA AdmitKeeps ==
  ASSUME LimiterOK, NEW a \in Addr, Admit(a), now' = now
  PROVE  LimiterOK'
<1>1. PICK full \in Nat : full = RateLimitBurst * Unit
  BY LimiterNumbers
<1>2. PICK r \in 0 .. full : r = Refilled(a)
  BY <1>1, RefilledBounds
<1>3. Unit \in Nat /\ Unit > 0 /\ MaxTime \in Nat /\ RateLimitRPS \in Nat
  BY LimiterNumbers
<1>4. PICK n \in 0 .. full : n = r - Unit
  BY <1>1, <1>2, <1>3 DEF Admit
<1>5. Leave(a, n)
  BY <1>2, <1>4 DEF Admit
<1>6. /\ clients' \subseteq Addr /\ seen' \in [Addr -> 0 .. MaxTime]
      /\ tokens' \in [Addr -> 0 .. full]
      /\ Refilled(a)' = n /\ seen'[a] <= now
      /\ \A b \in Addr \ {a} :
           /\ Refilled(b)' = Refilled(b)
           /\ b \in clients' => b \in clients /\ seen'[b] = seen[b]
  BY <1>1, <1>5, LeaveFacts
<1>7. PICK h : h = [s \in 0 .. MaxTime |-> IF s <= now THEN since[a][s] + 1 ELSE since[a][s]]
  OBVIOUS
<1>8. /\ since \in [Addr -> [0 .. MaxTime -> Nat]] /\ since[a] \in [0 .. MaxTime -> Nat]
      /\ now \in Nat /\ now \in 0 .. MaxTime
  BY BucketNumbers DEF LimiterOK, LimiterTypeOK
<1>9. h \in [0 .. MaxTime -> Nat] /\ since' = [since EXCEPT ![a] = h]
  BY <1>7, <1>8 DEF Admit, LetThrough
<1>10. /\ since'[a] = h /\ since' \in [Addr -> [0 .. MaxTime -> Nat]]
       /\ \A b \in Addr \ {a} : since'[b] = since[b]
  BY <1>8, <1>9
<1>11. LimiterTypeOK'
  BY <1>1, <1>6, <1>8, <1>10 DEF LimiterTypeOK
<1>12. ASSUME NEW b \in Addr, b # a PROVE Bucket(b)'
  BY <1>6, <1>10, <1>12 DEF LimiterOK, Bucket
<1>13. Bucket(a)'
  <2>1. ASSUME NEW s \in 0 .. now
        PROVE  since'[a][s] * Unit + n <= full + RateLimitRPS * (now - s)
    <3>1. s \in 0 .. MaxTime /\ s <= now /\ s \in Nat
      BY <1>3, <1>8
    <3>2. PICK m \in Nat : m = since[a][s]
      BY <1>8, <3>1
    <3>3. since'[a][s] = m + 1
      BY <1>7, <1>10, <3>1, <3>2
    <3>4. m * Unit + r <= full + RateLimitRPS * (now - s)
      BY <1>1, <1>2, <3>2 DEF LimiterOK, Bucket
    <3>5. (m + 1) * Unit = m * Unit + Unit
      BY <1>3, Distribute
    <3>6. m * Unit \in Nat
      BY <1>3, NatProduct
    <3>7. (m + 1) * Unit + n = m * Unit + r
      BY <1>1, <1>3, <1>4, <3>5, <3>6
    <3> QED BY <3>3, <3>4, <3>7
  <2>2. ASSUME NEW s \in 0 .. MaxTime, s > now PROVE since'[a][s] = 0
    <3>1. since'[a][s] = since[a][s]
      BY <1>7, <1>8, <1>10, <2>2
    <3> QED BY <2>2, <3>1 DEF LimiterOK, Bucket
  <2> QED BY <1>1, <1>6, <2>1, <2>2 DEF Bucket
<1> QED BY <1>11, <1>12, <1>13 DEF LimiterOK

\* ... or denies.
LEMMA DenyKeeps ==
  ASSUME LimiterOK, NEW a \in Addr, Deny(a), now' = now
  PROVE  LimiterOK'
<1>1. PICK n \in 0 .. RateLimitBurst * Unit : n = Refilled(a)
  BY RefilledBounds
<1>2. Leave(a, n) /\ UNCHANGED since
  BY <1>1 DEF Deny
<1>3. /\ clients' \subseteq Addr /\ seen' \in [Addr -> 0 .. MaxTime]
      /\ tokens' \in [Addr -> 0 .. RateLimitBurst * Unit]
      /\ Refilled(a)' = n /\ seen'[a] <= now
      /\ \A b \in Addr \ {a} :
           /\ Refilled(b)' = Refilled(b)
           /\ b \in clients' => b \in clients /\ seen'[b] = seen[b]
  BY <1>2, LeaveFacts
<1>4. LimiterTypeOK'
  BY <1>2, <1>3 DEF LimiterOK, LimiterTypeOK
<1>5. ASSUME NEW b \in Addr PROVE Bucket(b)'
  <2>1. Refilled(b)' = Refilled(b) /\ (b \in clients' => seen'[b] <= now)
    BY <1>1, <1>3 DEF LimiterOK, Bucket
  <2> QED BY <1>2, <2>1 DEF LimiterOK, Bucket
<1> QED BY <1>4, <1>5 DEF LimiterOK

\* Allow, in either case.
LEMMA AllowKeeps ==
  ASSUME LimiterOK, NEW a \in Addr, Admit(a) \/ Deny(a), UNCHANGED now
  PROVE  LimiterOK'
BY AdmitKeeps, DenyKeeps

\* The clock: a tick gives a bucket no more than it allows.
LEMMA TickKeeps ==
  ASSUME LimiterOK, UNCHANGED limiter, now < MaxTime, now' = now + 1
  PROVE  LimiterOK'
<1>1. PICK full \in Nat : full = RateLimitBurst * Unit
  BY LimiterNumbers
<1>2. MaxTime \in Nat /\ RateLimitRPS \in Nat /\ Unit \in Nat
  BY LimiterNumbers
<1>3. UNCHANGED <<clients, tokens, seen, since>>
  BY DEF limiter
<1>4. now \in Nat /\ now \in 0 .. MaxTime /\ now' \in 0 .. MaxTime
  BY <1>2 DEF LimiterOK, LimiterTypeOK
<1>5. LimiterTypeOK'
  BY <1>3, <1>4 DEF LimiterOK, LimiterTypeOK
<1>6. ASSUME NEW a \in Addr PROVE Bucket(a)'
  <2>1. PICK t \in Nat : t = tokens[a]
    BY BucketNumbers
  <2>2. PICK w \in Nat : w = seen[a]
    BY BucketNumbers
  <2>3. PICK r \in 0 .. full : r = Refilled(a)
    BY <1>1, RefilledBounds
  <2>4. a \in clients => w <= now
    BY <2>2 DEF LimiterOK, Bucket
  <2>5. PICK g \in Int : g = (now - w) * RateLimitRPS
    BY <1>2, <1>4
  <2>6. (now + 1 - w) * RateLimitRPS = g + RateLimitRPS
    <3>1. now - w \in Int /\ now + 1 - w = (now - w) + 1
      BY <1>4
    <3> QED BY <1>2, <2>5, <3>1, Distribute
  <2>7. r = IF a \in clients /\ t + g < full THEN t + g ELSE full
    BY <1>1, <2>1, <2>2, <2>3, <2>5 DEF Refilled
  <2>8. Refilled(a)' = IF a \in clients /\ t + (g + RateLimitRPS) < full
                       THEN t + (g + RateLimitRPS) ELSE full
    <3>1. tokens'[a] = t /\ seen'[a] = w /\ clients' = clients /\ now' = now + 1
      BY <1>3, <2>1, <2>2
    <3>2. now' - seen'[a] = now + 1 - w
      BY <1>4, <3>1
    <3>3. (now' - seen'[a]) * RateLimitRPS = g + RateLimitRPS
      BY <2>6, <3>2
    <3> QED BY <1>1, <3>1, <3>3 DEF Refilled
  <2>9. PICK q \in Int : q = Refilled(a)' /\ q <= r + RateLimitRPS /\ q <= full
    BY <1>1, <1>2, <2>1, <2>3, <2>7, <2>8
  <2>10. ASSUME NEW s \in 0 .. now'
         PROVE  since[a][s] * Unit + q <= full + RateLimitRPS * (now' - s)
    <3>1. s \in Nat /\ s \in 0 .. MaxTime
      BY <1>2, <1>4
    <3>2. PICK m \in Nat : m = since[a][s]
      BY <3>1, BucketNumbers
    <3>3. CASE s <= now
      <4>1. m * Unit + r <= full + RateLimitRPS * (now - s)
        BY <1>1, <1>4, <2>3, <3>1, <3>2, <3>3 DEF LimiterOK, Bucket
      <4>2. RateLimitRPS * (now' - s) = RateLimitRPS * (now - s) + RateLimitRPS
        <5>1. now - s \in Int /\ now' - s = (now - s) + 1
          BY <1>4, <3>1
        <5>2. ((now - s) + 1) * RateLimitRPS = (now - s) * RateLimitRPS + 1 * RateLimitRPS
          BY <1>2, <5>1, Distribute
        <5> QED BY <1>2, <5>1, <5>2
      <4>3. m * Unit \in Nat /\ RateLimitRPS * (now - s) \in Int
        BY <1>2, <1>4, <3>1, NatProduct
      <4> QED BY <1>1, <1>2, <2>9, <3>2, <4>1, <4>2, <4>3
    <3>4. CASE s > now
      <4>1. m = 0 /\ s = now'
        BY <1>4, <3>1, <3>2, <3>4 DEF LimiterOK, Bucket
      <4>2. m * Unit = 0 /\ RateLimitRPS * (now' - s) = 0
        BY <1>2, <1>4, <4>1
      <4> QED BY <1>1, <2>9, <3>2, <4>2
    <3> QED BY <1>4, <3>1, <3>3, <3>4
  <2>11. ASSUME NEW s \in 0 .. MaxTime, s > now' PROVE since[a][s] = 0
    <3>1. s > now
      BY <1>2, <1>4, <2>11
    <3> QED BY <3>1 DEF LimiterOK, Bucket
  <2>12. a \in clients => seen[a] <= now'
    BY <1>4, <2>2, <2>4
  <2> QED BY <1>1, <1>3, <2>9, <2>10, <2>11, <2>12 DEF Bucket
<1> QED BY <1>5, <1>6 DEF LimiterOK

\* A step that leaves the limiter and the clock alone keeps it.
LEMMA LimiterKept ==
  ASSUME LimiterOK, UNCHANGED limiter, now' = now
  PROVE  LimiterOK'
BY DEF limiter, LimiterOK, LimiterTypeOK, Bucket, Refilled

\* A new process has no buckets.
LEMMA NoBucketsOK ==
  ASSUME clients = {}, tokens = NoBuckets, seen = NoBuckets, since = NothingYet,
         now \in 0 .. MaxTime
  PROVE  LimiterOK
<1>1. PICK full \in Nat : full = RateLimitBurst * Unit
  BY LimiterNumbers
<1>2. MaxTime \in Nat /\ RateLimitRPS \in Nat /\ Unit \in Nat
  BY LimiterNumbers
<1>3. LimiterTypeOK
  BY <1>1, <1>2 DEF LimiterTypeOK, NoBuckets, NothingYet
<1>4. ASSUME NEW a \in Addr PROVE Bucket(a)
  <2>1. Refilled(a) = full
    BY <1>1 DEF Refilled
  <2>2. ASSUME NEW s \in 0 .. MaxTime PROVE since[a][s] = 0
    BY DEF NothingYet
  <2>3. ASSUME NEW s \in 0 .. now
        PROVE  since[a][s] * Unit + full <= full + RateLimitRPS * (now - s)
    <3>1. s \in 0 .. MaxTime /\ now - s \in Nat
      BY <1>2
    <3>2. since[a][s] * Unit = 0 /\ RateLimitRPS * (now - s) \in Nat
      BY <1>2, <2>2, <3>1, NatProduct
    <3> QED BY <1>1, <3>2
  <2> QED BY <1>1, <2>1, <2>2, <2>3 DEF Bucket
<1> QED BY <1>3, <1>4 DEF LimiterOK

\* A new process of the gateway keeps the invariant.
LEMMA ResetKeeps ==
  ASSUME LimiterOK, LimiterReset, UNCHANGED now
  PROVE  LimiterOK'
<1>1. PICK full \in Nat : full = RateLimitBurst * Unit
  BY LimiterNumbers
<1>2. MaxTime \in Nat /\ RateLimitRPS \in Nat /\ Unit \in Nat
  BY LimiterNumbers
<1>3. now \in 0 .. MaxTime
  BY DEF LimiterOK, LimiterTypeOK
<1>4. /\ clients' = {} /\ tokens' = [a \in Addr |-> 0] /\ seen' = [a \in Addr |-> 0]
      /\ since' = [a \in Addr |-> [s \in 0 .. MaxTime |-> 0]]
  BY DEF LimiterReset, NoBuckets, NothingYet
<1>5. LimiterTypeOK'
  BY <1>1, <1>2, <1>3, <1>4 DEF LimiterTypeOK
<1>6. ASSUME NEW a \in Addr PROVE Bucket(a)'
  <2>1. Refilled(a)' = full
    BY <1>1, <1>4 DEF Refilled
  <2>2. ASSUME NEW s \in 0 .. MaxTime PROVE since'[a][s] = 0
    BY <1>4
  <2>3. ASSUME NEW s \in 0 .. now
        PROVE  since'[a][s] * Unit + full <= full + RateLimitRPS * (now - s)
    <3>1. s \in 0 .. MaxTime /\ now - s \in Nat
      BY <1>2, <1>3
    <3>2. since'[a][s] * Unit = 0 /\ RateLimitRPS * (now - s) \in Nat
      BY <1>2, <2>2, <3>1, NatProduct
    <3> QED BY <1>1, <3>2
  <2> QED BY <1>1, <1>4, <2>1, <2>2, <2>3 DEF Bucket
<1> QED BY <1>5, <1>6 DEF LimiterOK

\* Cleanup drops only buckets that are full, when its age is long enough.
LEMMA CleanupKeeps ==
  ASSUME LimiterOK, NEW maxAge \in Nat, maxAge * RateLimitRPS >= RateLimitBurst * Unit,
         Cleanup(maxAge), now' = now
  PROVE  LimiterOK'
<1>1. PICK full \in Nat : full = RateLimitBurst * Unit
  BY LimiterNumbers
<1>2. MaxTime \in Nat /\ RateLimitRPS \in Nat
  BY LimiterNumbers
<1>3. clients' = {a \in clients : seen[a] >= now - maxAge} /\ UNCHANGED <<tokens, seen, since>>
  BY DEF Cleanup
<1>4. LimiterTypeOK'
  BY <1>3 DEF LimiterOK, LimiterTypeOK
<1>5. ASSUME NEW a \in Addr PROVE Refilled(a)' = Refilled(a)
  <2>1. now \in Nat /\ seen[a] \in Nat /\ tokens[a] \in Nat
    BY BucketNumbers
  <2>2. CASE a \in clients /\ seen[a] < now - maxAge
    <3>1. PICK d \in Nat : now - seen[a] = maxAge + d
      <4>1. /\ now - seen[a] - maxAge \in Nat
            /\ now - seen[a] = maxAge + (now - seen[a] - maxAge)
        BY <2>1, <2>2
      <4> QED BY <4>1
    <3>2. (now - seen[a]) * RateLimitRPS = maxAge * RateLimitRPS + d * RateLimitRPS
      BY <1>2, <3>1, Distribute
    <3>3. PICK g \in Nat : g = maxAge * RateLimitRPS
      BY <1>2, NatProduct
    <3>4. d * RateLimitRPS \in Nat
      BY <1>2, NatProduct
    <3>5. ~(tokens[a] + (now - seen[a]) * RateLimitRPS < full)
      BY <1>1, <2>1, <3>2, <3>3, <3>4
    <3>6. Refilled(a) = full
      BY <1>1, <3>5 DEF Refilled
    <3>7. a \notin clients'
      BY <1>2, <1>3, <2>1, <2>2
    <3> QED BY <1>1, <3>6, <3>7 DEF Refilled
  <2>3. CASE ~(a \in clients /\ seen[a] < now - maxAge)
    <3>1. a \in clients' <=> a \in clients
      BY <1>3, <2>1, <2>3
    <3> QED BY <1>3, <3>1 DEF Refilled
  <2> QED BY <2>2, <2>3
<1>6. ASSUME NEW a \in Addr PROVE Bucket(a)'
  <2>1. Refilled(a)' = Refilled(a)
    BY <1>5
  <2>2. a \in clients' => a \in clients
    BY <1>3
  <2> QED BY <1>3, <2>1, <2>2 DEF LimiterOK, Bucket
<1> QED BY <1>4, <1>6 DEF LimiterOK

\* The invariant of the limiter gives the rate.
LEMMA LimiterRate == ASSUME LimiterOK PROVE AddressRateBound
<1> SUFFICES ASSUME NEW a \in Addr, NEW s \in 0 .. now
             PROVE  since[a][s] * Unit <= RateLimitBurst * Unit + RateLimitRPS * (now - s)
  BY DEF AddressRateBound
<1>1. PICK full \in Nat : full = RateLimitBurst * Unit
  BY LimiterNumbers
<1>2. PICK r \in Nat : r = Refilled(a)
  BY <1>1, RefilledBounds
<1>3. now \in Nat /\ MaxTime \in Nat /\ Unit \in Nat /\ RateLimitRPS \in Nat /\ now <= MaxTime
  BY LimiterNumbers, BucketNumbers
<1>4. s \in 0 .. MaxTime /\ s \in Nat /\ s <= now
  BY <1>3
<1>5. PICK m \in Nat : m = since[a][s] * Unit
  <2>1. since[a][s] \in Nat
    BY <1>4, BucketNumbers
  <2> QED BY <1>3, <2>1, NatProduct
<1>6. PICK g \in Int : g = RateLimitRPS * (now - s)
  BY <1>3, <1>4
<1>7. m + r <= full + g
  BY <1>1, <1>2, <1>5, <1>6 DEF LimiterOK, Bucket
<1> QED BY <1>1, <1>2, <1>5, <1>6, <1>7

\* In no interval does an address get more than its burst and its rate, for
\* every configuration of the limiter and any interleaving of requests, clock,
\* clean-ups and restarts (Limiter.Allow, Cleanup).
THEOREM LimiterHolds == LimiterSpec => []AddressRateBound
<1>1. LimiterInit => LimiterOK
  <2>1. 0 \in 0 .. MaxTime
    BY LimiterNumbers
  <2> QED BY <2>1, NoBucketsOK DEF LimiterInit
<1>2. LimiterOK /\ [LimiterNext]_<<now, limiter>> => LimiterOK'
  <2> SUFFICES ASSUME LimiterOK, [LimiterNext]_<<now, limiter>> PROVE LimiterOK'
    OBVIOUS
  <2>1. CASE LimiterClock
    BY <2>1, TickKeeps DEF LimiterClock
  <2>2. ASSUME NEW a \in Addr, Admit(a) \/ Deny(a), UNCHANGED now PROVE LimiterOK'
    BY <2>2, AllowKeeps
  <2>3. ASSUME LimiterReset, UNCHANGED now PROVE LimiterOK'
    BY <2>3, ResetKeeps
  <2>4. ASSUME NEW maxAge \in 0 .. MaxTime, maxAge * RateLimitRPS >= RateLimitBurst * Unit,
               Cleanup(maxAge), UNCHANGED now
        PROVE  LimiterOK'
    <3>1. maxAge \in Nat /\ now' = now
      BY <2>4, LimiterNumbers
    <3> QED BY <2>4, <3>1, CleanupKeeps
  <2>5. CASE UNCHANGED <<now, limiter>>
    BY <2>5, LimiterKept
  <2> QED BY <2>1, <2>2, <2>3, <2>4, <2>5 DEF LimiterNext
<1>3. LimiterOK => AddressRateBound
  BY LimiterRate
<1> QED BY <1>1, <1>2, <1>3, PTL DEF LimiterSpec

-----------------------------------------------------------------------------
(* Calls *)

\* What a step may not take back: accounts ever stored, in PostgreSQL accounts
\* and sessions, and the organizations of documents.
Grows ==
  /\ UNCHANGED <<durable, authDisabled>>
  /\ accounts \subseteq accounts'
  /\ durable => users \subseteq users' /\ sessions \subseteq sessions'
  /\ \A d \in Doc : docs[d] # None => docs'[d] = docs[d]

\* What names an account goes on naming it.
LEMMA NamesKept ==
  ASSUME Grows, NEW t
  PROVE  /\ Names(t, OnRecord) => Names(t, OnRecord)'
         /\ Names(t, accounts) => Names(t, accounts)'
         /\ Backed(t) => Backed(t)'
<1>1. Names(t, OnRecord) => Names(t, OnRecord)'
  BY DEF Grows, Names, OnRecord
<1>2. Names(t, accounts) => Names(t, accounts)'
  BY DEF Grows, Names
<1> QED BY <1>1, <1>2 DEF Grows, Backed

\* A call that a step leaves alone stays right.
LEMMA CallKept ==
  ASSUME Grows, NEW k
  PROVE  /\ CallOK(k) => CallOK(k)'
         /\ ResponseOK(k) => ResponseOK(k)'
<1>1. CallOK(k) => CallOK(k)'
  <2>1. Names(k.claims, OnRecord) => Names(k.claims, OnRecord)'
    BY NamesKept
  <2>2. Names(k.fields.bearer, accounts) => Names(k.fields.bearer, accounts)'
    BY NamesKept
  <2>3. authDisabled' = authDisabled
    BY DEF Grows
  <2> QED BY <2>1, <2>2, <2>3 DEF CallOK
<1>2. ResponseOK(k) => ResponseOK(k)'
  <2>1. Backed(k.claims) => Backed(k.claims)'
    BY NamesKept
  <2>2. Holds(k) => Holds(k)'
    <3>1. CASE k.fields.route = "login"
      BY <2>1, <3>1 DEF Holds
    <3>2. CASE k.fields.route = "createUser"
      BY <3>2 DEF Holds, OnRecord, Grows
    <3>3. CASE k.fields.route \notin {"login", "createUser"}
      BY <3>3 DEF Holds, Grows
    <3> QED BY <3>1, <3>2, <3>3
  <2>3. (\E u \in accounts : u.email = k.fields.email) => \E u \in accounts' : u.email = k.fields.email
    BY DEF Grows
  <2> QED BY <2>1, <2>2, <2>3 DEF ResponseOK
<1> QED BY <1>1, <1>2

\* The calls are kept by a step that leaves them alone.
LEMMA CallsKept ==
  ASSUME CallsOK, Grows, UNCHANGED <<pc, call>>
  PROVE  CallsOK'
<1>1. ASSUME NEW c \in Caller
      PROVE  IF pc'[c] = "idle" THEN call'[c] = None
             ELSE \/ call'[c] \in Call /\ CallOK(call[c])'
                  \/ call'[c] \in Response /\ ResponseOK(call[c])'
  <2>1. PICK k : k = call[c]
    OBVIOUS
  <2>2. /\ CallOK(k) => CallOK(k)'
        /\ ResponseOK(k) => ResponseOK(k)'
    BY CallKept
  <2>3. IF pc[c] = "idle" THEN k = None
        ELSE (k \in Call /\ CallOK(k)) \/ (k \in Response /\ ResponseOK(k))
    BY <2>1 DEF CallsOK
  <2>4. call'[c] = k
    BY <2>1
  <2> QED BY <2>2, <2>3, <2>4
<1> QED BY <1>1 DEF CallsOK

\* The call of one caller becomes k.
LEMMA CallMoves ==
  ASSUME CallsOK, Grows, NEW c \in Caller, NEW k, call' = [call EXCEPT ![c] = k],
         pc' \in [Caller -> {"idle", "waiting", "gone"}],
         \A b \in Caller \ {c} : pc'[b] = pc[b],
         IF pc'[c] = "idle" THEN k = None
         ELSE (k \in Call /\ CallOK(k)') \/ (k \in Response /\ ResponseOK(k)')
  PROVE  CallsOK'
<1>1. call \in [Caller -> Call \cup Response \cup {None}]
  BY DEF CallsOK
<1>2. /\ call' \in [Caller -> Call \cup Response \cup {None}]
      /\ call'[c] = k /\ \A b \in Caller \ {c} : call'[b] = call[b]
  BY <1>1
<1>3. ASSUME NEW b \in Caller
      PROVE  IF pc'[b] = "idle" THEN call'[b] = None
             ELSE \/ call'[b] \in Call /\ CallOK(call[b])'
                  \/ call'[b] \in Response /\ ResponseOK(call[b])'
  <2>1. CASE b = c
    BY <1>2, <2>1
  <2>2. CASE b # c
    <3>1. PICK j : j = call[b]
      OBVIOUS
    <3>2. /\ CallOK(j) => CallOK(j)'
          /\ ResponseOK(j) => ResponseOK(j)'
      BY CallKept
    <3>3. IF pc[b] = "idle" THEN j = None
          ELSE (j \in Call /\ CallOK(j)) \/ (j \in Response /\ ResponseOK(j))
      BY <3>1 DEF CallsOK
    <3>4. call'[b] = j /\ pc'[b] = pc[b]
      BY <1>2, <2>2, <3>1
    <3> QED BY <3>2, <3>3, <3>4
  <2> QED BY <2>1, <2>2
<1> QED BY <1>2, <1>3 DEF CallsOK

\* A caller whose call is at some step of a service has a call under way.
LEMMA AtFacts ==
  ASSUME CallsOK, NEW c \in Caller, call[c] # None, call[c].at \in {"sent", "save"}
  PROVE  pc[c] # "idle" /\ call[c] \in Call /\ CallOK(call[c])
<1>1. pc[c] # "idle"
  BY DEF CallsOK
<1>2. call[c] \notin Response
  BY DEF Response
<1> QED BY <1>1, <1>2 DEF CallsOK

\* How a call ends.
LEMMA EndedFacts ==
  ASSUME NEW k \in Call, NEW code \in Code, NEW done \in BOOLEAN,
         NEW e, e = Ended(k, code, done)
  PROVE  /\ e \in Response /\ e.code = code /\ e.done = done
         /\ e.claims = IF code = "OK" THEN k.claims ELSE None
         /\ e.fields.route = k.fields.route /\ e.fields.org = k.fields.org
         /\ e.fields.doc = k.fields.doc /\ e.fields.email = k.fields.email
         /\ e.fields.roles = k.fields.roles
<1>1. k.fields \in Fields /\ k.claims \in Claims \cup {None}
  BY DEF Call
<1>2. PICK g : g = [k.fields EXCEPT !.bearer = None]
  OBVIOUS
<1>3. /\ g \in Fields /\ g.route = k.fields.route /\ g.org = k.fields.org /\ g.doc = k.fields.doc
      /\ g.email = k.fields.email /\ g.roles = k.fields.roles
  BY <1>1, <1>2 DEF Fields
<1>4. e = [at |-> "over", fields |-> g, code |-> code, done |-> done,
           claims |-> IF code = "OK" THEN k.claims ELSE None]
  BY <1>2 DEF Ended
<1> QED BY <1>1, <1>3, <1>4 DEF Response

\* A call ends with an answer that is right.
LEMMA EndsRight ==
  ASSUME CallsOK, Grows, UNCHANGED pc, NEW c \in Caller, pc[c] # "idle",
         NEW e \in Response, ResponseOK(e)', call' = [call EXCEPT ![c] = e]
  PROVE  CallsOK'
<1>1. pc' \in [Caller -> {"idle", "waiting", "gone"}] /\ pc'[c] # "idle"
  BY DEF CallsOK
<1>2. IF pc'[c] = "idle" THEN e = None
      ELSE (e \in Call /\ CallOK(e)') \/ (e \in Response /\ ResponseOK(e)')
  BY <1>1
<1>3. \A b \in Caller \ {c} : pc'[b] = pc[b]
  OBVIOUS
<1> QED BY <1>1, <1>2, <1>3, CallMoves

\* A call ends, and its answer is true.
LEMMA EndsWell ==
  ASSUME CallsOK, Grows, UNCHANGED pc, NEW c \in Caller, pc[c] # "idle",
         NEW k \in Call, NEW code \in Code, NEW done \in BOOLEAN,
         NEW e, e = Ended(k, code, done), call' = [call EXCEPT ![c] = e],
         k.claims # None => k.fields.route = "login",
         code = "OK" => Holds(e)', code \in Refusing => ~done,
         code = "AlreadyExists" => \E u \in accounts' : u.email = k.fields.email
  PROVE  CallsOK'
<1>1. /\ e \in Response /\ e.code = code /\ e.done = done
      /\ e.claims = IF code = "OK" THEN k.claims ELSE None
      /\ e.fields.route = k.fields.route /\ e.fields.email = k.fields.email
  BY EndedFacts
<1>2. e.claims # None => Backed(e.claims)'
  BY <1>1 DEF Holds
<1>3. ResponseOK(e)'
  BY <1>1, <1>2 DEF ResponseOK
<1> QED BY <1>1, <1>3, EndsRight

\* A call returns without success.
LEMMA ReturnFacts ==
  ASSUME CallsOK, Grows, UNCHANGED pc, NEW c \in Caller, NEW code \in Code, NEW done \in BOOLEAN,
         call[c] # None, call[c].at \in {"sent", "save"}, Return(c, code, done),
         code \notin {"OK", "AlreadyExists"}, code \in Refusing => ~done
  PROVE  CallsOK'
<1>1. PICK k \in Call : k = call[c] /\ CallOK(k) /\ pc[c] # "idle"
  BY AtFacts
<1>2. PICK e : e = Ended(k, code, done)
  OBVIOUS
<1>3. call' = [call EXCEPT ![c] = e]
  BY <1>1, <1>2 DEF Return
<1>4. k.claims # None => k.fields.route = "login"
  BY <1>1 DEF CallOK, Call
<1> QED BY <1>1, <1>2, <1>3, <1>4, EndsWell

\* What clients hold and what was done for them stays right when documents
\* keep their organizations.
LEMMA FrontKept ==
  ASSUME FrontOK, Grows, UNCHANGED <<held, docs, served>>, gatewayUp' \in BOOLEAN
  PROVE  FrontOK'
<1>1. TokensAreBacked'
  <2>1. \A t \in held : Backed(t)
    BY DEF FrontOK, TokensAreBacked
  <2>2. ASSUME NEW t \in held' PROVE Backed(t)'
    BY <2>1, NamesKept
  <2> QED BY <2>2 DEF TokensAreBacked
<1>2. ServedForOwner'
  BY DEF FrontOK, ServedForOwner, Grows
<1> QED BY <1>1, <1>2 DEF FrontOK, Grows

-----------------------------------------------------------------------------
(* Requests and the calls they lead to *)

\* What clients send, and the token that comes with it.
LEMMA RequestFacts ==
  ASSUME FrontOK, NEW f \in Requests
  PROVE  /\ f \in Fields /\ f.bearer \in held \cup {None}
         /\ f.route = "createUser" => f.email \in Email
         /\ f.route \notin {"login", "createUser"} => f.doc \in Doc
<1>1. /\ held \subseteq Claims
      /\ {} \in SUBSET Role
  BY DEF FrontOK
<1>2. CASE f \in Logins
  BY <1>1, <1>2 DEF Logins, Fields, Route
<1>3. CASE f \in Creations
  <2>1. /\ f \in [route: {"createUser"}, bearer: held \cup {None}, org: AskedOrgs,
                  doc: {None}, email: Email, roles: RoleLists]
        /\ f.roles \in RoleLists /\ f.org \in AskedOrgs
    BY <1>3 DEF Creations
  <2>2. f.roles \in SUBSET Role
    BY <2>1, IdentityAssumption DEF Role
  <2>3. f.org \in Org \cup {Blanks, None}
    BY <2>1, UsesAssumption
  <2> QED BY <1>1, <2>1, <2>2, <2>3 DEF Fields, Route
<1>4. CASE f \in Others
  BY <1>1, <1>4 DEF Others, Fields
<1> QED BY <1>2, <1>3, <1>4 DEF Requests

\* A call to a service that has just been sent.
LEMMA CallToFacts ==
  ASSUME NEW s \in Service, NEW f \in Fields, NEW md \in Metadata
  PROVE  /\ CallTo(s, f, md) \in Call
         /\ CallTo(s, f, md).at = "sent" /\ CallTo(s, f, md).to = s
         /\ CallTo(s, f, md).fields = f /\ CallTo(s, f, md).md = md
         /\ CallTo(s, f, md).claims = None
BY DEF CallTo, Call

\* A call to Document Intake carries the token's organization and roles.
LEMMA DocumentsCallFacts ==
  ASSUME IdentityOK, FrontOK, NEW f \in Fields, f.bearer \in held \cup {None},
         f.route \notin {"login", "createUser"}, Authenticated(f),
         f.route # "createDocument" => f.doc \in Doc, DocumentsCall(f) # None
  PROVE  DocumentsCall(f) \in Call /\ CallOK(DocumentsCall(f))
<1>1. PICK claims : claims = ClaimsOf(f)
  OBVIOUS
<1>2. PICK org : org = OrganizationID(claims, f.org)
  OBVIOUS
<1>3. PICK md : md = IdentityMetadata(claims, org)
  OBVIOUS
<1>4. PICK g : g = [f EXCEPT !.org = org]
  OBVIOUS
<1>5. DocumentsCall(f) = CallTo("documents", g, md)
  BY <1>1, <1>2, <1>3, <1>4 DEF DocumentsCall
<1>6. claims \in Claims \cup {None} /\ f.org \in Org \cup {Blanks, None}
  BY <1>1 DEF FrontOK, ClaimsOf, Fields
<1>7. claims # None => claims.org \in Org \cup {None} /\ UNION claims.roles \in SUBSET Word
  BY <1>6 DEF Claims, Role
<1>8. org \in Org \cup {Blanks, None}
  BY <1>2, <1>6, <1>7 DEF OrganizationID
<1>9. md \in Metadata
  <2>1. CASE claims # None
    BY <1>3, <1>7, <2>1 DEF IdentityMetadata, Metadata
  <2>2. CASE claims = None
    BY <1>3, <1>8, <2>2, IdentityAssumption DEF IdentityMetadata, Metadata
  <2> QED BY <2>1, <2>2
<1>10. /\ g \in Fields /\ g.bearer = f.bearer /\ g.route = f.route /\ g.doc = f.doc
  BY <1>4, <1>8 DEF Fields
<1>11. PICK k \in Call : /\ k = DocumentsCall(f) /\ k.at = "sent" /\ k.to = "documents"
                         /\ k.fields = g /\ k.md = md /\ k.claims = None
  <2>1. "documents" \in Service
    BY DEF Service
  <2> QED BY <1>5, <1>9, <1>10, <2>1, CallToFacts
<1>12. ASSUME ~authDisabled
       PROVE  /\ f.bearer # None /\ f.bearer \in Claims
              /\ md = [org |-> f.bearer.org, roles |-> UNION f.bearer.roles]
              /\ Names(f.bearer, accounts)
  <2>1. f.bearer # None /\ claims = f.bearer
    BY <1>1, <1>12 DEF Authenticated, RequiresAuth, Verify, ClaimsOf
  <2>2. f.bearer \in held
    BY <2>1
  <2>3. Names(f.bearer, accounts)
    BY <2>2 DEF FrontOK, TokensAreBacked, Backed, Names, OnRecord, IdentityOK
  <2>4. md = [org |-> f.bearer.org, roles |-> UNION f.bearer.roles]
    BY <1>3, <2>1 DEF IdentityMetadata
  <2> QED BY <1>6, <2>1, <2>3, <2>4
<1>13. CallOK(k)
  BY <1>10, <1>11, <1>12 DEF CallOK
<1> QED BY <1>11, <1>13

\* The call that a handler makes is right.
LEMMA HandlerFacts ==
  ASSUME IdentityOK, FrontOK, NEW f \in Requests, Authenticated(f), HandlerOf(f) # None
  PROVE  HandlerOf(f) \in Call /\ CallOK(HandlerOf(f))
<1>1. /\ f \in Fields /\ f.bearer \in held \cup {None} /\ f.route \in Route
      /\ f.route = "createUser" => f.email \in Email
      /\ f.route \notin {"login", "createUser"} => f.doc \in Doc
  BY RequestFacts DEF Fields
<1>2. NoMetadata \in Metadata
  BY DEF NoMetadata, Metadata
<1>3. "identity" \in Service /\ "verification" \in Service
  BY DEF Service
<1>4. CASE f.route = "login"
  <2>1. HandlerOf(f) = login(f)
    BY <1>4 DEF HandlerOf
  <2>2. HandlerOf(f) = CallTo("identity", f, NoMetadata)
    BY <2>1 DEF login
  <2> QED BY <1>1, <1>2, <1>3, <1>4, <2>2, CallToFacts DEF CallOK
<1>5. CASE f.route = "createUser"
  <2>1. HandlerOf(f) = createUser(f)
    BY <1>5 DEF HandlerOf
  <2>2. PICK g : g = [f EXCEPT !.bearer = None]
    OBVIOUS
  <2>3. HandlerOf(f) = CallTo("identity", g, NoMetadata)
    BY <2>1, <2>2 DEF createUser
  <2>4. g \in Fields /\ g.email = f.email
    BY <1>1, <2>2 DEF Fields
  <2> QED BY <1>1, <1>2, <1>3, <1>5, <2>3, <2>4, CallToFacts DEF CallOK
<1>6. CASE f.route = "createDocument"
  <2>1. HandlerOf(f) = createDocument(f)
    BY <1>6 DEF HandlerOf
  <2>2. PICK g : g = [f EXCEPT !.doc = None]
    OBVIOUS
  <2>3. HandlerOf(f) = DocumentsCall(g)
    BY <2>1, <2>2 DEF createDocument
  <2>4. g \in Fields /\ g.route = f.route /\ g.bearer = f.bearer
    BY <1>1, <2>2 DEF Fields
  <2>5. Authenticated(g)
    BY <2>4 DEF Authenticated, RequiresAuth
  <2> QED BY <1>1, <1>6, <2>3, <2>4, <2>5, DocumentsCallFacts
<1>7. CASE f.route \in {"uploadDocument", "getDocument", "getDocumentStatus"}
  <2>1. HandlerOf(f) = DocumentsCall(f)
    BY <1>7 DEF HandlerOf, uploadDocument, getDocument, getDocumentStatus
  <2> QED BY <1>1, <1>7, <2>1, DocumentsCallFacts
<1>8. CASE f.route \in {"startVerification", "getVerification"}
  <2>1. HandlerOf(f) = VerificationCall(f)
    BY <1>8 DEF HandlerOf, startVerification, getVerification
  <2>2. PICK g : g = [NoFields EXCEPT !.route = f.route]
    OBVIOUS
  <2>3. HandlerOf(f) = CallTo("verification", g, NoMetadata)
    BY <2>1, <2>2 DEF VerificationCall
  <2>4. g = [route |-> f.route, bearer |-> None, org |-> None, doc |-> None,
             email |-> None, roles |-> {}]
    BY <2>2 DEF NoFields
  <2>5. g \in Fields
    BY <1>1, <2>4 DEF Fields
  <2> QED BY <1>2, <1>3, <2>3, <2>5, CallToFacts DEF CallOK
<1> QED BY <1>1, <1>4, <1>5, <1>6, <1>7, <1>8 DEF Route

-----------------------------------------------------------------------------
(* The Identity service *)

\* What CreateUser stores is an account.
LEMMA NewUserFacts ==
  ASSUME NEW f, f.email \in Email, f.org \in Org \cup {Blanks, None}, f.roles \in SUBSET Role,
         NEW n \in Nat
  PROVE  /\ NewUser(f, n) \in User /\ NewUser(f, n).email = f.email
         /\ NewUser(f, n).org = Trim(f.org) /\ NewUser(f, n).roles = RolesOrMember(f.roles)
<1>1. Trim(f.org) \in Org \cup {None}
  BY DEF Trim
<1>2. RolesOrMember(f.roles) \in SUBSET Role
  BY IdentityAssumption DEF RolesOrMember, Role
<1> QED BY <1>1, <1>2 DEF NewUser, User, UserId

\* Seeding adds at most the development account, and only when its address is
\* free.
LEMMA SeededFacts ==
  ASSUME NEW known \in SUBSET User, NEW n \in Nat, Unique(known)
  PROVE  /\ Seeded(known, n) \in SUBSET User /\ known \subseteq Seeded(known, n)
         /\ Unique(Seeded(known, n))
<1>1. PICK f : f = [email |-> SeedEmail, org |-> SeedOrg, roles |-> {{"admin"}}]
  OBVIOUS
<1>2. f.email = SeedEmail /\ f.org = SeedOrg /\ f.roles = {{"admin"}}
  BY <1>1
<1>3. f.email \in Email /\ f.org \in Org \cup {Blanks, None} /\ f.roles \in SUBSET Role
  BY <1>2, IdentityAssumption DEF Role
<1>4. SeedUser(n) \in User /\ SeedUser(n).email = SeedEmail
  BY <1>1, <1>2, <1>3, NewUserFacts DEF SeedUser
<1> QED BY <1>4 DEF Seeded, Seeds, Conflict, Unique

\* The token signed for an account names it.
LEMMA SignFacts ==
  ASSUME NEW u \in User, NEW time \in Nat
  PROVE  /\ SignHS256(u, time) \in Claims
         /\ SignHS256(u, time).sub = u.id /\ SignHS256(u, time).org = u.org
         /\ SignHS256(u, time).roles = u.roles
<1>1. time + AccessTTL \in Nat
  BY IdentityAssumption
<1> QED BY <1>1 DEF SignHS256, User, Claims

\* What a step of the Identity service leaves alone.
Elsewhere == UNCHANGED <<now, limiter, authDisabled, gatewayUp, pc, held, intake>>

\* The rest of the system is kept by a step of the Identity service.
LEMMA ElsewhereKept ==
  ASSUME IInv, Elsewhere, Grows
  PROVE  LimiterOK' /\ FrontOK' /\ UNCHANGED pc
<1>1. UNCHANGED limiter /\ now' = now /\ UNCHANGED <<pc, held, docs, served, gatewayUp>>
  BY DEF Elsewhere, intake
<1>2. LimiterOK'
  BY <1>1, LimiterKept DEF IInv
<1>3. FrontOK'
  BY <1>1, FrontKept DEF IInv, FrontOK
<1> QED BY <1>1, <1>2, <1>3

\* Postgres.CreateUser and Memory.CreateUser keep the invariant.
LEMMA CreateUserStep ==
  ASSUME IInv, Elsewhere, NEW c \in Caller, CreateUser(c)
  PROVE  IInv'
<1>1. LimiterOK /\ IdentityOK /\ CallsOK /\ FrontOK
  BY DEF IInv
<1>2. PICK f : f = call[c].fields
  OBVIOUS
<1>3. PICK user : user = NewUser(f, drawn)
  OBVIOUS
<1>4. /\ call[c] # None /\ call[c].at = "sent" /\ call[c].to = "identity" /\ f.route = "createUser"
      /\ UNCHANGED <<durable, identityUp, sessions, stops, authDisabled, docs>>
  BY <1>2 DEF CreateUser, At, Elsewhere, intake
<1>5. PICK code \in Code, done \in BOOLEAN :
        /\ Return(c, code, done)
        /\ code \in Refusing => ~done
        /\ code = "AlreadyExists" => Conflict(users, user.email)
        /\ code = "OK" => user \in users'
        /\ \/ UNCHANGED <<users, accounts, drawn>>
           \/ /\ ~Conflict(users, user.email) /\ drawn' = drawn + 1
              /\ users' = users \cup {user} /\ accounts' = accounts \cup {user}
  <2>1. \/ Return(c, "InvalidArgument", FALSE) /\ StoreNothing
        \/ PostgresCreateUser(c, user)
        \/ MemoryCreateUser(c, user)
    BY <1>2, <1>3 DEF CreateUser
  <2>2. /\ "InvalidArgument" \in Code /\ "AlreadyExists" \in Code
        /\ "OK" \in Code /\ "Internal" \in Code /\ "OK" \notin Refusing /\ "Internal" \notin Refusing
    BY DEF Code, Refusing
  <2>3. CASE Return(c, "InvalidArgument", FALSE) /\ StoreNothing
    BY <2>2, <2>3 DEF StoreNothing
  <2>4. CASE MemoryCreateUser(c, user)
    BY <2>2, <2>4 DEF MemoryCreateUser, Store, StoreNothing
  <2>5. CASE PostgresCreateUser(c, user)
    BY <2>2, <2>4, <2>5 DEF PostgresCreateUser, Store, StoreNothing
  <2> QED BY <2>1, <2>3, <2>4, <2>5
<1>6. PICK k \in Call : k = call[c] /\ CallOK(k) /\ pc[c] # "idle"
  BY <1>1, <1>4, AtFacts
<1>7. /\ user \in User /\ user.email = f.email /\ user.org = Trim(f.org)
      /\ user.roles = RolesOrMember(f.roles)
  <2>1. f \in Fields /\ f.email \in Email
    BY <1>2, <1>4, <1>6 DEF Call, CallOK
  <2>2. f.org \in Org \cup {Blanks, None} /\ f.roles \in SUBSET Role
    BY <2>1 DEF Fields
  <2>3. drawn \in Nat
    BY <1>1 DEF IdentityOK
  <2> QED BY <1>3, <2>1, <2>2, <2>3, NewUserFacts
<1>8. /\ users \subseteq users' /\ accounts \subseteq accounts' /\ users' \subseteq accounts'
      /\ users' \subseteq User /\ accounts' \subseteq User /\ drawn' \in Nat
      /\ durable => accounts' = users'
  BY <1>1, <1>5, <1>7 DEF IdentityOK
<1>9. Unique(users)'
  BY <1>1, <1>5 DEF IdentityOK, Unique, Conflict
<1>10. IdentityOK'
  BY <1>1, <1>4, <1>8, <1>9 DEF IdentityOK
<1>11. Grows
  BY <1>4, <1>8 DEF Grows
<1>12. LimiterOK' /\ FrontOK' /\ UNCHANGED pc
  BY <1>11, ElsewhereKept
<1>13. PICK e : e = Ended(k, code, done)
  OBVIOUS
<1>14. call' = [call EXCEPT ![c] = e]
  BY <1>5, <1>6, <1>13 DEF Return
<1>15. code = "OK" => Holds(e)'
  <2>1. /\ e.fields.route = "createUser" /\ e.fields.email = f.email
        /\ e.fields.org = f.org /\ e.fields.roles = f.roles
    BY <1>2, <1>4, <1>6, <1>13, EndedFacts
  <2>2. code = "OK" => user \in OnRecord'
    BY <1>5, <1>8 DEF OnRecord
  <2> QED BY <1>7, <2>1, <2>2 DEF Holds
<1>16. code = "AlreadyExists" => \E u \in accounts' : u.email = k.fields.email
  BY <1>1, <1>2, <1>5, <1>6, <1>7, <1>8 DEF Conflict, IdentityOK
<1>17. k.claims # None => k.fields.route = "login"
  BY <1>4, <1>6 DEF CallOK
<1>18. CallsOK'
  BY <1>1, <1>5, <1>6, <1>11, <1>12, <1>13, <1>14, <1>15, <1>16, <1>17, EndsWell
<1> QED BY <1>10, <1>12, <1>18 DEF IInv

\* Login keeps the invariant: the token it signs names a stored account.
LEMMA LoginStep ==
  ASSUME IInv, Elsewhere, NEW c \in Caller, Login(c, now)
  PROVE  IInv'
<1>1. LimiterOK /\ IdentityOK /\ CallsOK /\ FrontOK
  BY DEF IInv
<1>2. /\ call[c] # None /\ call[c].at = "sent" /\ call[c].to = "identity"
      /\ call[c].fields.route = "login"
      /\ UNCHANGED <<durable, identityUp, users, drawn, sessions, accounts, stops, authDisabled, docs>>
  BY DEF Login, At, Elsewhere, identity, intake
<1>3. Grows
  BY <1>2 DEF Grows
<1>4. IdentityOK'
  BY <1>1, <1>2 DEF IdentityOK, Unique
<1>5. LimiterOK' /\ FrontOK' /\ UNCHANGED pc
  BY <1>3, ElsewhereKept
<1>6. CASE Return(c, "Unauthenticated", FALSE)
  <2>1. "Unauthenticated" \in Code
    BY DEF Code
  <2>2. CallsOK'
    BY <1>1, <1>2, <1>3, <1>5, <1>6, <2>1, ReturnFacts
  <2> QED BY <1>4, <1>5, <2>2 DEF IInv
<1>7. ASSUME NEW u \in UserByEmail(call[c].fields.email),
             call' = [call EXCEPT ![c].at = "save", ![c].claims = SignHS256(u, now)]
      PROVE  IInv'
  <2>1. u \in users /\ u \in User /\ u \in OnRecord /\ now \in Nat
    <3>1. now \in 0 .. MaxTime /\ MaxTime \in Nat
      BY <1>1, LimiterNumbers DEF LimiterOK, LimiterTypeOK
    <3> QED BY <1>1, <3>1 DEF UserByEmail, IdentityOK, OnRecord
  <2>2. PICK t \in Claims : t = SignHS256(u, now) /\ Names(t, OnRecord)
    BY <2>1, SignFacts DEF Names
  <2>3. PICK j \in Call : j = call[c] /\ CallOK(j) /\ pc[c] # "idle"
    BY <1>1, <1>2, AtFacts
  <2>4. PICK k : k = [[j EXCEPT !.at = "save"] EXCEPT !.claims = t]
    OBVIOUS
  <2>5. /\ k \in Call /\ k.at = "save" /\ k.claims = t /\ k.to = "identity"
        /\ k.fields = j.fields
    BY <1>2, <2>3, <2>4 DEF Call
  <2>6. call' = [call EXCEPT ![c] = k]
    BY <1>1, <1>7, <2>2, <2>3, <2>4 DEF CallsOK
  <2>7. CallOK(k)
    BY <1>2, <2>2, <2>3, <2>5 DEF CallOK
  <2>8. k \in Call /\ CallOK(k)'
    BY <1>3, <2>5, <2>7, CallKept
  <2>9. /\ pc' \in [Caller -> {"idle", "waiting", "gone"}] /\ pc'[c] # "idle"
        /\ \A b \in Caller \ {c} : pc'[b] = pc[b]
    BY <1>1, <1>5, <2>3 DEF CallsOK
  <2>10. CallsOK'
    BY <1>1, <1>3, <2>6, <2>8, <2>9, CallMoves
  <2> QED BY <1>4, <1>5, <2>10 DEF IInv
<1> QED BY <1>6, <1>7 DEF Login

\* SaveRefreshToken keeps the invariant: a login that is answered has its
\* session saved.
LEMMA SaveRefreshTokenStep ==
  ASSUME IInv, Elsewhere, NEW c \in Caller, SaveRefreshToken(c)
  PROVE  IInv'
<1>1. LimiterOK /\ IdentityOK /\ CallsOK /\ FrontOK
  BY DEF IInv
<1>2. /\ call[c] # None /\ call[c].at = "save" /\ call[c].to = "identity"
      /\ UNCHANGED <<durable, identityUp, users, drawn, accounts, stops, authDisabled, docs>>
  BY DEF SaveRefreshToken, At, Elsewhere, intake
<1>3. PICK k \in Call : k = call[c] /\ CallOK(k) /\ pc[c] # "idle"
  BY <1>1, <1>2, AtFacts
<1>4. PICK t \in Claims : t = k.claims /\ Names(t, OnRecord) /\ k.fields.route = "login"
  BY <1>2, <1>3 DEF CallOK
<1>5. PICK code \in Code, done \in BOOLEAN :
        /\ Return(c, code, done)
        /\ code = "OK" => sessions' = sessions \cup {t}
        /\ code \notin Refusing
        /\ sessions' = sessions \cup {t} \/ sessions' = sessions
  <2>1. /\ "OK" \in Code /\ "Internal" \in Code /\ "OK" \notin Refusing /\ "Internal" \notin Refusing
    BY DEF Code, Refusing
  <2>2. CASE MemorySaveRefreshToken(c)
    BY <1>3, <1>4, <2>1, <2>2 DEF MemorySaveRefreshToken
  <2>3. CASE PostgresSaveRefreshToken(c)
    BY <1>3, <1>4, <2>1, <2>2, <2>3 DEF PostgresSaveRefreshToken
  <2> QED BY <2>2, <2>3 DEF SaveRefreshToken
<1>6. sessions \subseteq sessions' /\ sessions' \subseteq Claims
  BY <1>1, <1>5 DEF IdentityOK
<1>7. Grows
  BY <1>2, <1>6 DEF Grows
<1>8. IdentityOK'
  BY <1>1, <1>2, <1>6 DEF IdentityOK, Unique
<1>9. LimiterOK' /\ FrontOK' /\ UNCHANGED pc
  BY <1>7, ElsewhereKept
<1>10. PICK e : e = Ended(k, code, done)
  OBVIOUS
<1>11. call' = [call EXCEPT ![c] = e]
  BY <1>3, <1>5, <1>10 DEF Return
<1>12. code = "OK" => Holds(e)'
  <2>1. Names(t, OnRecord)'
    BY <1>4, <1>7, NamesKept
  <2>2. code = "OK" => Backed(t)'
    BY <1>5, <2>1 DEF Backed
  <2>3. e.fields.route = "login" /\ (code = "OK" => e.claims = t)
    BY <1>4, <1>10, EndedFacts
  <2> QED BY <2>2, <2>3 DEF Holds
<1>13. code # "AlreadyExists"
  BY <1>5 DEF Refusing
<1>14. CallsOK'
  BY <1>1, <1>3, <1>4, <1>5, <1>7, <1>9, <1>10, <1>11, <1>12, <1>13, EndsWell
<1> QED BY <1>8, <1>9, <1>14 DEF IInv

\* StopIdentity keeps the invariant: what it breaks off gives no token.
LEMMA StopIdentityStep ==
  ASSUME IInv, Elsewhere, StopIdentity
  PROVE  IInv'
<1>1. LimiterOK /\ IdentityOK /\ CallsOK /\ FrontOK
  BY DEF IInv
<1>2. /\ identityUp /\ stops < MaxStops /\ identityUp' = FALSE /\ stops' = stops + 1
      /\ UNCHANGED <<durable, users, drawn, sessions, accounts, authDisabled, docs>>
  BY DEF StopIdentity, Elsewhere, intake
<1>3. Grows
  BY <1>2 DEF Grows
<1>4. IdentityOK'
  <2>1. stops \in 0 .. MaxStops /\ MaxStops \in Nat
    BY <1>1, IdentityAssumption DEF IdentityOK
  <2>2. stops' \in 0 .. MaxStops
    BY <1>2, <2>1
  <2> QED BY <1>1, <1>2, <2>2 DEF IdentityOK, Unique
<1>5. LimiterOK' /\ FrontOK' /\ UNCHANGED pc
  BY <1>3, ElsewhereKept
<1>6. ASSUME NEW b \in Caller
      PROVE  /\ call'[b] \in Call \cup Response \cup {None}
             /\ IF pc'[b] = "idle" THEN call'[b] = None
                ELSE \/ call'[b] \in Call /\ CallOK(call[b])'
                     \/ call'[b] \in Response /\ ResponseOK(call[b])'
  <2>1. PICK j : j = call[b]
    OBVIOUS
  <2>2. /\ CallOK(j) => CallOK(j)'
        /\ ResponseOK(j) => ResponseOK(j)'
    BY <1>3, CallKept
  <2>3. IF pc[b] = "idle" THEN j = None
        ELSE (j \in Call /\ CallOK(j)) \/ (j \in Response /\ ResponseOK(j))
    BY <1>1, <2>1 DEF CallsOK
  <2>4. CASE At(b, "identity", "sent") \/ At(b, "identity", "save")
    <3>1. j \in Call /\ CallOK(j) /\ pc[b] # "idle"
      BY <1>1, <2>1, <2>4, AtFacts DEF At
    <3>2. PICK k : k = Ended(j, "Unavailable", FALSE)
      OBVIOUS
    <3>3. "Unavailable" \in Code /\ "Unavailable" \notin Refusing
      BY DEF Code, Refusing
    <3>4. /\ k \in Response /\ k.code = "Unavailable"
          /\ k.claims = None
      <4>1. PICK code \in Code : code = "Unavailable"
        BY <3>3
      <4>2. PICK done \in BOOLEAN : done = FALSE
        OBVIOUS
      <4>3. k = Ended(j, code, done)
        BY <3>2, <4>1, <4>2
      <4>4. k \in Response /\ k.code = code /\ k.claims = IF code = "OK" THEN j.claims ELSE None
        BY <3>1, <4>3, EndedFacts
      <4> QED BY <4>1, <4>4
    <3>5. ResponseOK(k)'
      BY <3>3, <3>4 DEF ResponseOK
    <3>6. call'[b] = k
      BY <2>1, <2>4, <3>2 DEF StopIdentity
    <3> QED BY <1>5, <3>1, <3>4, <3>5, <3>6
  <2>5. CASE ~(At(b, "identity", "sent") \/ At(b, "identity", "save"))
    <3>1. call'[b] = j
      BY <2>1, <2>5 DEF StopIdentity
    <3> QED BY <1>5, <2>2, <2>3, <3>1
  <2> QED BY <2>4, <2>5
<1>7. call' \in [Caller -> Call \cup Response \cup {None}]
  <2>1. call' = [b \in Caller |-> call'[b]]
    BY DEF StopIdentity
  <2> QED BY <1>6, <2>1
<1>8. CallsOK'
  BY <1>1, <1>5, <1>6, <1>7 DEF CallsOK
<1> QED BY <1>4, <1>5, <1>8 DEF IInv

\* StartIdentity keeps the invariant: it seeds again only where the address
\* is free.
LEMMA StartIdentityStep ==
  ASSUME IInv, Elsewhere, StartIdentity
  PROVE  IInv'
<1>1. LimiterOK /\ IdentityOK /\ CallsOK /\ FrontOK
  BY DEF IInv
<1>2. PICK before : before = IF durable THEN users ELSE {}
  OBVIOUS
<1>3. PICK kept : kept = Seeded(before, drawn)
  OBVIOUS
<1>4. /\ identityUp' = TRUE /\ users' = kept /\ accounts' = accounts \cup kept
      /\ drawn' = drawn \/ drawn' = drawn + 1
      /\ sessions' = IF durable THEN sessions ELSE {}
      /\ UNCHANGED <<durable, stops, call, authDisabled, docs>>
  BY <1>2, <1>3 DEF StartIdentity, Elsewhere, intake
<1>5. drawn \in Nat /\ drawn' \in Nat
  BY <1>1, <1>4 DEF IdentityOK
<1>6. before \in SUBSET User /\ Unique(before)
  BY <1>1, <1>2 DEF IdentityOK, Unique
<1>7. kept \in SUBSET User /\ before \subseteq kept /\ Unique(kept)
  BY <1>3, <1>5, <1>6, SeededFacts
<1>8. Grows
  BY <1>2, <1>4, <1>7 DEF Grows
<1>9. durable => accounts' = users'
  BY <1>1, <1>2, <1>4, <1>7 DEF IdentityOK
<1>10. IdentityOK'
  BY <1>1, <1>4, <1>5, <1>7, <1>9 DEF IdentityOK, Unique
<1>11. LimiterOK' /\ FrontOK' /\ UNCHANGED pc
  BY <1>8, ElsewhereKept
<1>12. CallsOK'
  BY <1>1, <1>4, <1>8, <1>11, CallsKept
<1> QED BY <1>10, <1>11, <1>12 DEF IInv

-----------------------------------------------------------------------------
(* The gateway *)

\* A step that leaves the Identity service alone keeps it.
LEMMA IdentityKept ==
  ASSUME IdentityOK, UNCHANGED <<identity, authDisabled>>,
         \A d \in Doc : docs[d] # None => docs'[d] = docs[d]
  PROVE  IdentityOK' /\ Grows
<1>1. UNCHANGED <<durable, identityUp, drawn, users, sessions, accounts, stops, authDisabled>>
  BY DEF identity
<1> QED BY <1>1 DEF IdentityOK, Unique, Grows

\* Clock, Throttle, Refuse and StartGateway keep the invariant: they change
\* nothing but the limiter, the clock and whether the gateway serves.
LEMMA LimiterStep ==
  ASSUME IInv, LimiterOK', UNCHANGED <<identity, call, authDisabled, pc, held, intake>>,
         gatewayUp' \in BOOLEAN
  PROVE  IInv'
<1>1. IdentityOK' /\ Grows
  BY IdentityKept DEF IInv, intake
<1>2. UNCHANGED <<pc, call, held, docs, served>>
  BY DEF intake
<1>3. CallsOK'
  BY <1>1, <1>2, CallsKept DEF IInv
<1>4. FrontOK'
  BY <1>1, <1>2, FrontKept DEF IInv
<1> QED BY <1>1, <1>3, <1>4 DEF IInv

\* Serve keeps the invariant: the handler's call is right.
LEMMA ServeStep ==
  ASSUME IInv, NEW c \in Caller, NEW a \in Addr, Serve(c, a)
  PROVE  IInv'
<1>1. LimiterOK /\ IdentityOK /\ CallsOK /\ FrontOK
  BY DEF IInv
<1>2. /\ Admit(a) /\ pc' = [pc EXCEPT ![c] = "waiting"]
      /\ UNCHANGED <<now, identity, authDisabled, gatewayUp, held, docs, served>>
  BY DEF Serve, intake
<1>3. LimiterOK'
  BY <1>1, <1>2, AllowKeeps
<1>4. IdentityOK' /\ Grows
  BY <1>1, <1>2, IdentityKept
<1>5. FrontOK'
  BY <1>1, <1>2, <1>4, FrontKept DEF FrontOK
<1>6. PICK f \in Requests : /\ Authenticated(f) /\ HandlerOf(f) # None
                            /\ call' = [call EXCEPT ![c] = HandlerOf(f)]
  BY DEF Serve
<1>7. PICK k \in Call : k = HandlerOf(f) /\ CallOK(k)
  BY <1>1, <1>6, HandlerFacts
<1>8. CallOK(k)'
  BY <1>4, <1>7, CallKept
<1>9. /\ pc' \in [Caller -> {"idle", "waiting", "gone"}] /\ pc'[c] = "waiting"
      /\ \A b \in Caller \ {c} : pc'[b] = pc[b]
  BY <1>1, <1>2 DEF CallsOK
<1>10. call' = [call EXCEPT ![c] = k]
  BY <1>6, <1>7
<1>11. CallsOK'
  BY <1>1, <1>4, <1>8, <1>9, <1>10, CallMoves
<1> QED BY <1>3, <1>4, <1>5, <1>11 DEF IInv

\* Reply and Finish keep the invariant: the token that a login hands out is
\* backed.
LEMMA ReplyStep ==
  ASSUME IInv, NEW c \in Caller, Reply(c) \/ Finish(c)
  PROVE  IInv'
<1>1. LimiterOK /\ IdentityOK /\ CallsOK /\ FrontOK
  BY DEF IInv
<1>2. /\ pc[c] # "idle" /\ call[c].at = "over"
      /\ pc' = [pc EXCEPT ![c] = "idle"] /\ call' = [call EXCEPT ![c] = None]
      /\ UNCHANGED <<now, limiter, identity, authDisabled, gatewayUp, docs, served>>
      /\ held' = held \/ held' = held \cup ({call[c].claims} \ {None})
  BY DEF Reply, Finish, intake
<1>3. LimiterOK'
  BY <1>1, <1>2, LimiterKept
<1>4. IdentityOK' /\ Grows
  BY <1>1, <1>2, IdentityKept
<1>5. /\ pc' \in [Caller -> {"idle", "waiting", "gone"}] /\ pc'[c] = "idle"
      /\ \A b \in Caller \ {c} : pc'[b] = pc[b]
  BY <1>1, <1>2 DEF CallsOK
<1>6. CallsOK'
  BY <1>1, <1>2, <1>4, <1>5, CallMoves
<1>7. call[c] \in Response /\ ResponseOK(call[c])
  <2>1. call[c] \notin Call
    BY <1>2 DEF Call
  <2> QED BY <1>1, <1>2, <2>1 DEF CallsOK
<1>8. ASSUME NEW t \in held' PROVE t \in Claims /\ Backed(t)'
  <2>1. CASE t \in held
    <3>1. Backed(t)
      BY <1>1, <2>1 DEF FrontOK, TokensAreBacked
    <3> QED BY <1>1, <1>4, <2>1, <3>1, NamesKept DEF FrontOK
  <2>2. CASE t = call[c].claims /\ t # None
    <3>1. t \in Claims /\ Backed(t)
      BY <1>7, <2>2 DEF ResponseOK, Response
    <3> QED BY <1>4, <3>1, NamesKept
  <2> QED BY <1>2, <1>8, <2>1, <2>2
<1>9. TokensAreBacked' /\ held' \subseteq Claims
  BY <1>8 DEF TokensAreBacked
<1>10. FrontOK'
  BY <1>1, <1>2, <1>4, <1>9 DEF FrontOK, ServedForOwner, Grows
<1> QED BY <1>3, <1>4, <1>6, <1>10 DEF IInv

\* GiveUp keeps the invariant: the call goes on.
LEMMA GiveUpStep ==
  ASSUME IInv, NEW c \in Caller, GiveUp(c)
  PROVE  IInv'
<1>1. LimiterOK /\ IdentityOK /\ CallsOK /\ FrontOK
  BY DEF IInv
<1>2. /\ pc[c] = "waiting" /\ pc' = [pc EXCEPT ![c] = "gone"]
      /\ UNCHANGED <<now, limiter, identity, call, authDisabled, gatewayUp, held, docs, served>>
  BY DEF GiveUp, intake
<1>3. LimiterOK'
  BY <1>1, <1>2, LimiterKept
<1>4. IdentityOK' /\ Grows
  BY <1>1, <1>2, IdentityKept
<1>5. FrontOK'
  BY <1>1, <1>2, <1>4, FrontKept DEF FrontOK
<1>6. /\ pc' \in [Caller -> {"idle", "waiting", "gone"}] /\ pc'[c] = "gone"
      /\ \A b \in Caller \ {c} : pc'[b] = pc[b]
  BY <1>1, <1>2 DEF CallsOK
<1>7. PICK k : k = call[c]
  OBVIOUS
<1>8. (k \in Call /\ CallOK(k)) \/ (k \in Response /\ ResponseOK(k))
  BY <1>1, <1>2, <1>7 DEF CallsOK
<1>9. (k \in Call /\ CallOK(k)') \/ (k \in Response /\ ResponseOK(k)')
  BY <1>4, <1>8, CallKept
<1>10. call' = [call EXCEPT ![c] = k]
  BY <1>1, <1>2, <1>7 DEF CallsOK
<1>11. CallsOK'
  BY <1>1, <1>4, <1>6, <1>9, <1>10, CallMoves
<1> QED BY <1>3, <1>4, <1>5, <1>11 DEF IInv

\* StopGateway keeps the invariant: the calls of its requests go on.
LEMMA StopGatewayStep ==
  ASSUME IInv, StopGateway
  PROVE  IInv'
<1>1. LimiterOK /\ IdentityOK /\ CallsOK /\ FrontOK
  BY DEF IInv
<1>2. /\ gatewayUp' = FALSE /\ stops < MaxStops /\ stops' = stops + 1
      /\ pc' = [c \in Caller |-> IF pc[c] = "waiting" THEN "gone" ELSE pc[c]]
      /\ UNCHANGED <<now, limiter, durable, identityUp, users, drawn, sessions, accounts,
                     call, authDisabled, held, docs, served>>
  BY DEF StopGateway, intake
<1>3. LimiterOK'
  BY <1>1, <1>2, LimiterKept
<1>4. Grows
  BY <1>2 DEF Grows
<1>5. IdentityOK'
  <2>1. stops \in 0 .. MaxStops /\ MaxStops \in Nat
    BY <1>1, IdentityAssumption DEF IdentityOK
  <2>2. stops' \in 0 .. MaxStops
    BY <1>2, <2>1
  <2> QED BY <1>1, <1>2, <2>2 DEF IdentityOK, Unique
<1>6. FrontOK'
  BY <1>1, <1>2, <1>4, FrontKept
<1>7. pc' \in [Caller -> {"idle", "waiting", "gone"}]
  BY <1>1, <1>2 DEF CallsOK
<1>8. ASSUME NEW b \in Caller
      PROVE  IF pc'[b] = "idle" THEN call'[b] = None
             ELSE \/ call'[b] \in Call /\ CallOK(call[b])'
                  \/ call'[b] \in Response /\ ResponseOK(call[b])'
  <2>1. PICK j : j = call[b]
    OBVIOUS
  <2>2. /\ CallOK(j) => CallOK(j)'
        /\ ResponseOK(j) => ResponseOK(j)'
    BY <1>4, CallKept
  <2>3. IF pc[b] = "idle" THEN j = None
        ELSE (j \in Call /\ CallOK(j)) \/ (j \in Response /\ ResponseOK(j))
    BY <1>1, <2>1 DEF CallsOK
  <2>4. call'[b] = j /\ (pc'[b] = "idle" <=> pc[b] = "idle")
    BY <1>2, <2>1
  <2> QED BY <2>2, <2>3, <2>4
<1>9. CallsOK'
  BY <1>1, <1>2, <1>7, <1>8 DEF CallsOK
<1> QED BY <1>3, <1>5, <1>6, <1>9 DEF IInv

-----------------------------------------------------------------------------
(* Document Intake and Verification *)

\* What the services behind the gateway leave alone.
Behind == UNCHANGED <<now, limiter, identity, authDisabled, gatewayUp, pc, held>>

\* A call that returns without an effect keeps the invariant.
LEMMA NothingDone ==
  ASSUME IInv, Behind, UNCHANGED intake, NEW c \in Caller, call[c] # None, call[c].at = "sent",
         NEW code \in Code, code \notin {"OK", "AlreadyExists"}, Return(c, code, FALSE)
  PROVE  IInv'
<1>1. LimiterOK /\ IdentityOK /\ CallsOK /\ FrontOK
  BY DEF IInv
<1>2. UNCHANGED <<now, limiter, identity, authDisabled, gatewayUp, pc, held, docs, served>>
  BY DEF Behind, intake
<1>3. IdentityOK' /\ Grows
  BY <1>1, <1>2, IdentityKept
<1>4. LimiterOK' /\ FrontOK'
  BY <1>1, <1>2, <1>3, LimiterKept, FrontKept DEF FrontOK
<1>5. CallsOK'
  BY <1>1, <1>2, <1>3, ReturnFacts
<1> QED BY <1>3, <1>4, <1>5 DEF IInv

\* Who may have a document acted on: Require passes only what the token says.
LEMMA Authorized ==
  ASSUME IInv, NEW c \in Caller, At(c, "documents", "sent"),
         Require(call[c].md, call[c].fields.org), NEW d \in Doc,
         NEW s, s = [doc |-> d, org |-> Trim(call[c].fields.org), by |-> ClaimsOf(call[c].fields)]
  PROVE  /\ s \in [doc: Doc, org: Org, by: Claims \cup {None}]
         /\ \/ authDisabled
            \/ /\ s.by # None /\ s.by.org = s.org
               /\ \E u \in accounts : u.id = s.by.sub /\ u.org = s.org
                                      /\ (UNION u.roles) \cap Granting # {}
<1>1. IdentityOK /\ CallsOK /\ FrontOK
  BY DEF IInv
<1>2. PICK k \in Call : k = call[c] /\ CallOK(k) /\ k.to = "documents"
  BY <1>1, AtFacts DEF At
<1>3. PICK f : f = k.fields
  OBVIOUS
<1>4. /\ f \in Fields /\ f.org \in Org \cup {Blanks, None} /\ f.bearer \in Claims \cup {None}
      /\ k.md \in Metadata /\ f.route # "login"
  BY <1>2, <1>3 DEF Call, Fields, CallOK
<1>5. /\ s = [doc |-> d, org |-> Trim(f.org), by |-> ClaimsOf(f)]
      /\ s.doc = d /\ s.org = Trim(f.org) /\ s.by = ClaimsOf(f)
  BY <1>2, <1>3
<1>6. /\ Trim(k.md.org) # None /\ Trim(k.md.org) = Trim(f.org) /\ k.md.roles \cap Granting # {}
  BY <1>2, <1>3 DEF Require
<1>7. Trim(f.org) \in Org
  BY <1>4, <1>6 DEF Trim
<1>8. ClaimsOf(f) \in Claims \cup {None}
  BY <1>4 DEF ClaimsOf
<1>9. s \in [doc: Doc, org: Org, by: Claims \cup {None}]
  BY <1>5, <1>7, <1>8
<1>10. ASSUME ~authDisabled
       PROVE  /\ s.by # None /\ s.by.org = s.org
              /\ \E u \in accounts : u.id = s.by.sub /\ u.org = s.org
                                     /\ (UNION u.roles) \cap Granting # {}
  <2>1. PICK b \in Claims : b = f.bearer
    BY <1>2, <1>3, <1>10 DEF CallOK
  <2>2. /\ b # None /\ k.md = [org |-> b.org, roles |-> UNION b.roles] /\ Names(b, accounts)
    BY <1>2, <1>3, <1>10, <2>1 DEF CallOK
  <2>3. k.md.org = b.org /\ k.md.roles = UNION b.roles
    BY <2>2
  <2>4. s.by = b
    BY <1>4, <1>5, <1>10, <2>1 DEF ClaimsOf, RequiresAuth
  <2>5. b.org \in Org \cup {None}
    BY DEF Claims
  <2>6. Trim(b.org) = b.org
    BY <2>5, IdentityAssumption DEF Trim
  <2>7. s.org = b.org
    BY <1>5, <1>6, <2>3, <2>6
  <2>8. PICK u \in accounts : u.id = b.sub /\ u.org = b.org /\ u.roles = b.roles
    BY <2>2 DEF Names
  <2>9. (UNION u.roles) \cap Granting # {}
    BY <1>6, <2>3, <2>8
  <2> QED BY <2>2, <2>4, <2>7, <2>8, <2>9
<1> QED BY <1>9, <1>10

\* A call that acts on document d for its organization keeps the invariant;
\* its answer names that document.
LEMMA Acting ==
  ASSUME IInv, Behind, NEW c \in Caller, At(c, "documents", "sent"),
         Require(call[c].md, call[c].fields.org), NEW d \in Doc, Touch(c, d),
         NEW k \in Call, k.claims = None, k.fields.route = call[c].fields.route,
         k.fields.org = call[c].fields.org, k.fields.doc = d,
         NEW code \in {"OK", "Internal"}, NEW done \in BOOLEAN,
         call' = [call EXCEPT ![c] = Ended(k, code, done)],
         docs' \in [Doc -> Org \cup {None}], docs'[d] = Trim(call[c].fields.org),
         \A x \in Doc : docs[x] # None => docs'[x] = docs[x]
  PROVE  IInv'
<1>1. LimiterOK /\ IdentityOK /\ CallsOK /\ FrontOK
  BY DEF IInv
<1>2. UNCHANGED <<now, limiter, identity, authDisabled, gatewayUp, pc, held>>
  BY DEF Behind
<1>3. IdentityOK' /\ Grows /\ UNCHANGED accounts
  BY <1>1, <1>2, IdentityKept DEF identity
<1>4. LimiterOK'
  BY <1>1, <1>2, LimiterKept
<1>5. code \in Code /\ code \notin Refusing /\ code # "AlreadyExists"
  BY DEF Code, Refusing
<1>6. PICK s : s = [doc |-> d, org |-> Trim(call[c].fields.org), by |-> ClaimsOf(call[c].fields)]
  OBVIOUS
<1>7. /\ s \in [doc: Doc, org: Org, by: Claims \cup {None}]
      /\ \/ authDisabled
         \/ /\ s.by # None /\ s.by.org = s.org
            /\ \E u \in accounts : u.id = s.by.sub /\ u.org = s.org
                                   /\ (UNION u.roles) \cap Granting # {}
  BY <1>6, Authorized
<1>8. served' = served \cup {s} /\ docs'[s.doc] = s.org /\ s.org = Trim(call[c].fields.org)
  BY <1>6 DEF Touch
<1>9. CallsOK'
  <2>1. PICK e : e = Ended(k, code, done)
    OBVIOUS
  <2>2. pc[c] # "idle" /\ call[c] \in Call /\ CallOK(call[c]) /\ call[c].to = "documents"
    BY <1>1, AtFacts DEF At
  <2>3. e.fields.route = k.fields.route /\ e.fields.doc = d /\ e.fields.org = k.fields.org
    BY <1>5, <2>1, EndedFacts
  <2>4. e.fields.route \notin {"login", "createUser"}
    BY <2>2, <2>3 DEF CallOK
  <2>5. Trim(e.fields.org) # None
    BY <1>7, <1>8, <2>3, IdentityAssumption
  <2>6. Holds(e)'
    BY <2>3, <2>4, <2>5 DEF Holds
  <2>7. call' = [call EXCEPT ![c] = e]
    BY <2>1
  <2>8. e \in Response /\ e.code = code /\ e.claims = None
    BY <1>5, <2>1, EndedFacts
  <2>9. ResponseOK(e)'
    BY <1>5, <2>6, <2>8 DEF ResponseOK
  <2> QED BY <1>1, <1>2, <1>3, <2>2, <2>7, <2>8, <2>9, EndsRight
<1>10. ASSUME NEW x \in served PROVE docs'[x.doc] = x.org
  <2>1. docs[x.doc] = x.org /\ x.doc \in Doc /\ x.org \in Org
    BY <1>1 DEF FrontOK, ServedForOwner
  <2>2. x.org # None
    BY <2>1, IdentityAssumption
  <2> QED BY <2>1, <2>2
<1>11. ServedForOwner'
  BY <1>1, <1>2, <1>3, <1>7, <1>8, <1>10 DEF FrontOK, ServedForOwner
<1>12. TokensAreBacked'
  <2>1. ASSUME NEW t \in held' PROVE Backed(t)'
    BY <1>1, <1>2, <1>3, NamesKept DEF FrontOK, TokensAreBacked
  <2> QED BY <2>1 DEF TokensAreBacked
<1>13. FrontOK'
  BY <1>1, <1>2, <1>7, <1>8, <1>11, <1>12 DEF FrontOK
<1> QED BY <1>3, <1>4, <1>9, <1>13 DEF IInv

\* UploadDocument, GetDocument and GetDocumentStatus keep the invariant.
LEMMA ActsStep ==
  ASSUME IInv, NEW c \in Caller, NEW routes, "createDocument" \notin routes, IntakeActs(c, routes),
         NEW code \in {"OK", "Internal"}, NEW done \in BOOLEAN, Return(c, code, done)
  PROVE  IInv'
<1>1. /\ At(c, "documents", "sent") /\ Behind /\ call[c] # None /\ call[c].at = "sent"
      /\ Require(call[c].md, call[c].fields.org) /\ call[c].fields.route # "createDocument"
      /\ docs[call[c].fields.doc] = Trim(call[c].fields.org)
      /\ Touch(c, call[c].fields.doc) /\ docs' = docs
  BY DEF IntakeActs, Intake, Behind, At
<1>2. PICK k \in Call : k = call[c] /\ CallOK(k) /\ k.to = "documents"
  BY <1>1, AtFacts DEF IInv, At
<1>3. PICK d \in Doc : d = k.fields.doc
  BY <1>1, <1>2 DEF CallOK
<1>4. docs' \in [Doc -> Org \cup {None}]
  BY <1>1 DEF IInv, FrontOK
<1>5. k.claims = None
  BY <1>1, <1>2 DEF CallOK
<1>6. call' = [call EXCEPT ![c] = Ended(k, code, done)]
  BY <1>2 DEF Return
<1>7. /\ Touch(c, d) /\ docs'[d] = Trim(call[c].fields.org)
      /\ \A x \in Doc : docs[x] # None => docs'[x] = docs[x]
  BY <1>1, <1>2, <1>3
<1>8. k.fields.route = call[c].fields.route /\ k.fields.org = call[c].fields.org
  BY <1>2
<1> QED BY <1>1, <1>3, <1>4, <1>5, <1>6, <1>7, <1>8, Acting

\* CreateDocument keeps the invariant.
LEMMA CreatesStep ==
  ASSUME IInv, NEW c \in Caller, NEW d \in Doc, IntakeCreates(c, d)
  PROVE  IInv'
<1>1. /\ At(c, "documents", "sent") /\ Behind /\ call[c] # None /\ call[c].at = "sent"
      /\ Require(call[c].md, call[c].fields.org) /\ Touch(c, d) /\ docs[d] = None
      /\ docs' = [docs EXCEPT ![d] = Trim(call[c].fields.org)]
  BY DEF IntakeCreates, Intake, Behind, At
<1>2. PICK j \in Call : j = call[c] /\ CallOK(j)
  BY <1>1, AtFacts DEF IInv
<1>3. PICK k : k = Naming(j, d)
  OBVIOUS
<1>4. PICK g : g = [j.fields EXCEPT !.doc = d]
  OBVIOUS
<1>5. j.fields \in Fields /\ g \in Fields /\ g.route = j.fields.route /\ g.org = j.fields.org /\ g.doc = d
  BY <1>4 DEF Call, Fields
<1>6. k = [j EXCEPT !.fields = g]
  BY <1>3, <1>4 DEF Naming
<1>7. k \in Call /\ k.fields = g /\ k.claims = j.claims
  BY <1>5, <1>6 DEF Call
<1>8. k.claims = None
  BY <1>1, <1>2, <1>7 DEF CallOK
<1>9. PICK code \in {"OK", "Internal"} : call' = [call EXCEPT ![c] = Ended(k, code, TRUE)]
  BY <1>2, <1>3 DEF IntakeCreates
<1>10. Trim(call[c].fields.org) \in Org
  <2>1. PICK s : s = [doc |-> d, org |-> Trim(call[c].fields.org), by |-> ClaimsOf(call[c].fields)]
    OBVIOUS
  <2>2. s \in [doc: Doc, org: Org, by: Claims \cup {None}]
    BY <1>1, <2>1, Authorized
  <2>3. s.org \in Org /\ s.org = Trim(call[c].fields.org)
    BY <2>1, <2>2
  <2> QED BY <2>3
<1>11. docs \in [Doc -> Org \cup {None}]
  BY DEF IInv, FrontOK
<1>12. /\ docs' \in [Doc -> Org \cup {None}] /\ docs'[d] = Trim(call[c].fields.org)
       /\ \A x \in Doc : docs[x] # None => docs'[x] = docs[x]
  BY <1>1, <1>10, <1>11
<1>13. /\ k.fields.route = call[c].fields.route /\ k.fields.org = call[c].fields.org
       /\ k.fields.doc = d
  BY <1>2, <1>5, <1>7
<1> QED BY <1>1, <1>7, <1>8, <1>9, <1>12, <1>13, Acting

\* Every other handler of Document Intake keeps the invariant.
LEMMA IntakeStep ==
  ASSUME IInv, NEW c \in Caller,
         \/ IntakeRefuses(c) \/ IntakeFails(c) \/ IntakeFindsNothing(c)
         \/ IntakeUploads(c) \/ IntakeReads(c)
  PROVE  IInv'
<1>1. /\ "PermissionDenied" \in Code /\ "NotFound" \in Code /\ "InvalidArgument" \in Code
      /\ "ResourceExhausted" \in Code /\ "Internal" \in Code
  BY DEF Code
<1>2. CASE IntakeRefuses(c) \/ IntakeFails(c) \/ IntakeFindsNothing(c)
  <2>1. Behind /\ UNCHANGED intake /\ call[c] # None /\ call[c].at = "sent"
    BY <1>2 DEF IntakeRefuses, IntakeFails, IntakeFindsNothing, Intake, Behind, At
  <2>2. PICK code \in {"PermissionDenied", "NotFound", "InvalidArgument", "ResourceExhausted",
                       "Internal"} : Return(c, code, FALSE)
    BY <1>2 DEF IntakeRefuses, IntakeFails, IntakeFindsNothing
  <2> QED BY <1>1, <2>1, <2>2, NothingDone
<1>3. CASE IntakeUploads(c)
  <2>1. PICK code \in {"OK", "Internal"}, done \in BOOLEAN : Return(c, code, done)
    BY <1>3 DEF IntakeUploads
  <2>2. IntakeActs(c, {"uploadDocument"})
    BY <1>3 DEF IntakeUploads
  <2> QED BY <2>1, <2>2, ActsStep
<1>4. CASE IntakeReads(c)
  <2>1. Return(c, "OK", FALSE) /\ IntakeActs(c, {"getDocument", "getDocumentStatus"})
    BY <1>4 DEF IntakeReads
  <2> QED BY <2>1, ActsStep
<1> QED BY <1>2, <1>3, <1>4

-----------------------------------------------------------------------------
(* The theorems *)

\* The invariant holds when the system starts.
LEMMA Initially == Init => IInv
<1> SUFFICES ASSUME Init PROVE IInv
  OBVIOUS
<1>1. LimiterOK
  <2>1. 0 \in 0 .. MaxTime
    BY LimiterNumbers
  <2> QED BY <2>1, NoBucketsOK DEF Init, LimiterInit
<1>2. 0 \in 0 .. MaxStops
  BY IdentityAssumption
<1>3. PICK requests \in Earlier :
        /\ users = Seeded({NewUser(requests[i], i) : i \in DOMAIN requests}, 0)
        /\ drawn = Len(requests) + 1
  BY DEF Init, IdentityInit
<1>4. PICK known : known = {NewUser(requests[i], i) : i \in DOMAIN requests}
  OBVIOUS
<1>5. PICK R : R = [email: Email, org: Org \cup {Blanks}, roles: RoleLists]
  OBVIOUS
<1>6. requests \in Seq(R)
  BY <1>5, IdentityAssumption
<1>7. drawn \in Nat
  BY <1>3, <1>6
<1>8. ASSUME NEW i \in DOMAIN requests
      PROVE  NewUser(requests[i], i) \in User /\ NewUser(requests[i], i).email = requests[i].email
  <2>1. PICK f : f = requests[i]
    OBVIOUS
  <2>2. f \in R /\ i \in Nat
    BY <1>6, <2>1
  <2>3. f.email \in Email /\ f.org \in Org \cup {Blanks, None} /\ f.roles \in RoleLists
    BY <1>5, <2>2
  <2>4. f.roles \in SUBSET Role
    BY <2>3, IdentityAssumption DEF Role
  <2> QED BY <2>1, <2>2, <2>3, <2>4, NewUserFacts
<1>9. known \in SUBSET User
  BY <1>4, <1>8
<1>10. Unique(known)
  <2>1. ASSUME NEW u \in known, NEW v \in known, u.email = v.email PROVE u = v
    <3>1. PICK i \in DOMAIN requests : u = NewUser(requests[i], i)
      BY <1>4
    <3>2. PICK j \in DOMAIN requests : v = NewUser(requests[j], j)
      BY <1>4
    <3>3. requests[i].email = requests[j].email
      BY <1>8, <2>1, <3>1, <3>2
    <3>4. i = j
      BY <3>3, IdentityAssumption
    <3> QED BY <3>1, <3>2, <3>4
  <2> QED BY <2>1 DEF Unique
<1>11. users \in SUBSET User /\ Unique(users)
  BY <1>3, <1>4, <1>9, <1>10, SeededFacts
<1>12. /\ durable \in BOOLEAN /\ identityUp = TRUE /\ stops = 0 /\ accounts = users
      /\ sessions = {SignHS256(u, 0) : u \in users} /\ call = [c \in Caller |-> None]
      /\ held = sessions /\ served = {} /\ pc = [c \in Caller |-> "idle"]
      /\ authDisabled \in BOOLEAN /\ gatewayUp = TRUE /\ docs = [d \in Doc |-> None]
  BY DEF Init, IdentityInit
<1>13. ASSUME NEW t \in sessions PROVE t \in Claims /\ Backed(t)
  <2>1. PICK u \in users : t = SignHS256(u, 0)
    BY <1>12
  <2>2. u \in User /\ 0 \in Nat
    BY <1>11
  <2>3. t \in Claims /\ t.sub = u.id /\ t.org = u.org /\ t.roles = u.roles
    BY <2>1, <2>2, SignFacts
  <2> QED BY <1>12, <2>3 DEF Backed, Names, OnRecord
<1>14. IdentityOK
  BY <1>2, <1>7, <1>11, <1>12, <1>13 DEF IdentityOK
<1>15. CallsOK
  BY <1>12 DEF CallsOK
<1>16. TokensAreBacked
  BY <1>12, <1>13 DEF TokensAreBacked
<1>17. FrontOK
  BY <1>12, <1>13, <1>16 DEF FrontOK, ServedForOwner
<1> QED BY <1>1, <1>14, <1>15, <1>17 DEF IInv

\* Every step keeps the invariant.
LEMMA Inductive == IInv /\ [Next]_vars => IInv'
<1> SUFFICES ASSUME IInv, [Next]_vars PROVE IInv'
  OBVIOUS
<1>1. LimiterOK /\ gatewayUp \in BOOLEAN
  BY DEF IInv, FrontOK
<1>2. CASE Clock
  <2>1. LimiterOK'
    BY <1>1, <1>2, TickKeeps DEF Clock
  <2> QED BY <1>1, <1>2, <2>1, LimiterStep DEF Clock
<1>3. CASE StopGateway
  BY <1>3, StopGatewayStep
<1>4. CASE StartGateway
  <2>1. LimiterOK'
    BY <1>1, <1>4, ResetKeeps DEF StartGateway
  <2>2. UNCHANGED <<identity, call, authDisabled, pc, held, intake>> /\ gatewayUp' \in BOOLEAN
    BY <1>4 DEF StartGateway
  <2> QED BY <2>1, <2>2, LimiterStep
<1>5. CASE IdentityStep
  <2>1. Elsewhere
    BY <1>5 DEF IdentityStep, Elsewhere
  <2> QED BY <1>5, <2>1, CreateUserStep, LoginStep, SaveRefreshTokenStep, StopIdentityStep,
             StartIdentityStep DEF IdentityStep
<1>6. ASSUME NEW a \in Addr, Throttle(a) \/ Refuse(a) PROVE IInv'
  <2>1. /\ Admit(a) \/ Deny(a)
        /\ UNCHANGED <<now, identity, call, authDisabled, gatewayUp, pc, held, intake>>
    BY <1>6 DEF Throttle, Refuse
  <2>2. LimiterOK'
    BY <1>1, <2>1, AllowKeeps
  <2> QED BY <1>1, <2>1, <2>2, LimiterStep
<1>7. ASSUME NEW c \in Caller, NEW a \in Addr, Serve(c, a) PROVE IInv'
  BY <1>7, ServeStep
<1>8. ASSUME NEW c \in Caller, Reply(c) \/ GiveUp(c) \/ Finish(c) PROVE IInv'
  BY <1>8, ReplyStep, GiveUpStep
<1>9. ASSUME NEW c \in Caller,
             \/ IntakeRefuses(c) \/ IntakeFails(c) \/ IntakeFindsNothing(c)
             \/ IntakeUploads(c) \/ IntakeReads(c)
             \/ \E d \in Doc : IntakeCreates(c, d)
      PROVE  IInv'
  BY <1>9, IntakeStep, CreatesStep
<1>10. ASSUME NEW c \in Caller, Unimplemented(c) \/ Unreachable(c) PROVE IInv'
  <2>1. "Unimplemented" \in Code /\ "Unavailable" \in Code
    BY DEF Code
  <2>2. /\ call[c] # None /\ call[c].at = "sent" /\ Behind /\ UNCHANGED intake
        /\ Return(c, "Unimplemented", FALSE) \/ Return(c, "Unavailable", FALSE)
    BY <1>10 DEF Unimplemented, Unreachable, At, Behind
  <2> QED BY <2>1, <2>2, NothingDone
<1>11. CASE UNCHANGED vars
  <2>1. /\ UNCHANGED <<now, limiter, gatewayUp>>
        /\ UNCHANGED <<identity, call, authDisabled, pc, held, intake>>
    BY <1>11 DEF vars
  <2>2. LimiterOK'
    BY <1>1, <2>1, LimiterKept
  <2> QED BY <1>1, <2>1, <2>2, LimiterStep
<1> QED BY <1>2, <1>3, <1>4, <1>5, <1>6, <1>7, <1>8, <1>9, <1>10, <1>11 DEF Next

\* The inductive invariant holds throughout.
LEMMA Invariance == Spec => []IInv
BY Initially, Inductive, PTL DEF Spec

\* Every variable keeps its type: in particular every call that a handler makes
\* is one its service understands, and no bucket is overdrawn or overfull.
THEOREM TypeCorrect == Spec => []TypeOK
<1>1. IInv => TypeOK
  BY DEF IInv, TypeOK, LimiterOK, IdentityOK, IdentityTypeOK, CallsOK, FrontOK
<1> QED BY <1>1, Invariance, PTL

\* The rate of an address also holds in the gateway as a whole (Limiter.Allow).
THEOREM RateHolds == Spec => []AddressRateBound
<1>1. IInv => AddressRateBound
  BY LimiterRate DEF IInv
<1> QED BY <1>1, Invariance, PTL

\* The account stored for an e-mail address is the only one it leads to,
\* whatever creations race, are repeated with a new id, or follow a restart
\* that seeds again (CreateUser of both stores, SeedDevelopmentUser).
THEOREM AccountsUnique == Spec => []OneAccountPerEmail
<1>1. IInv => OneAccountPerEmail
  BY DEF IInv, IdentityOK, Unique, OneAccountPerEmail, UserByEmail
<1> QED BY <1>1, Invariance, PTL

\* A token in a client's hands names an account on record with a saved session
\* (Login, SaveRefreshToken).
THEOREM TokensBacked == Spec => []TokensAreBacked
<1>1. IInv => TokensAreBacked
  BY DEF IInv, FrontOK
<1> QED BY <1>1, Invariance, PTL

\* Document Intake acts on a document only for its own organization and, with
\* authentication on, for a token of that organization with a granting role
\* (organizationID, withIdentityMetadata, Require).
THEOREM OwnersServed == Spec => []ServedForOwner
<1>1. IInv => ServedForOwner
  BY DEF IInv, FrontOK
<1> QED BY <1>1, Invariance, PTL

\* What a status says to a client that waits is so when it is told: for a
\* success, what was asked for is on record; for a refusal, the request has
\* done nothing; for a conflict, the address has an account
\* (writeUpstreamError and the services' handlers).
THEOREM AnswersTrue == Spec => []AnswersAreTrue
<1>1. IInv => AnswersAreTrue
  <2> SUFFICES ASSUME IInv, NEW c \in Caller, pc[c] = "waiting"
               PROVE  /\ Answers(c) \cap Success # {} => call[c].at = "over" /\ Holds(call[c])
                      /\ Answers(c) \cap Refusal # {} => call[c].at = "over" /\ ~call[c].done
                      /\ 409 \in Answers(c) => \E u \in accounts : u.email = call[c].fields.email
    BY DEF AnswersAreTrue
  <2> DEFINE Own == IF call[c].at # "over" THEN {}
                    ELSE {IF call[c].code = "OK" THEN SuccessOf(call[c].fields.route)
                                                 ELSE StatusOf(call[c].code)}
  <2>1. ASSUME NEW code \in BrokenOff PROVE StatusOf(code) \notin Success \cup Refusal
    <3>1. code \in {"context.Canceled", "context.DeadlineExceeded", "Canceled",
                    "DeadlineExceeded", "Unavailable"}
      BY DEF BrokenOff
    <3>2. StatusOf(code) \in {408, 502, 503, 504}
      BY <3>1 DEF StatusOf
    <3> QED BY <3>2 DEF Success, Refusal
  <2>2. ASSUME NEW s \in Answers(c), s \in Success \cup Refusal PROVE s \in Own
    BY <2>1, <2>2 DEF Answers, Own
  <2> HIDE DEF Own
  <2>3. 409 \in Refusal
    BY DEF Refusal
  <2>4. CASE call[c].at # "over"
    <3>1. Own = {}
      BY <2>4 DEF Own
    <3> QED BY <2>2, <2>3, <3>1
  <2>5. CASE call[c].at = "over" /\ call[c].code = "OK"
    <3>1. Own = {SuccessOf(call[c].fields.route)}
      BY <2>5 DEF Own
    <3>2. SuccessOf(call[c].fields.route) \in {200, 201, 202}
      BY DEF SuccessOf
    <3>3. call[c] \in Response /\ ResponseOK(call[c])
      BY <2>5 DEF IInv, CallsOK, Call
    <3>4. Holds(call[c])
      BY <2>5, <3>3 DEF ResponseOK
    <3>5. ASSUME NEW s \in Answers(c) PROVE s \notin Refusal
      BY <2>2, <3>1, <3>2 DEF Refusal
    <3> QED BY <2>5, <2>3, <3>4, <3>5
  <2>6. CASE call[c].at = "over" /\ call[c].code # "OK"
    <3>1. Own = {StatusOf(call[c].code)}
      BY <2>6 DEF Own
    <3>2. call[c] \in Response /\ ResponseOK(call[c])
      BY <2>6 DEF IInv, CallsOK, Call
    <3>3. call[c].code \in Code
      BY <3>2 DEF Response
    <3>4. call[c].code \notin Refusing => StatusOf(call[c].code) \in {502, 503}
      BY <2>6, <3>3 DEF Code, Refusing, StatusOf
    <3>5. StatusOf(call[c].code) \notin Success
      <4>1. StatusOf(call[c].code) \in {400, 401, 403, 404, 409, 502, 503}
        BY <2>6, <3>3 DEF Code, StatusOf
      <4> QED BY <4>1 DEF Success
    <3>6. ASSUME NEW s \in Answers(c), s \in Refusal PROVE ~call[c].done
      <4>1. s = StatusOf(call[c].code)
        BY <2>2, <3>1, <3>6
      <4>2. call[c].code \in Refusing
        BY <3>4, <3>6, <4>1 DEF Refusal
      <4> QED BY <3>2, <4>2 DEF ResponseOK
    <3>7. ASSUME NEW s \in Answers(c), s \in Success PROVE FALSE
      BY <2>2, <3>1, <3>5, <3>7
    <3>8. ASSUME 409 \in Answers(c) PROVE \E u \in accounts : u.email = call[c].fields.email
      <4>1. StatusOf(call[c].code) = 409
        BY <2>2, <2>3, <3>1, <3>8
      <4>2. call[c].code = "AlreadyExists"
        BY <2>6, <3>3, <4>1 DEF Code, StatusOf
      <4> QED BY <3>2, <4>2 DEF ResponseOK
    <3> QED BY <2>6, <3>6, <3>7, <3>8
  <2> QED BY <2>4, <2>5, <2>6
<1> QED BY <1>1, Invariance, PTL
=============================================================================
