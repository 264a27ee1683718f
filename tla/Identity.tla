------------------------------ MODULE Identity ------------------------------
(***************************************************************************)
(* The Identity service: accounts, logins and the tokens it signs, on      *)
(* PostgreSQL or on the in-memory store, with seeding, stops and restarts. *)
(*                                                                         *)
(* call[c] is the remote call that caller c has under way, to whichever    *)
(* service; the handlers of this module work on those sent to Identity.    *)
(* E-mail addresses are normalized ones.  A role is the set of the words   *)
(* between its commas.  newID's random user ids are numbers that never     *)
(* repeat: every account that is stored gets the next one, and the id of   *)
(* a creation that stores nothing is never seen.                           *)
(***************************************************************************)
EXTENDS Integers, Sequences

CONSTANTS
  Caller,     \* whoever may have a call under way
  Org,        \* organization ids
  Email,      \* e-mail addresses
  SeedEmail,  \* DevelopmentEmail
  SeedOrg,    \* DevelopmentOrgID
  DevelopmentSeed,  \* IDENTITY_DEV_SEED
  Word,       \* words of which roles are made
  RoleLists,  \* the lists of roles that are asked for
  Earlier,    \* what may have been created earlier: sequences of requests
  Doc,        \* document ids
  AccessTTL,  \* AccessTokenTTL, in ticks
  MaxStops,   \* bound: how often processes may stop
  Blanks,     \* an organization id that is not empty but all blanks
  None        \* the empty string; no value

ASSUME IdentityAssumption ==
  /\ SeedEmail \in Email /\ SeedOrg \in Org
  /\ {"admin", "member", "org_admin"} \subseteq Word
  /\ \A l \in RoleLists : \A role \in l : role \subseteq Word /\ role # {}
  /\ Earlier \subseteq Seq([email: Email, org: Org \cup {Blanks}, roles: RoleLists])
  /\ \A requests \in Earlier : \A i, j \in DOMAIN requests :
       requests[i].email = requests[j].email => i = j
  /\ AccessTTL \in Nat /\ MaxStops \in Nat
  /\ {None, Blanks} \cap (Org \cup Email \cup Doc) = {} /\ None # Blanks
  /\ DevelopmentSeed \in BOOLEAN

Role == (SUBSET Word) \ {{}}
UserId == Nat
User == [id: UserId, org: Org \cup {None}, email: Email, roles: SUBSET Role]
Claims == [sub: UserId, org: Org \cup {None}, roles: SUBSET Role, exp: Nat]

\* What a request or a call carries; the fields a route does not use are None.
Route == {"login", "createUser", "createDocument", "uploadDocument", "getDocument",
          "getDocumentStatus", "startVerification", "getVerification"}
Fields == [route: Route, bearer: Claims \cup {None},
           org: Org \cup {Blanks, None}, doc: Doc \cup {None},
           email: Email \cup {None}, roles: SUBSET Role]

\* A remote call: where it goes, what it carries, the metadata that goes with
\* it and how far it is; once it is over, its status code, what it was about
\* (with the document it names), a login's claims and (history) whether it
\* changed anything.
Service == {"identity", "documents", "verification"}
Code == {"OK", "Unavailable", "Internal", "InvalidArgument", "Unauthenticated",
         "PermissionDenied", "NotFound", "AlreadyExists", "ResourceExhausted", "Unimplemented"}
Metadata == [org: Org \cup {Blanks, None}, roles: SUBSET Word]
Call == [at: {"sent", "save"}, to: Service, fields: Fields, md: Metadata,
         claims: Claims \cup {None}]
Response == [at: {"over"}, fields: Fields, code: Code, claims: Claims \cup {None},
             done: BOOLEAN]

VARIABLES
  durable,     \* DATABASE_URL is set: PostgreSQL, else the in-memory store
  identityUp,  \* the process is serving
  users,       \* table users
  drawn,       \* the id that newID draws next
  sessions,    \* table refresh_tokens, each row as the access token issued with it
  accounts,    \* history: every user ever stored
  stops,       \* how often processes have stopped
  call         \* the call each caller has under way, or None

identity == <<durable, identityUp, users, drawn, sessions, accounts, stops>>

IdentityTypeOK ==
  /\ durable \in BOOLEAN /\ identityUp \in BOOLEAN
  /\ drawn \in Nat
  /\ users \subseteq User /\ accounts \subseteq User
  /\ sessions \subseteq Claims
  /\ stops \in 0 .. MaxStops
  /\ \A c \in Caller : call[c] \in Call \cup Response \cup {None}

\* cleanRoles, and the default of CreateUser.
RolesOrMember(roles) == IF roles = {} THEN {{"member"}} ELSE roles

\* strings.TrimSpace
Trim(org) == IF org = Blanks THEN None ELSE org

NewUser(f, id) ==
  [id |-> id, org |-> Trim(f.org), email |-> f.email,
   roles |-> RolesOrMember(f.roles)]

\* The unique index on email, and the map userIDByEmail.
Conflict(known, email) == \E u \in known : u.email = email

SeedUser(id) ==
  NewUser([email |-> SeedEmail, org |-> SeedOrg, roles |-> {{"admin"}}], id)

\* The access token signed for u.
SignHS256(u, time) ==
  [sub |-> u.id, org |-> u.org, roles |-> u.roles, exp |-> time + AccessTTL]

\* SeedDevelopmentUser creates its account in a store that holds known ...
Seeds(known) == DevelopmentSeed /\ ~Conflict(known, SeedEmail)

\* ... and what the store holds then.
Seeded(known, id) == IF Seeds(known) THEN known \cup {SeedUser(id)} ELSE known

\* config.Load and main: only development may do without a database, so that
\* either store may be in use.  Beside the seeded account there may be some
\* that were created earlier; all have logged in.
IdentityInit ==
  /\ durable \in BOOLEAN
  /\ identityUp = TRUE
  /\ \E requests \in Earlier :
       /\ users = Seeded({NewUser(requests[i], i) : i \in DOMAIN requests}, 0)
       /\ drawn = Len(requests) + 1
  /\ accounts = users
  /\ sessions = {SignHS256(u, 0) : u \in users}
  /\ stops = 0
  /\ call = [c \in Caller |-> None]

-----------------------------------------------------------------------------
(* Handlers *)

At(c, service, step) ==
  call[c] # None /\ call[c].at = step /\ call[c].to = service

\* How a call ends; done tells whether it has changed anything.
Ended(k, code, done) ==
  [at |-> "over", fields |-> [k.fields EXCEPT !.bearer = None], code |-> code, done |-> done,
   claims |-> IF code = "OK" THEN k.claims ELSE None]

Return(c, code, done) == call' = [call EXCEPT ![c] = Ended(@, code, done)]

\* The store does as it is asked, or not.
Store(user) ==
  /\ users' = users \cup {user} /\ accounts' = accounts \cup {user}
  /\ drawn' = drawn + 1

StoreNothing == UNCHANGED <<users, accounts, drawn>>

\* Memory.CreateUser: one critical section.
MemoryCreateUser(c, user) ==
  \/ Conflict(users, user.email) /\ StoreNothing /\ Return(c, "AlreadyExists", FALSE)
  \/ ~Conflict(users, user.email) /\ Store(user) /\ Return(c, "OK", TRUE)

\* INSERT ... ON CONFLICT (email) DO UPDATE, with the id that was just drawn.
PostgresUpsertUser(c, user) ==
  /\ users' = {u \in users : u.email # user.email} \cup {user}
  /\ accounts' = accounts \cup {user}
  /\ drawn' = drawn + 1
  /\ Return(c, "OK", TRUE)

\* Postgres.CreateUser: one transaction.  It may fail before it has begun, and
\* after it has committed, when the answer to the commit is lost.
PostgresCreateUser(c, user) ==
  \/ MemoryCreateUser(c, user)
  \/ StoreNothing /\ Return(c, "Internal", FALSE)
  \/ ~Conflict(users, user.email) /\ Store(user) /\ Return(c, "Internal", TRUE)

CreateUser(c) ==
  LET f == call[c].fields
      user == NewUser(f, drawn)
  IN /\ At(c, "identity", "sent") /\ f.route = "createUser" /\ identityUp
     /\ \/ StoreNothing /\ Return(c, "InvalidArgument", FALSE)  \* no address, a short password
        \/ durable /\ PostgresCreateUser(c, user)
        \/ ~durable /\ MemoryCreateUser(c, user)
     /\ UNCHANGED <<durable, identityUp, sessions, stops>>

\* The accounts that both stores' UserByEmail may return.
UserByEmail(email) == {u \in users : u.email = email}

\* The account is looked up, its password verified and the access token
\* signed; or the account, the password or the database is not right.
Login(c, time) ==
  LET f == call[c].fields
  IN /\ At(c, "identity", "sent") /\ f.route = "login" /\ identityUp
     /\ \/ \E u \in UserByEmail(f.email) :
             call' = [call EXCEPT ![c].at = "save", ![c].claims = SignHS256(u, time)]
        \/ Return(c, "Unauthenticated", FALSE)
     /\ UNCHANGED identity

\* Memory.SaveRefreshToken
MemorySaveRefreshToken(c) ==
  /\ sessions' = sessions \cup {call[c].claims}
  /\ Return(c, "OK", TRUE)

\* Postgres.SaveRefreshToken
PostgresSaveRefreshToken(c) ==
  \/ MemorySaveRefreshToken(c)
  \/ /\ sessions' = sessions \cup {call[c].claims}
     /\ Return(c, "Internal", TRUE)  \* the commit's answer is lost
  \/ /\ UNCHANGED sessions
     /\ Return(c, "Internal", FALSE)

\* The rest of Login: the refresh token is saved, and the login answered.
SaveRefreshToken(c) ==
  /\ At(c, "identity", "save") /\ identityUp
  /\ IF durable THEN PostgresSaveRefreshToken(c) ELSE MemorySaveRefreshToken(c)
  /\ UNCHANGED <<durable, identityUp, users, drawn, accounts, stops>>

\* The process stops; its calls break off.
StopIdentity ==
  /\ identityUp /\ stops < MaxStops
  /\ identityUp' = FALSE
  /\ stops' = stops + 1
  /\ call' = [c \in Caller |->
                IF At(c, "identity", "sent") \/ At(c, "identity", "save")
                THEN Ended(call[c], "Unavailable", FALSE) ELSE call[c]]
  /\ UNCHANGED <<durable, users, drawn, sessions, accounts>>

\* A migration that creates refresh_tokens anew.
StartIdentityDropping ==
  /\ ~identityUp
  /\ identityUp' = TRUE
  /\ users' = Seeded(IF durable THEN users ELSE {}, drawn) /\ accounts' = accounts \cup users'
  /\ drawn' = IF Seeds(IF durable THEN users ELSE {}) THEN drawn + 1 ELSE drawn
  /\ sessions' = {}
  /\ UNCHANGED <<durable, stops, call>>

\* main: connect, migrate (which keeps what is there) or start from nothing,
\* and seed.
StartIdentity ==
  LET kept == IF durable THEN users ELSE {}
  IN /\ ~identityUp
     /\ identityUp' = TRUE
     /\ users' = Seeded(kept, drawn) /\ accounts' = accounts \cup Seeded(kept, drawn)
     /\ drawn' = IF Seeds(kept) THEN drawn + 1 ELSE drawn
     /\ sessions' = IF durable THEN sessions ELSE {}
     /\ UNCHANGED <<durable, stops, call>>

-----------------------------------------------------------------------------

\* The account that was stored for an e-mail address is the one, and the only
\* one, that the address leads to: for good in PostgreSQL, until the process
\* stops in the memory store.  Creations may race, be repeated after a lost
\* answer (each with a new id), and be followed by restarts that seed again.
\* (Memory.CreateUser, Postgres.CreateUser, SeedDevelopmentUser.)
OneAccountPerEmail ==
  \A u \in (IF durable THEN accounts ELSE users) : UserByEmail(u.email) = {u}
=============================================================================
