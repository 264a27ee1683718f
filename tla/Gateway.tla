------------------------------ MODULE Gateway ------------------------------
(***************************************************************************)
(* The API gateway in front of Identity, Document Intake and Verification: *)
(* rate limit, bearer token, the handler of each route, the remote call it *)
(* makes, and the HTTP status the client gets.  It composes the limiter    *)
(* (RateLimiter), Identity's handlers (Identity) and, of Document Intake,  *)
(* the authorization every handler begins with.                            *)
(*                                                                         *)
(* A caller has one request at a time.  A request that gives up waiting    *)
(* leaves its call running: the service may act on it later.               *)
(***************************************************************************)
EXTENDS RateLimiter, Identity

CONSTANTS
  Uses,      \* bound: the routes that each caller uses
  AskedOrgs  \* bound: the organizations that new accounts are asked for

ASSUME UsesAssumption ==
  Uses \in [Caller -> SUBSET Route] /\ AskedOrgs \subseteq Org \cup {Blanks, None}

VARIABLES
  authDisabled,  \* GATEWAY_AUTH_DISABLED
  gatewayUp,     \* the process is serving
  pc,            \* where each request is
  held,          \* tokens that clients were given
  docs,          \* documents of Document Intake and their organizations
  served         \* history: documents acted on, for which organization and token

intake == <<docs, served>>
vars == <<now, limiter, identity, call, authDisabled, gatewayUp, pc, held, intake>>

NoFields == [route |-> "login", bearer |-> None, org |-> None, doc |-> None,
             email |-> None, roles |-> {}]

TypeOK ==
  /\ LimiterTypeOK
  /\ IdentityTypeOK
  /\ authDisabled \in BOOLEAN /\ gatewayUp \in BOOLEAN
  /\ pc \in [Caller -> {"idle", "waiting", "gone"}]
  /\ held \subseteq Claims
  /\ docs \in [Doc -> Org \cup {None}]
  /\ served \subseteq [doc: Doc, org: Org, by: Claims \cup {None}]

Init ==
  /\ LimiterInit
  /\ IdentityInit
  /\ authDisabled \in BOOLEAN
  /\ gatewayUp = TRUE
  /\ pc = [c \in Caller |-> "idle"]
  /\ held = sessions
  /\ docs = [d \in Doc |-> None]
  /\ served = {}

-----------------------------------------------------------------------------
(* What clients send: a bearer token they were given or none (or none that  *)
(* parses), any document, any organization.                                 *)

Logins == [route: {"login"}, bearer: {None}, org: {None}, doc: {None},
           email: Email \cup {None}, roles: {{}}]
Creations == [route: {"createUser"}, bearer: held \cup {None},
              org: AskedOrgs, doc: {None}, email: Email, roles: RoleLists]
Others == [route: Route \ {"login", "createUser"}, bearer: held \cup {None},
           org: Org \cup {None}, doc: Doc, email: {None}, roles: {{}}]
Requests == Logins \cup Creations \cup Others

-----------------------------------------------------------------------------
(* Authentication *)

RequiresAuth(f) == f.route # "login"

\* Verify: the signature, and the token has not expired.
Verify(bearer) == bearer # None /\ (bearer.exp > 0 => now < bearer.exp)

\* VerifyBearer of the middleware, unless it is switched off.
Authenticated(f) == authDisabled \/ ~RequiresAuth(f) \/ Verify(f.bearer)

\* The claims in the context of a request that passed the middleware.
ClaimsOf(f) == IF authDisabled \/ ~RequiresAuth(f) THEN None ELSE f.bearer

\* organizationID
OrganizationID(claims, fallback) ==
  IF claims # None /\ claims.org # None THEN claims.org ELSE fallback

\* withIdentityMetadata: the roles are joined by commas.
IdentityMetadata(claims, org) ==
  IF claims # None THEN [org |-> claims.org, roles |-> UNION claims.roles]
                   ELSE [org |-> org, roles |-> {"org_admin"}]

NoMetadata == [org |-> None, roles |-> {}]

CallTo(service, f, md) ==
  [at |-> "sent", to |-> service, fields |-> f, md |-> md, claims |-> None]

-----------------------------------------------------------------------------
(* Handlers: the call each makes, or None for a bad request *)

login(f) == IF f.email = None THEN None ELSE CallTo("identity", f, NoMetadata)

createUser(f) ==
  IF f.org = None THEN None ELSE CallTo("identity", [f EXCEPT !.bearer = None], NoMetadata)

\* A call to Document Intake for the organization that the token names.
DocumentsCall(f) ==
  LET org == OrganizationID(ClaimsOf(f), f.org)
  IN IF org = None THEN None
     ELSE CallTo("documents", [f EXCEPT !.org = org], IdentityMetadata(ClaimsOf(f), org))

createDocument(f) == DocumentsCall([f EXCEPT !.doc = None])
uploadDocument(f) == DocumentsCall(f)
getDocument(f) == DocumentsCall(f)
getDocumentStatus(f) == DocumentsCall(f)

\* A call to Verification, which gets no metadata; the stub reads no field.
VerificationCall(f) ==
  LET org == OrganizationID(ClaimsOf(f), f.org)
  IN IF org = None THEN None
     ELSE CallTo("verification", [NoFields EXCEPT !.route = f.route], NoMetadata)

startVerification(f) == VerificationCall(f)
getVerification(f) == VerificationCall(f)

HandlerOf(f) ==
  CASE f.route = "login" -> login(f)
    [] f.route = "createUser" -> createUser(f)
    [] f.route = "createDocument" -> createDocument(f)
    [] f.route = "uploadDocument" -> uploadDocument(f)
    [] f.route = "getDocument" -> getDocument(f)
    [] f.route = "getDocumentStatus" -> getDocumentStatus(f)
    [] f.route = "startVerification" -> startVerification(f)
    [] f.route = "getVerification" -> getVerification(f)

\* Internal errors reported as conflicts.
StatusHidingErrors(code) ==
  CASE code = "InvalidArgument" -> 400 [] code = "Unauthenticated" -> 401
    [] code = "PermissionDenied" -> 403 [] code = "NotFound" -> 404
    [] code \in {"AlreadyExists", "Internal"} -> 409 [] OTHER -> 502

\* writeUpstreamError, for the two errors of the context and the codes of
\* the remote call.
StatusOf(code) ==
  CASE code = "context.Canceled" -> 408
    [] code \in {"context.DeadlineExceeded", "DeadlineExceeded"} -> 504
    [] code = "InvalidArgument" -> 400
    [] code = "Unauthenticated" -> 401
    [] code = "PermissionDenied" -> 403
    [] code = "NotFound" -> 404
    [] code \in {"AlreadyExists", "FailedPrecondition"} -> 409
    [] code = "Unavailable" -> 503
    [] OTHER -> 502

\* What a client that stops waiting, or a connection that breaks, ends with.
BrokenOff == {"context.Canceled", "context.DeadlineExceeded", "Canceled",
              "DeadlineExceeded", "Unavailable"}

SuccessOf(route) ==
  CASE route \in {"createUser", "createDocument"} -> 201
    [] route \in {"uploadDocument", "startVerification"} -> 202
    [] OTHER -> 200

-----------------------------------------------------------------------------
(* The gateway's steps *)

\* The statuses with which the request of c may be answered now: that of its
\* call, if it is over, and at any time those of a call that is broken off.
Answers(c) ==
  {StatusOf(code) : code \in BrokenOff} \cup
  (IF call[c].at # "over" THEN {}
   ELSE {IF call[c].code = "OK" THEN SuccessOf(call[c].fields.route) ELSE StatusOf(call[c].code)})

\* A request gets 429.
Throttle(a) ==
  /\ gatewayUp /\ Deny(a)
  /\ UNCHANGED <<now, identity, call, authDisabled, gatewayUp, pc, held, intake>>

\* A request passes the limiter, but its bearer token is not accepted (401),
\* or its handler does not accept the request (400).
Refuse(a) ==
  /\ gatewayUp /\ Admit(a)
  /\ ~\A f \in Requests : Authenticated(f) /\ HandlerOf(f) # None
  /\ UNCHANGED <<now, identity, call, authDisabled, gatewayUp, pc, held, intake>>

\* A request passes the limiter and authentication, and its handler makes its
\* call: only the limiter's bucket is shared with other requests.
Serve(c, a) ==
  /\ gatewayUp /\ pc[c] = "idle" /\ Admit(a)
  /\ \E f \in Requests :
       /\ f.route \in Uses[c] /\ Authenticated(f) /\ HandlerOf(f) # None
       /\ call' = [call EXCEPT ![c] = HandlerOf(f)]
  /\ pc' = [pc EXCEPT ![c] = "waiting"]
  /\ UNCHANGED <<now, identity, authDisabled, gatewayUp, held, intake>>

\* The call has returned, and its result is passed on: after a login, a token.
Reply(c) ==
  /\ pc[c] = "waiting" /\ call[c].at = "over"
  /\ held' = held \cup ({call[c].claims} \ {None})
  /\ pc' = [pc EXCEPT ![c] = "idle"]
  /\ call' = [call EXCEPT ![c] = None]
  /\ UNCHANGED <<now, limiter, identity, authDisabled, gatewayUp, intake>>

\* The request is answered without the result, whatever the service does or
\* has done: the time is over, the client is gone, the connection is broken.
GiveUp(c) ==
  /\ pc[c] = "waiting"
  /\ pc' = [pc EXCEPT ![c] = "gone"]
  /\ UNCHANGED <<now, limiter, identity, call, authDisabled, gatewayUp, held, intake>>

\* The call that nobody waits for any more is over.
Finish(c) ==
  /\ pc[c] = "gone" /\ call[c].at = "over"
  /\ pc' = [pc EXCEPT ![c] = "idle"]
  /\ call' = [call EXCEPT ![c] = None]
  /\ UNCHANGED <<now, limiter, identity, authDisabled, gatewayUp, held, intake>>

\* The process ends, by a signal or a crash, and its requests with it.
StopGateway ==
  /\ gatewayUp /\ stops < MaxStops
  /\ gatewayUp' = FALSE
  /\ stops' = stops + 1
  /\ pc' = [c \in Caller |-> IF pc[c] = "waiting" THEN "gone" ELSE pc[c]]
  /\ UNCHANGED <<now, limiter, durable, identityUp, users, drawn, sessions, accounts,
                 call, authDisabled, held, intake>>

\* main: Dial waits for every service; the limiter is a new one.
StartGateway ==
  /\ ~gatewayUp /\ identityUp
  /\ gatewayUp' = TRUE
  /\ LimiterReset
  /\ UNCHANGED <<now, identity, call, authDisabled, pc, held, intake>>

-----------------------------------------------------------------------------
(* Document Intake and Verification, as far as the gateway can tell *)

\* The roles that grants accepts, the same for every permission.
Granting == {"platform_admin", "org_admin", "reviewer", "analyst", "user", "member"}

\* Require with the roles only.
RequireRole(md, org) == Trim(org) # None /\ md.roles \cap Granting # {}

\* authz.Require
Require(md, org) ==
  /\ Trim(md.org) # None /\ Trim(md.org) = Trim(org)
  /\ md.roles \cap Granting # {}

Intake(c) == At(c, "documents", "sent") /\ UNCHANGED <<now, limiter, identity, authDisabled,
                                                       gatewayUp, pc, held>>

Touch(c, d) ==
  served' = served \cup {[doc |-> d, org |-> Trim(call[c].fields.org), by |-> ClaimsOf(call[c].fields)]}

\* A call, with the id of the document that was created for it.
Naming(k, d) == [k EXCEPT !.fields = [k.fields EXCEPT !.doc = d]]

\* The interceptor and Require.
IntakeRefuses(c) ==
  /\ Intake(c) /\ ~Require(call[c].md, call[c].fields.org)
  /\ Return(c, "PermissionDenied", FALSE)
  /\ UNCHANGED intake

\* CreateDocument; its answer names the new document.
IntakeCreates(c, d) ==
  /\ Intake(c) /\ Require(call[c].md, call[c].fields.org)
  /\ call[c].fields.route = "createDocument" /\ docs[d] = None
  /\ docs' = [docs EXCEPT ![d] = Trim(call[c].fields.org)]
  /\ Touch(c, d)
  /\ \E code \in {"OK", "Internal"} :
       call' = [call EXCEPT ![c] = Ended(Naming(call[c], d), code, TRUE)]

\* UploadDocument, GetDocument and GetDocumentStatus do not find the document,
\* or find that it is another organization's.
IntakeFindsNothing(c) ==
  /\ Intake(c) /\ Require(call[c].md, call[c].fields.org)
  /\ call[c].fields.route # "createDocument"
  /\ docs[call[c].fields.doc] # Trim(call[c].fields.org)
  /\ Return(c, "NotFound", FALSE)
  /\ UNCHANGED intake

\* A call of one of these routes acts on the document it names, which is the
\* caller's organization's.
IntakeActs(c, routes) ==
  /\ Intake(c) /\ Require(call[c].md, call[c].fields.org)
  /\ call[c].fields.route \in routes
  /\ docs[call[c].fields.doc] = Trim(call[c].fields.org)
  /\ Touch(c, call[c].fields.doc)
  /\ UNCHANGED docs

\* UploadDocument: also when it knows the key, at first or not before its
\* transaction, it answers OK, but then this upload is not recorded.
IntakeUploads(c) ==
  /\ IntakeActs(c, {"uploadDocument"})
  /\ Return(c, "OK", TRUE) \/ Return(c, "OK", FALSE) \/ Return(c, "Internal", TRUE)

\* GetDocument, GetDocumentStatus.
IntakeReads(c) ==
  /\ IntakeActs(c, {"getDocument", "getDocumentStatus"})
  /\ Return(c, "OK", FALSE)

\* A refusal, by the validation or for an upload by the pool, or an error
\* before anything is changed.
IntakeFails(c) ==
  /\ Intake(c) /\ Require(call[c].md, call[c].fields.org)
  /\ \E code \in {"InvalidArgument", "ResourceExhausted", "Internal"} :
       /\ code = "ResourceExhausted" => call[c].fields.route = "uploadDocument"
       /\ Return(c, code, FALSE)
  /\ UNCHANGED intake

\* The Verification stub.
Unimplemented(c) ==
  /\ At(c, "verification", "sent")
  /\ Return(c, "Unimplemented", FALSE)
  /\ UNCHANGED <<now, limiter, identity, authDisabled, gatewayUp, pc, held, intake>>

\* A call that never reaches its service.
Unreachable(c) ==
  /\ call[c] # None /\ call[c].at = "sent"
  /\ Return(c, "Unavailable", FALSE)
  /\ UNCHANGED <<now, limiter, identity, authDisabled, gatewayUp, pc, held, intake>>

-----------------------------------------------------------------------------

Clock ==
  /\ now < MaxTime
  /\ now' = now + 1
  /\ UNCHANGED <<limiter, identity, call, authDisabled, gatewayUp, pc, held, intake>>

IdentityStep ==
  /\ \/ \E c \in Caller : CreateUser(c) \/ Login(c, now) \/ SaveRefreshToken(c)
     \/ StopIdentity
     \/ StartIdentity
  /\ UNCHANGED <<now, limiter, authDisabled, gatewayUp, pc, held, intake>>

Next ==
  \/ Clock
  \/ StopGateway \/ StartGateway
  \/ IdentityStep
  \/ \E a \in Addr : Throttle(a) \/ Refuse(a)
  \/ \E c \in Caller :
       \/ \E a \in Addr : Serve(c, a)
       \/ Reply(c) \/ GiveUp(c) \/ Finish(c)
       \/ IntakeRefuses(c) \/ IntakeFails(c) \/ IntakeFindsNothing(c)
       \/ IntakeUploads(c) \/ IntakeReads(c)
       \/ \E d \in Doc : IntakeCreates(c, d)
       \/ Unimplemented(c) \/ Unreachable(c)

Spec == Init /\ [][Next]_vars

-----------------------------------------------------------------------------
(* Properties *)

\* Accounts that tokens may name: those in PostgreSQL; or all that the memory
\* store has had, because the tokens of accounts that a restart has lost are
\* still in use.
OnRecord == IF durable THEN users ELSE accounts

Names(t, U) == \E u \in U : u.id = t.sub /\ u.org = t.org /\ u.roles = t.roles

Backed(t) == Names(t, OnRecord) /\ (durable => t \in sessions)

\* A token in a client's hands names an account as it is on record, whose
\* session has been saved: after any restart when the store is PostgreSQL, at
\* the time of its login otherwise.  (Login, SaveRefreshToken, main.)
TokensAreBacked == \A t \in held : Backed(t)

\* Document Intake acts on a document only for the organization it belongs to
\* and, unless authentication is switched off, only for a token of an account
\* of that organization, with a role that is allowed to: whatever organization
\* the request names, and also for accounts whose organization is empty.
\* (organizationID, withIdentityMetadata, Require, GetDocument.)
ServedForOwner ==
  \A s \in served :
    /\ docs[s.doc] = s.org
    /\ \/ authDisabled
       \/ /\ s.by # None /\ s.by.org = s.org
          /\ \E u \in accounts : u.id = s.by.sub /\ u.org = s.org
                                 /\ (UNION u.roles) \cap Granting # {}

Success == {200, 201, 202}
Refusal == {400, 401, 403, 404, 409, 429}

\* What has to be so when a call is answered with OK: the session of a login
\* is saved, the account that was asked for is on record, the document that
\* was created or is named belongs to the caller's organization.  (An upload's
\* OK does not say that this upload was recorded.)
Holds(k) ==
  LET f == k.fields
  IN CASE f.route = "login" -> Backed(k.claims)
       [] f.route = "createUser" ->
            \E u \in OnRecord : u.email = f.email /\ u.org = Trim(f.org)
                                /\ u.roles = RolesOrMember(f.roles)
       [] OTHER -> f.doc \in Doc /\ Trim(f.org) # None /\ docs[f.doc] = Trim(f.org)

\* What a client is told is so when it is told, whatever other requests,
\* restarts and lost answers came in between: a success, as above; a refusal,
\* that this request has changed nothing and never will; and a conflict, that
\* the address has an account.  Only 408, 502, 503 and 504 leave it open what
\* has happened.  (writeUpstreamError and the services' handlers.)
AnswersAreTrue ==
  \A c \in Caller : pc[c] = "waiting" =>
    /\ Answers(c) \cap Success # {} => call[c].at = "over" /\ Holds(call[c])
    /\ Answers(c) \cap Refusal # {} => call[c].at = "over" /\ ~call[c].done
    /\ 409 \in Answers(c) => \E u \in accounts : u.email = call[c].fields.email
=============================================================================
