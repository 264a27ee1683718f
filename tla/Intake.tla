------------------------------- MODULE Intake -------------------------------
(***************************************************************************)
(* The Document Intake service with its production stores: PostgreSQL for  *)
(* metadata and the outbox, Cloudflare R2 for the bytes.                   *)
(*                                                                         *)
(* Every handler runs as a process of its own, split where it talks to the *)
(* database or to object storage: requests of one or several server        *)
(* instances interleave at those points, and each may stop at any of them. *)
(* A request of the model has passed authorization and validation (a       *)
(* refusal there changes nothing).                                         *)
(*                                                                         *)
(* Ids that newID draws are named after the handler that draws them: the   *)
(* request r of UploadDocument or CreateUploadIntent creates upload r, and *)
(* CreateDocument of document d creates the inline upload d.               *)
(***************************************************************************)
EXTENDS Naturals, FiniteSets

CONSTANTS
  Org,         \* organizations (tenants)
  Doc,         \* document ids, and the CreateDocument requests drawing them
  Req,         \* requests to the upload operations
  Key,         \* non-empty idempotency keys
  Size,        \* sizes of contents, in bytes
  Digest,      \* SHA-256 digests of contents
  MinRowSize,  \* least uploads.size_bytes the schema's CHECK allows: 1, which refuses
               \* every intent, or 0, to follow intents all the way
  None         \* no value: no key, no digest, no object, no holder

ASSUME NoneAssumption ==
  None \notin Org \cup Doc \cup Req \cup Key \cup Digest
ASSUME SizeAssumption == Size \subseteq Nat \ {0}
ASSUME IdAssumption == Doc \cap Req = {}
ASSUME MinRowSizeAssumption == MinRowSize \in Nat

Content == [size: Size, sum: Digest]
UploadId == Doc \cup Req

\* A content is told from an id: Put ends an object key in a digest of the
\* content, PresignPut in the upload's id.
ASSUME ContentAssumption == Content \cap UploadId = {} /\ None \notin Content

\* An object key that does not depend on the content.
PutRefByDocument(d, c) == <<d, CHOOSE x \in Content : TRUE>>

\* Object keys: Put names an object after its document and its content,
\* PresignPut after its document and its upload id.
PutRef(d, c) == <<d, c>>
PresignRef(d, u) == <<d, u>>
Ref == (Doc \X Content) \cup (Doc \X UploadId)

DocRow == [org: Org \cup {None}, status: {"none", "created", "processing"},
           ref: Ref \cup {None}]
UploadRow == [status: {"none", "pending", "confirmed"},
              doc: Doc \cup {None}, org: Org \cup {None},
              key: Key \cup {None}, ref: Ref \cup {None},
              expected: Size \cup {0}, size: Size \cup {0},
              sum: Digest \cup {None}]
Event == [upload: UploadId, doc: Doc, org: Org, ref: Ref, size: Size,
          sum: Digest \cup {None}]
ASSUME EventAssumption == None \notin Event

Arg == [org: Org \cup {None}, doc: Doc \cup {None}, key: Key \cup {None},
        upload: UploadId \cup {None}, size: Size \cup {0},
        sum: Digest \cup {None}]

NoDoc == [org |-> None, status |-> "none", ref |-> None]
NoUpload == [status |-> "none", doc |-> None, org |-> None, key |-> None,
             ref |-> None, expected |-> 0, size |-> 0, sum |-> None]
NoArg == [org |-> None, doc |-> None, key |-> None, upload |-> None,
          size |-> 0, sum |-> None]

VARIABLES
  docs,     \* table documents
  jobs,     \* table processing_jobs: the status of job_<doc>
  uploads,  \* table uploads
  events,   \* table event_outbox: id of the drawing handler -> envelope
  objects,  \* the bucket
  urls,     \* object keys with a presigned URL that has not expired
  pc,       \* where each handler is
  arg,      \* its request, then its local variables size and checksum
  lock,     \* who holds SELECT ... FOR UPDATE on a document
  result,   \* how each handler ended
  answer    \* the upload id of each successful response

db == <<docs, jobs, uploads, events>>
store == <<objects, urls>>
ended == <<result, answer>>
vars == <<docs, jobs, uploads, events, objects, urls, pc, arg, lock,
          result, answer>>

Label == {"new", "put", "insertDoc", "insertJob", "commit", "uploadPut",
          "lookup", "insert", "intentLookup", "intentInsert", "head",
          "confirm", "done"}

TypeOK ==
  /\ docs \in [Doc -> DocRow]
  /\ jobs \in [Doc -> {"none", "pending", "queued"}]
  /\ uploads \in [UploadId -> UploadRow]
  /\ events \in [UploadId -> Event \cup {None}]
  /\ objects \in [Ref -> Content \cup {None}]
  /\ urls \subseteq Ref
  /\ pc \in [UploadId -> Label]
  /\ arg \in [UploadId -> Arg]
  /\ lock \in [Doc -> UploadId \cup {None}]
  /\ result \in [UploadId -> {"none", "ok", "error", "aborted"}]
  /\ answer \in [UploadId -> UploadId \cup {None}]

Init ==
  /\ docs = [d \in Doc |-> NoDoc]
  /\ jobs = [d \in Doc |-> "none"]
  /\ uploads = [u \in UploadId |-> NoUpload]
  /\ events = [i \in UploadId |-> None]
  /\ objects = [f \in Ref |-> None]
  /\ urls = {}
  /\ pc = [i \in UploadId |-> "new"]
  /\ arg = [i \in UploadId |-> NoArg]
  /\ lock = [d \in Doc |-> None]
  /\ result = [i \in UploadId |-> "none"]
  /\ answer = [i \in UploadId |-> None]

-----------------------------------------------------------------------------
(* Helpers *)

\* The document ids a client can send: one it was told, or one of no document.
Addressable == {d \in Doc : result[d] = "ok" \/ docs[d] = NoDoc}

\* GetDocument without the condition on the organization.
VisibleToAll(org, d) == docs[d].org # None

\* GetDocument: the row of the document in the caller's organization.
Visible(org, d) == docs[d].org = org

\* The uploads of a document, as GetDocument returns them.
UploadsOf(org, d) ==
  {u \in UploadId : uploads[u].status # "none" /\ uploads[u].doc = d
                    /\ uploads[u].org = org}

\* SELECT ... FROM uploads WHERE organization_id AND idempotency_key.
WithKey(org, k) ==
  {u \in UploadId : k # None /\ uploads[u].status # "none"
                    /\ uploads[u].org = org /\ uploads[u].key = k}

\* No unique index on (organization_id, idempotency_key).
NoIndex(i) == TRUE

\* The unique index on (organization_id, idempotency_key) admits the upload
\* of handler i.
IndexAdmits(i) == WithKey(arg[i].org, arg[i].key) = {}

Goto(i, label) == pc' = [pc EXCEPT ![i] = label]

Reply(i, how, u) ==
  /\ pc' = [pc EXCEPT ![i] = "done"]
  /\ result' = [result EXCEPT ![i] = how]
  /\ answer' = [answer EXCEPT ![i] = u]

Succeed(i, u) == Reply(i, "ok", u)
Fail(i) == Reply(i, "error", None)

ContentOf(i) == [size |-> arg[i].size, sum |-> arg[i].sum]

\* An event without the checksum.
EventWithoutChecksum(u, d, org, ref, size, sum) ==
  [upload |-> u, doc |-> d, org |-> org, ref |-> ref,
   size |-> size, sum |-> None]

\* NewDocumentUploaded.
EventOf(u, d, org, ref, size, sum) ==
  [upload |-> u, doc |-> d, org |-> org, ref |-> ref,
   size |-> size, sum |-> sum]

\* INSERT INTO uploads with the status 'uploaded'.
UploadedRow(i, ref) ==
  [status |-> "uploaded", doc |-> arg[i].doc, org |-> arg[i].org,
   key |-> arg[i].key, ref |-> ref, expected |-> 0,
   size |-> arg[i].size, sum |-> arg[i].sum]

\* INSERT INTO uploads without status: confirmed by default.
ConfirmedRow(i, ref) ==
  [status |-> "confirmed", doc |-> arg[i].doc, org |-> arg[i].org,
   key |-> arg[i].key, ref |-> ref, expected |-> 0,
   size |-> arg[i].size, sum |-> arg[i].sum]

\* INSERT INTO processing_jobs ... ON CONFLICT (id) DO NOTHING.
QueueNewOnly(d, f) ==
  /\ docs' = [docs EXCEPT ![d].status = "processing", ![d].ref = f]
  /\ jobs' = [jobs EXCEPT ![d] = IF @ = "none" THEN "queued" ELSE @]

\* The document of an accepted upload is processing, its job queued.
Queue(d, f) ==
  /\ docs' = [docs EXCEPT ![d].status = "processing", ![d].ref = f]
  /\ jobs' = [jobs EXCEPT ![d] = "queued"]

-----------------------------------------------------------------------------
(* CreateDocument *)

\* A request without content: only the document is to be created.
CreateEmpty(d) ==
  /\ pc[d] = "new"
  /\ \E org \in Org : arg' = [arg EXCEPT ![d] = [NoArg EXCEPT !.org = org, !.doc = d]]
  /\ Goto(d, "insertDoc")
  /\ UNCHANGED <<db, store, lock, ended>>

\* The first of two statements that share no transaction.
InsertDoc(d) ==
  /\ pc[d] = "insertDoc"
  /\ docs' = [docs EXCEPT ![d] = [org |-> arg[d].org, status |-> "created", ref |-> None]]
  /\ Goto(d, "insertJob")
  /\ UNCHANGED <<jobs, uploads, events, store, arg, lock, ended>>

\* The second one.  Only now does anyone else learn the document's id.
InsertJob(d) ==
  /\ pc[d] = "insertJob"
  /\ jobs' = [jobs EXCEPT ![d] = "pending"]
  /\ Succeed(d, None)
  /\ UNCHANGED <<docs, uploads, events, store, arg, lock>>

\* A request with content: the bytes are stored first.
CreateWithContent(d) ==
  /\ pc[d] = "new"
  /\ \E org \in Org, c \in Content :
       arg' = [arg EXCEPT ![d] = [NoArg EXCEPT !.org = org, !.doc = d,
                                               !.size = c.size, !.sum = c.sum]]
  /\ Goto(d, "put")
  /\ UNCHANGED <<db, store, lock, ended>>

CreatePut(d) ==
  /\ pc[d] = "put"
  /\ objects' = [objects EXCEPT ![PutRef(d, ContentOf(d))] = ContentOf(d)]
  /\ Goto(d, "commit")
  /\ UNCHANGED <<db, urls, arg, lock, ended>>

\* CreateDocumentAndQueue: one transaction.
CreateCommit(d) ==
  LET ref == PutRef(d, ContentOf(d))
  IN /\ pc[d] = "commit"
     /\ docs' = [docs EXCEPT ![d] = [org |-> arg[d].org, status |-> "processing", ref |-> ref]]
     /\ jobs' = [jobs EXCEPT ![d] = "queued"]
     /\ uploads' = [uploads EXCEPT ![d] = ConfirmedRow(d, ref)]
     /\ events' = [events EXCEPT ![d] = EventOf(d, d, arg[d].org, ref, arg[d].size, arg[d].sum)]
     /\ Succeed(d, None)
     /\ UNCHANGED <<store, arg, lock>>

-----------------------------------------------------------------------------
(* UploadDocument *)

\* The request is admitted, the document loaded, the key compared with the
\* uploads the document has, whatever their status.
UploadDocument(r) ==
  /\ pc[r] = "new"
  /\ \E org \in Org, d \in Addressable, k \in Key \cup {None}, c \in Content :
       /\ arg' = [arg EXCEPT ![r] = [NoArg EXCEPT !.org = org, !.doc = d, !.key = k,
                                                  !.size = c.size, !.sum = c.sum]]
       /\ \/ ~Visible(org, d) /\ Fail(r)
          \/ /\ Visible(org, d)
             /\ \E u \in UploadsOf(org, d) \cap WithKey(org, k) : Succeed(r, u)
          \/ /\ Visible(org, d)
             /\ UploadsOf(org, d) \cap WithKey(org, k) = {}
             /\ Goto(r, "uploadPut") /\ UNCHANGED ended
  /\ UNCHANGED <<db, store, lock>>

UploadPut(r) ==
  /\ pc[r] = "uploadPut"
  /\ objects' = [objects EXCEPT ![PutRef(arg[r].doc, ContentOf(r))] = ContentOf(r)]
  /\ Goto(r, "lookup")
  /\ UNCHANGED <<db, urls, arg, lock, ended>>

\* uploadDocument locks the document and looks the key up in the whole
\* organization.  A hit ends the transaction without a write, and the handler
\* answers with the upload id it drew.
UploadLookup(r) ==
  /\ pc[r] = "lookup" /\ lock[arg[r].doc] = None
  /\ \/ /\ WithKey(arg[r].org, arg[r].key) # {}
        /\ Succeed(r, r)
        /\ UNCHANGED lock
     \/ /\ WithKey(arg[r].org, arg[r].key) = {}
        /\ lock' = [lock EXCEPT ![arg[r].doc] = r]
        /\ Goto(r, "insert")
        /\ UNCHANGED ended
  /\ UNCHANGED <<db, store, arg>>

\* The writes and the commit, or a violation of the unique index.
UploadInsert(r) ==
  LET d == arg[r].doc
      ref == PutRef(d, ContentOf(r))
  IN /\ pc[r] = "insert"
     /\ lock' = [lock EXCEPT ![d] = None]
     /\ \/ /\ IndexAdmits(r)
           /\ uploads' = [uploads EXCEPT ![r] = ConfirmedRow(r, ref)]
           /\ Queue(d, ref)
           /\ events' = [events EXCEPT ![r] = EventOf(r, d, arg[r].org, ref, arg[r].size, arg[r].sum)]
           /\ Succeed(r, r)
        \/ /\ ~IndexAdmits(r)
           /\ Fail(r)
           /\ UNCHANGED db
     /\ UNCHANGED <<store, arg>>

-----------------------------------------------------------------------------
(* CreateUploadIntent *)

\* The client declares a size, and may declare a checksum.
CreateUploadIntent(r) ==
  /\ pc[r] = "new"
  /\ \E org \in Org, d \in Addressable, k \in Key \cup {None}, n \in Size, s \in Digest \cup {None} :
       /\ arg' = [arg EXCEPT ![r] = [NoArg EXCEPT !.org = org, !.doc = d, !.key = k,
                                                  !.size = n, !.sum = s]]
       /\ \/ ~Visible(org, d) /\ Fail(r)
          \/ Visible(org, d) /\ Goto(r, "intentLookup") /\ UNCHANGED ended
  /\ UNCHANGED <<db, store, lock>>

\* A key the organization has used answers with that upload, and with a URL
\* for its id under the document of this request.
IntentLookup(r) ==
  /\ pc[r] = "intentLookup"
  /\ \/ \E u \in WithKey(arg[r].org, arg[r].key) :
          /\ urls' = urls \cup {PresignRef(arg[r].doc, u)}
          /\ Succeed(r, u)
     \/ /\ WithKey(arg[r].org, arg[r].key) = {}
        /\ Goto(r, "intentInsert")
        /\ UNCHANGED <<urls, ended>>
  /\ UNCHANGED <<db, objects, arg, lock>>

\* The row is inserted with size_bytes 0; the CHECK and the unique index may
\* refuse it.  The foreign key makes the insert wait for the document's lock.
\* (Should the holder of the lock wait in turn for this row's index entry,
\* PostgreSQL ends one of the two transactions: Abort.)
IntentInsert(r) ==
  LET ref == PresignRef(arg[r].doc, r)
  IN /\ pc[r] = "intentInsert" /\ lock[arg[r].doc] = None
     /\ \/ /\ MinRowSize = 0 /\ IndexAdmits(r)
           /\ uploads' = [uploads EXCEPT
                ![r] = [status |-> "pending", doc |-> arg[r].doc, org |-> arg[r].org,
                        key |-> arg[r].key, ref |-> ref, expected |-> arg[r].size,
                        size |-> 0, sum |-> arg[r].sum]]
           /\ urls' = urls \cup {ref}
           /\ Succeed(r, r)
        \/ /\ MinRowSize > 0 \/ ~IndexAdmits(r)
           /\ Fail(r)
           /\ UNCHANGED <<uploads, urls>>
     /\ UNCHANGED <<docs, jobs, events, objects, arg, lock>>

\* The client uploads through a presigned URL, as often as it likes.
ClientPut(f, c) ==
  /\ f \in urls
  /\ objects[f] # c
  /\ objects' = [objects EXCEPT ![f] = c]
  /\ UNCHANGED <<db, urls, pc, arg, lock, ended>>

\* Fifteen minutes after it was issued.
UrlExpires(f) ==
  /\ f \in urls
  /\ urls' = urls \ {f}
  /\ UNCHANGED <<db, objects, pc, arg, lock, ended>>

-----------------------------------------------------------------------------
(* CompleteUpload, and ConfirmUploadNotification, which calls it *)

\* The pending upload is loaded; a checksum the request leaves out is taken
\* from it.
CompleteUpload(r) ==
  /\ pc[r] = "new"
  /\ \E org \in Org, d \in Addressable, u \in UploadId, n \in Size \cup {0}, s \in Digest \cup {None} :
       /\ arg' = [arg EXCEPT ![r] =
            [NoArg EXCEPT !.org = org, !.doc = d, !.upload = u, !.size = n,
                          !.sum = IF s # None THEN s ELSE uploads[u].sum]]
       /\ \/ (~Visible(org, d) \/ u \notin UploadsOf(org, d)) /\ Fail(r)
          \/ /\ Visible(org, d) /\ u \in UploadsOf(org, d)
             /\ uploads[u].status = "confirmed"
             /\ Succeed(r, u)
          \/ /\ Visible(org, d) /\ u \in UploadsOf(org, d)
             /\ uploads[u].status = "pending"
             /\ Goto(r, "head") /\ UNCHANGED ended
  /\ UNCHANGED <<db, store, lock>>

\* Head: the object, of which it tells the size; a checksum is not asked for.
HeadObject(r) == objects[uploads[arg[r].upload].ref]

\* The bytes that arrived are held against the declared size alone.
CompleteHead(r) ==
  LET object == HeadObject(r)
      matches == object # None /\ arg[r].size \in {0, object.size}
  IN /\ pc[r] = "head"
     /\ \/ /\ matches
           /\ arg' = [arg EXCEPT ![r].size = object.size]
           /\ Goto(r, "confirm") /\ UNCHANGED ended
        \/ /\ ~matches
           /\ Fail(r) /\ UNCHANGED arg
     /\ UNCHANGED <<db, store, lock>>

\* Confirming without looking at the status of the row again.
PendingBefore(row) == row.status \in {"pending", "confirmed"}

\* The row, re-read under a lock, is still waiting for its confirmation.
StillPending(row) == row.status = "pending"

\* The row, re-read under a lock, does not accept the declared metadata.
Mismatch(row, size, sum) ==
  \/ row.expected > 0 /\ row.expected # size
  \/ row.sum # None /\ sum # None /\ row.sum # sum

\* ConfirmUpload: one transaction, waiting for the document's lock.
CompleteConfirm(r) ==
  LET u == arg[r].upload
      d == arg[r].doc
      row == uploads[u]
  IN /\ pc[r] = "confirm" /\ lock[d] = None
     /\ \/ /\ row.status = "confirmed" /\ Succeed(r, u)
           /\ UNCHANGED db
        \/ /\ StillPending(row) /\ Mismatch(row, arg[r].size, arg[r].sum)
           /\ Fail(r)
           /\ UNCHANGED db
        \/ /\ StillPending(row) /\ ~Mismatch(row, arg[r].size, arg[r].sum)
           /\ uploads' = [uploads EXCEPT ![u].status = "confirmed",
                                         ![u].size = arg[r].size, ![u].sum = arg[r].sum]
           /\ Queue(d, row.ref)
           /\ events' = [events EXCEPT ![r] =
                           EventOf(u, d, arg[r].org, row.ref, arg[r].size, arg[r].sum)]
           /\ Succeed(r, u)
     /\ UNCHANGED <<store, arg, lock>>

-----------------------------------------------------------------------------

\* A handler that stops and leaves its transaction open.
AbortWithoutRollback(i) ==
  /\ pc[i] \notin {"new", "done"}
  /\ Reply(i, "aborted", None)
  /\ UNCHANGED <<db, store, arg, lock>>

\* A handler stops where it is: a storage or database error, a cancelled
\* request, the death of its server.  An open transaction is rolled back.
Abort(i) ==
  /\ pc[i] \notin {"new", "done"}
  /\ Reply(i, "aborted", None)
  /\ lock' = [d \in Doc |-> IF lock[d] = i THEN None ELSE lock[d]]
  /\ UNCHANGED <<db, store, arg>>

\* What a handler does next once its request is in.
Advance(i) ==
  \/ i \in Doc /\ (InsertDoc(i) \/ InsertJob(i) \/ CreatePut(i) \/ CreateCommit(i))
  \/ /\ i \in Req
     /\ \/ UploadPut(i) \/ UploadLookup(i) \/ UploadInsert(i)
        \/ IntentLookup(i) \/ IntentInsert(i)
        \/ CompleteHead(i) \/ CompleteConfirm(i)

Next ==
  \/ \E d \in Doc : CreateEmpty(d) \/ CreateWithContent(d)
  \/ \E r \in Req : UploadDocument(r) \/ CreateUploadIntent(r) \/ CompleteUpload(r)
  \/ \E i \in UploadId : Advance(i) \/ Abort(i)
  \/ \E f \in Ref : UrlExpires(f) \/ \E c \in Content : ClientPut(f, c)

Spec == Init /\ [][Next]_vars

\* A server runs the handlers it has started.
Fairness == \A i \in UploadId : WF_vars(Advance(i))

-----------------------------------------------------------------------------
(* Properties *)

EventsOf(u) == {i \in UploadId : events[i] # None /\ events[i].upload = u}

\* An upload is confirmed if and only if the outbox holds exactly one event
\* for it, and that event carries the row's own metadata: for racing
\* confirmations, retries under one key and handlers that stop half way.
\* (CreateDocumentAndQueue, uploadDocument, ConfirmUpload.)
TransactionalOutbox ==
  \A u \in UploadId :
    /\ uploads[u].status # "confirmed" => EventsOf(u) = {}
    /\ uploads[u].status = "confirmed" =>
         \E i \in UploadId :
           /\ EventsOf(u) = {i}
           /\ \A c \in {"doc", "org", "ref", "size", "sum"} : events[i][c] = uploads[u][c]

\* However often and wherever a client uses an idempotency key, the consumers
\* hear of at most one upload under it.  (The lookups of uploadDocument and
\* CreateUploadIntent, neither of which excludes the other, and the index.)
OneEventPerKey ==
  \A org \in Org, k \in Key :
    \A i, j \in UploadId :
      /\ events[i] # None /\ events[i].upload \in WithKey(org, k)
      /\ events[j] # None /\ events[j].upload \in WithKey(org, k)
      => i = j

\* A document is 'processing', with a queued job and the storage_ref of one of
\* its confirmed uploads, exactly when it has a confirmed upload.
DocumentFollowsUploads ==
  \A d \in Doc :
    LET confirmed == {u \in UploadsOf(docs[d].org, d) : uploads[u].status = "confirmed"}
    IN /\ docs[d].status = "processing" <=> confirmed # {}
       /\ docs[d].status = "processing" <=> jobs[d] = "queued"
       /\ docs[d].status = "processing" => \E u \in confirmed : docs[d].ref = uploads[u].ref

\* The storage_ref an event carries leads to an object, and to the very bytes
\* the event describes when the service stored them itself.  (Put before the
\* transaction, HEAD before ConfirmUpload.)
AnnouncedBytesStored ==
  \A i \in UploadId : events[i] # None =>
    LET e == events[i]
    IN /\ objects[e.ref] # None
       /\ e.ref \in Doc \X Content => objects[e.ref] = [size |-> e.size, sum |-> e.sum]

\* An upload, its document and its event belong to one organization, and a
\* response names an upload of the caller's organization only: also where a
\* key is looked up across documents.
TenantIsolation ==
  /\ \A u \in UploadId : uploads[u].status # "none" =>
       uploads[u].org = docs[uploads[u].doc].org
  /\ \A i \in UploadId : events[i] # None => events[i].org = docs[events[i].doc].org
  /\ \A i \in UploadId :
       answer[i] # None /\ uploads[answer[i]].status # "none" =>
         uploads[answer[i]].org = arg[i].org

\* Every request that was taken in ends, whatever happens to the others: no
\* handler keeps a document's lock, or waits for one forever.
RequestsEnd == \A i \in UploadId : (pc[i] # "new") ~> (pc[i] = "done")

\* The upload a successful response names is on record.
AnsweredUploadRecorded ==
  \A i \in UploadId : answer[i] # None => uploads[answer[i]].status # "none"
=============================================================================
