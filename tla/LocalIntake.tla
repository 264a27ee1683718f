---------------------------- MODULE LocalIntake ----------------------------
(***************************************************************************)
(* The Document Intake service with its development adapters: MemoryStore  *)
(* keeps the metadata, LocalObjectStorage the bytes, in one process.       *)
(*                                                                         *)
(* A critical section of MemoryStore is one step.  GetDocument returns a   *)
(* document whose slice of uploads is the store's own: what a handler      *)
(* reads of it later, without the lock, races with ConfirmUpload, which    *)
(* writes into that slice.  A file is written in two steps, since          *)
(* os.WriteFile first truncates it.                                        *)
(*                                                                         *)
(* Requests have passed authorization and validation.  Ids are named after *)
(* the handler that draws them: request r creates upload r, CreateDocument *)
(* of document d creates the inline upload d.  Events go nowhere here.     *)
(***************************************************************************)
EXTENDS Naturals

CONSTANTS
  Org,          \* organizations
  Doc,          \* document ids, and the CreateDocument requests drawing them
  Req,          \* requests to the other operations
  Key,          \* non-empty idempotency keys
  Name,         \* file names, as sanitizeFilename leaves them
  Size,         \* sizes of contents, in bytes
  Digest,       \* digests of contents
  MaxRestarts,  \* bound: how often the process may be restarted
  Torn,         \* what racing accesses leave: half of one value, half of another
  None          \* no value

ASSUME LocalAssumption ==
  /\ Doc \cap Req = {}
  /\ Size \subseteq Nat \ {0}
  /\ MaxRestarts \in Nat
  /\ {Torn, None} \cap (Org \cup Doc \cup Req \cup Key \cup Name \cup Digest) = {}

UploadId == Doc \cup Req
Content == [size: Size, sum: Digest]
File == [size: Size \cup {0}, sum: Digest \cup {Torn, None}]
ASSUME FileAssumption == None \notin File /\ Torn # None

\* File paths: Put names a file after its document and its file name,
\* PresignPut after its document and its upload.
PutRef(d, name) == <<d, name>>
PresignRef(d, u) == <<d, u>>
Ref == (Doc \X Name) \cup (Doc \X Req)

DocRow == [org: Org \cup {None}, status: {"none", "created", "processing"},
           job: {"none", "pending", "queued"}, ref: Ref \cup {None}]
UploadRow == [status: {"none", "pending", "confirmed"}, doc: Doc \cup {None},
              key: Key \cup {None}, ref: Ref \cup {None}, expected: Size \cup {0},
              size: Size \cup {0}, sum: Digest \cup {None}]
Arg == [org: Org \cup {None}, doc: Doc \cup {None}, name: Name \cup {None},
        key: Key \cup {None}, upload: UploadId \cup {None}, size: Size \cup {0},
        sum: Digest \cup {Torn, None}]

NoDoc == [org |-> None, status |-> "none", job |-> "none", ref |-> None]
NoUpload == [status |-> "none", doc |-> None, key |-> None, ref |-> None,
             expected |-> 0, size |-> 0, sum |-> None]
NoArg == [org |-> None, doc |-> None, name |-> None, key |-> None, upload |-> None,
          size |-> 0, sum |-> None]

VARIABLES
  docs,      \* MemoryStore.docs
  uploads,   \* the records in the documents' slices Uploads
  files,     \* the storage directory: a content, or None for no file
  urls,      \* files whose URL a client was given; it does not expire
  pc,        \* where each handler is
  arg,       \* its request, then its local variables size and checksum
  copy,      \* the document it got: status, and its uploads as they were
  told,      \* documents whose id a client was told
  shown,     \* the last response of GetDocument to each request, or None
  writers,   \* history: the handlers that have opened each file
  restarts   \* how often the process was restarted

memory == <<docs, uploads>>
disk == <<files, urls, writers>>
handlers == <<pc, arg, copy>>
vars == <<docs, uploads, files, urls, pc, arg, copy, told, shown, writers, restarts>>

Label == {"new", "open", "write", "insertDoc", "record", "find", "head", "confirm",
          "intent", "read", "done"}

TypeOK ==
  /\ docs \in [Doc -> DocRow]
  /\ uploads \in [UploadId -> UploadRow]
  /\ files \in [Ref -> File \cup {None}]
  /\ urls \subseteq Ref
  /\ pc \in [UploadId -> Label]
  /\ arg \in [UploadId -> Arg]
  /\ told \subseteq Doc
  /\ writers \in [Ref -> SUBSET UploadId]
  /\ restarts \in 0 .. MaxRestarts

Init ==
  /\ docs = [d \in Doc |-> NoDoc]
  /\ uploads = [u \in UploadId |-> NoUpload]
  /\ files = [f \in Ref |-> None]
  /\ urls = {}
  /\ pc = [i \in UploadId |-> "new"]
  /\ arg = [i \in UploadId |-> NoArg]
  /\ copy = [i \in UploadId |-> None]
  /\ told = {}
  /\ shown = [r \in Req |-> None]
  /\ writers = [f \in Ref |-> {}]
  /\ restarts = 0

-----------------------------------------------------------------------------
(* Helpers *)

UploadsOf(d) == {u \in UploadId : uploads[u].doc = d}

\* GetDocument, and the check every method of MemoryStore begins with.
Found(org, d) == docs[d].org = org

\* The key is not looked up again inside the critical section.
NoLookup(d, k) == {}

\* The upload of document d under key k.
WithKey(d, k) == {u \in UploadsOf(d) : k # None /\ uploads[u].key = k}

\* A request as its handler keeps it: of document d of org, with the content c
\* it sends or announces.
Request(org, d, name, k, u, c) ==
  [org |-> org, doc |-> d, name |-> name, key |-> k, upload |-> u,
   size |-> c.size, sum |-> c.sum]

Goto(i, label) == pc' = [pc EXCEPT ![i] = label]

\* The handler ends, with a response or an error.
End(i) ==
  /\ pc' = [pc EXCEPT ![i] = "done"]
  /\ arg' = [arg EXCEPT ![i] = NoArg]

\* The document as GetDocument returns it.
Fetch(i, d) ==
  copy' = [copy EXCEPT ![i] =
             [status |-> docs[d].status, rows |-> [u \in UploadsOf(d) |-> uploads[u]]]]

\* What an unlocked read of a string, of two words, may give.
Racing(old, new) == IF old = new THEN {new} ELSE {old, new, Torn}

\* What handler i may see of upload u in the document it got.
Seen(i, u) ==
  LET old == copy[i].rows[u]
      new == uploads[u]
  IN [status: Racing(old.status, new.status), size: {old.size, new.size},
      sum: Racing(old.sum, new.sum)]

\* A record with the status 'uploaded'.
UploadedRow(i, ref) ==
  [status |-> "uploaded", doc |-> arg[i].doc, key |-> arg[i].key, ref |-> ref,
   expected |-> 0, size |-> arg[i].size, sum |-> arg[i].sum]

\* The record of a proxied upload: confirmed by default.
ConfirmedRow(i, ref) ==
  [status |-> "confirmed", doc |-> arg[i].doc, key |-> arg[i].key, ref |-> ref,
   expected |-> 0, size |-> arg[i].size, sum |-> arg[i].sum]

-----------------------------------------------------------------------------
(* LocalObjectStorage *)

\* Put, os.WriteFile: the file is created or truncated ...
PutOpen(i, next) ==
  LET f == PutRef(arg[i].doc, arg[i].name)
  IN /\ files' = [files EXCEPT ![f] = [size |-> 0, sum |-> None]]
     /\ writers' = [writers EXCEPT ![f] = @ \cup {i}]
     /\ Goto(i, next)
     /\ UNCHANGED <<memory, urls, arg, copy, told, shown, restarts>>

\* ... and written from its beginning.  More than that may be there by now.
PutWrite(i, next) ==
  LET f == PutRef(arg[i].doc, arg[i].name)
      rest == files[f].size > arg[i].size
  IN /\ files' = [files EXCEPT ![f] =
           IF rest THEN [@ EXCEPT !.sum = Torn] ELSE [size |-> arg[i].size, sum |-> arg[i].sum]]
     /\ Goto(i, next)
     /\ UNCHANGED <<memory, urls, writers, arg, copy, told, shown, restarts>>

\* A client writes the file behind the URL it was given.
ClientPut(f, c) ==
  /\ f \in urls /\ files[f] # c
  /\ files' = [files EXCEPT ![f] = c]
  /\ UNCHANGED <<memory, urls, writers, handlers, told, shown, restarts>>

-----------------------------------------------------------------------------
(* CreateDocument *)

\* Without content: one critical section.
CreateEmpty(d) ==
  /\ pc[d] = "new"
  /\ \E org \in Org : docs' = [docs EXCEPT ![d] =
       [org |-> org, status |-> "created", job |-> "pending", ref |-> None]]
  /\ told' = told \cup {d}
  /\ End(d)
  /\ UNCHANGED <<uploads, disk, copy, shown, restarts>>

CreateWithContent(d) ==
  /\ pc[d] = "new"
  /\ \E org \in Org, name \in Name, c \in Content :
       arg' = [arg EXCEPT ![d] = Request(org, d, name, None, None, c)]
  /\ Goto(d, "open")
  /\ UNCHANGED <<memory, disk, copy, told, shown, restarts>>

\* CreateDocumentAndQueue, the first of two critical sections: the document
\* is processing and has no upload yet.
InsertDoc(d) ==
  /\ pc[d] = "insertDoc"
  /\ docs' = [docs EXCEPT ![d] =
       [org |-> arg[d].org, status |-> "processing", job |-> "queued",
        ref |-> PutRef(d, arg[d].name)]]
  /\ Goto(d, "record")
  /\ UNCHANGED <<uploads, disk, arg, copy, told, shown, restarts>>

-----------------------------------------------------------------------------
(* UploadDocument *)

\* The document is loaded, and the key compared with those of its uploads.
UploadDocument(r) ==
  /\ pc[r] = "new"
  /\ \E org \in Org, d \in told, name \in Name, k \in Key \cup {None}, c \in Content :
       \/ (~Found(org, d) \/ WithKey(d, k) # {}) /\ End(r)
       \/ /\ Found(org, d) /\ WithKey(d, k) = {}
          /\ arg' = [arg EXCEPT ![r] = Request(org, d, name, k, None, c)]
          /\ Goto(r, "open")
  /\ UNCHANGED <<memory, disk, copy, told, shown, restarts>>

\* MemoryStore.UploadDocument, also the second critical section of
\* CreateDocumentAndQueue.  A key that is taken changes nothing.
Record(i) ==
  LET d == arg[i].doc
      ref == PutRef(d, arg[i].name)
  IN /\ pc[i] = "record"
     /\ \/ /\ Found(arg[i].org, d) /\ WithKey(d, arg[i].key) = {}
           /\ uploads' = [uploads EXCEPT ![i] = ConfirmedRow(i, ref)]
           /\ docs' = [docs EXCEPT ![d].status = "processing", ![d].job = "queued", ![d].ref = ref]
        \/ /\ ~Found(arg[i].org, d) \/ WithKey(d, arg[i].key) # {}
           /\ UNCHANGED memory
     /\ told' = told \cup {d}
     /\ End(i)
     /\ UNCHANGED <<disk, copy, shown, restarts>>

-----------------------------------------------------------------------------
(* CreateUploadIntent *)

\* The document is loaded, and a URL made for the upload that is to come.
CreateUploadIntent(r) ==
  /\ pc[r] = "new"
  /\ \E org \in Org, d \in told, k \in Key \cup {None},
          c \in [size: Size, sum: Digest \cup {None}] :
       \/ ~Found(org, d) /\ End(r)
       \/ /\ Found(org, d)
          /\ arg' = [arg EXCEPT ![r] = Request(org, d, None, k, None, c)]
          /\ Goto(r, "intent")
  /\ UNCHANGED <<memory, disk, copy, told, shown, restarts>>

\* The record of an upload that is to come.
Intend(r) ==
  uploads' = [uploads EXCEPT ![r] =
    [status |-> "pending", doc |-> arg[r].doc, key |-> arg[r].key,
     ref |-> PresignRef(arg[r].doc, r), expected |-> arg[r].size, size |-> 0, sum |-> arg[r].sum]]

\* The document of an intent is already processing.
RecordIntentQueued(r) ==
  LET d == arg[r].doc
  IN /\ pc[r] = "intent" /\ WithKey(d, arg[r].key) = {}
     /\ Intend(r) /\ docs' = [docs EXCEPT ![d].status = "processing", ![d].job = "queued"]
     /\ urls' = urls \cup {PresignRef(d, r)}
     /\ End(r)
     /\ UNCHANGED <<files, writers, copy, told, shown, restarts>>

\* MemoryStore.CreateUploadIntent.  A key of this document leads to the upload
\* that has it, and to a URL for its id.
RecordIntent(r) ==
  LET d == arg[r].doc
  IN /\ pc[r] = "intent"
     /\ \/ /\ WithKey(d, arg[r].key) = {}
           /\ Intend(r)
           /\ urls' = urls \cup {PresignRef(d, r)}
        \/ \E u \in WithKey(d, arg[r].key) :
             urls' = urls \cup ({PresignRef(d, u)} \cap Ref) /\ UNCHANGED uploads
     /\ End(r)
     /\ UNCHANGED <<docs, files, writers, copy, told, shown, restarts>>

-----------------------------------------------------------------------------
(* CompleteUpload, and ConfirmUploadNotification, which calls it *)

\* The document is loaded.
CompleteUpload(r) ==
  /\ pc[r] = "new"
  /\ \E org \in Org, d \in told, u \in UploadId,
          c \in [size: Size \cup {0}, sum: Digest \cup {None}] :
       \/ (~Found(org, d) \/ u \notin UploadsOf(d)) /\ End(r) /\ UNCHANGED copy
       \/ /\ Found(org, d) /\ u \in UploadsOf(d)
          /\ arg' = [arg EXCEPT ![r] = Request(org, d, None, None, u, c)]
          /\ Fetch(r, d)
          /\ Goto(r, "find")
  /\ UNCHANGED <<memory, disk, told, shown, restarts>>

\* findUpload copies the record without the lock.
FindUpload(r) ==
  /\ pc[r] = "find"
  /\ \E seen \in Seen(r, arg[r].upload) :
       \/ seen.status # "pending" /\ End(r)
       \/ /\ seen.status = "pending"
          /\ arg' = [arg EXCEPT ![r].sum = IF @ # None THEN @ ELSE seen.sum]
          /\ Goto(r, "head")
  /\ copy' = [copy EXCEPT ![r] = None]
  /\ UNCHANGED <<memory, disk, told, shown, restarts>>

\* Going on when os.Stat finds no file.
HeadAnyway(r) ==
  /\ pc[r] = "head"
  /\ \E n \in Size :
       /\ arg' = [arg EXCEPT ![r].size = n]
       /\ Goto(r, "confirm")
  /\ UNCHANGED <<memory, disk, copy, told, shown, restarts>>

\* Head reports the size of the file, and no checksum.
Head(r) ==
  LET file == files[uploads[arg[r].upload].ref]
      matches == file # None /\ arg[r].size \in {0, file.size}
  IN /\ pc[r] = "head"
     /\ \/ /\ matches
           /\ arg' = [arg EXCEPT ![r].size = file.size]
           /\ Goto(r, "confirm")
        \/ ~matches /\ End(r)
     /\ UNCHANGED <<memory, disk, copy, told, shown, restarts>>

\* Confirming what was found pending before.
FoundPending(row) == row.status # "none"

\* The record is still waiting for its confirmation.
StillPending(row) == row.status = "pending"

Mismatch(row, size, sum) ==
  \/ row.expected > 0 /\ row.expected # size
  \/ row.sum # None /\ sum # None /\ row.sum # sum

\* MemoryStore.ConfirmUpload.  It leaves the document's StorageRef alone.
ConfirmUpload(r) ==
  LET u == arg[r].upload
      row == uploads[u]
      accept == StillPending(row) /\ ~Mismatch(row, arg[r].size, arg[r].sum)
  IN /\ pc[r] = "confirm"
     /\ \/ /\ accept
           /\ uploads' = [uploads EXCEPT ![u].status = "confirmed",
                                         ![u].size = arg[r].size, ![u].sum = arg[r].sum]
           /\ docs' = [docs EXCEPT ![row.doc].status = "processing", ![row.doc].job = "queued"]
        \/ ~accept /\ UNCHANGED memory
     /\ End(r)
     /\ UNCHANGED <<disk, copy, told, shown, restarts>>

-----------------------------------------------------------------------------
(* GetDocument and GetDocumentStatus *)

GetDocument(r) ==
  /\ pc[r] = "new"
  /\ \E org \in Org, d \in told :
       \/ ~Found(org, d) /\ End(r) /\ UNCHANGED copy
       \/ Found(org, d) /\ Fetch(r, d) /\ Goto(r, "read") /\ UNCHANGED arg
  /\ UNCHANGED <<memory, disk, told, shown, restarts>>

\* toProtoDocument reads the uploads without the lock.
ToProtoDocument(r) ==
  /\ pc[r] = "read"
  /\ \E seen \in [DOMAIN copy[r].rows -> {"pending", "confirmed", Torn}] :
       /\ \A u \in DOMAIN seen : \E row \in Seen(r, u) : row.status = seen[u]
       /\ shown' = [shown EXCEPT ![r] = [status |-> copy[r].status, uploads |-> seen]]
  /\ copy' = [copy EXCEPT ![r] = None]
  /\ End(r)
  /\ UNCHANGED <<memory, disk, told, restarts>>

-----------------------------------------------------------------------------

\* The process ends and is started again: what was in memory is gone, the
\* files and the URLs are not.
Restart ==
  /\ restarts < MaxRestarts
  /\ restarts' = restarts + 1
  /\ docs' = [d \in Doc |-> NoDoc]
  /\ uploads' = [u \in UploadId |-> NoUpload]
  /\ pc' = [i \in UploadId |-> IF pc[i] = "new" THEN "new" ELSE "done"]
  /\ arg' = [i \in UploadId |-> NoArg]
  /\ copy' = [i \in UploadId |-> None]
  /\ UNCHANGED <<disk, told, shown>>

\* A handler ends with an error of the file system.
StorageFails(i) ==
  /\ pc[i] \in {"open", "write", "head"}
  /\ End(i)
  /\ UNCHANGED <<memory, disk, copy, told, shown, restarts>>

Next ==
  \/ \E d \in Doc :
       \/ CreateEmpty(d) \/ CreateWithContent(d)
       \/ pc[d] = "write" /\ PutWrite(d, "insertDoc")
       \/ InsertDoc(d)
  \/ \E r \in Req :
       \/ UploadDocument(r) \/ CreateUploadIntent(r) \/ CompleteUpload(r) \/ GetDocument(r)
       \/ pc[r] = "write" /\ PutWrite(r, "record")
       \/ RecordIntent(r) \/ FindUpload(r) \/ Head(r) \/ ConfirmUpload(r) \/ ToProtoDocument(r)
  \/ \E i \in UploadId :
       \/ pc[i] = "open" /\ PutOpen(i, "write")
       \/ Record(i) \/ StorageFails(i)
  \/ \E f \in Ref, c \in Content : ClientPut(f, c)
  \/ Restart

Spec == Init /\ [][Next]_vars

-----------------------------------------------------------------------------
(* Properties *)

\* What a confirmation recorded stays, whatever racing confirmations have read
\* without the lock, torn values included; only a restart forgets it.
\* (findUpload, ConfirmUpload.)
ConfirmedOnce ==
  [][\A u \in UploadId :
       uploads[u].status = "confirmed" /\ restarts' = restarts => uploads'[u] = uploads[u]]_vars

\* A document has one upload under an idempotency key, although the handlers
\* look for the key before they store the bytes and other requests use it in
\* the meantime.  (Service.UploadDocument, MemoryStore.UploadDocument,
\* CreateUploadIntent.)
OneUploadPerKey ==
  \A u, v \in UploadId :
    uploads[u].key # None /\ uploads[u].key = uploads[v].key /\ uploads[u].doc = uploads[v].doc
    => u = v

\* GetDocument never says that a document is processing, its job queued,
\* without showing a confirmed upload: although it reads the uploads after the
\* status, without the lock, and CreateDocumentAndQueue stores the document
\* before its upload.
ShownIsExplained ==
  \A r \in Req : shown[r] # None /\ shown[r].status = "processing" =>
    \E u \in DOMAIN shown[r].uploads : shown[r].uploads[u] = "confirmed"

\* The file of a confirmed upload exists, at a path of its own document; and
\* as long as nobody else has opened that path, or was given a URL for it, it
\* holds the bytes the record describes.  (Put, PresignPut, Head, with failing
\* and racing writes.)
ConfirmedHasFile ==
  \A u \in UploadId : uploads[u].status = "confirmed" =>
    LET ref == uploads[u].ref
    IN /\ ref[1] = uploads[u].doc /\ files[ref] # None
       /\ writers[ref] = {u} /\ ref \notin urls =>
            files[ref] = [size |-> uploads[u].size, sum |-> uploads[u].sum]
=============================================================================
