---------------------------- MODULE IntakeProofs ----------------------------
(***************************************************************************)
(* Proofs about Document Intake, for any number of tenants, documents,     *)
(* concurrent requests and idempotency keys.                               *)
(***************************************************************************)
EXTENDS Intake, TLAPS

-----------------------------------------------------------------------------
(* The inductive invariant *)

\* A handler that has not ended has written neither its upload nor its event,
\* and has answered nothing.
Unwritten(i) ==
  /\ pc[i] = "done" <=> result[i] # "none"
  /\ pc[i] # "done" =>
       uploads[i].status = "none" /\ events[i] = None /\ answer[i] = None

\* What CreateDocument of d knows and has done at each of its steps.
Creating(d) ==
  /\ pc[d] \in {"new", "put", "insertDoc", "insertJob", "commit", "done"}
  /\ pc[d] # "new" => arg[d].doc = d /\ arg[d].org \in Org /\ arg[d].key = None
  /\ pc[d] \in {"new", "put", "insertDoc", "commit"} => docs[d] = NoDoc /\ jobs[d] = "none"
  /\ pc[d] = "insertJob" => docs[d].status = "created" /\ docs[d].org \in Org /\ jobs[d] = "none"
  /\ result[d] = "ok" => docs[d].org \in Org
  /\ pc[d] \in {"put", "commit"} => ContentOf(d) \in Content
  /\ pc[d] = "commit" => objects[PutRef(d, ContentOf(d))] # None

\* A request at work addresses a document that was created for its caller.
Addressed(r) ==
  /\ arg[r].org \in Org
  /\ arg[r].doc \in Doc
  /\ result[arg[r].doc] = "ok"
  /\ docs[arg[r].doc].org = arg[r].org

\* The upload that CompleteUpload of r has loaded.
Loaded(r) ==
  /\ arg[r].upload \in UploadId
  /\ uploads[arg[r].upload].status # "none"
  /\ uploads[arg[r].upload].doc = arg[r].doc
  /\ uploads[arg[r].upload].org = arg[r].org

\* What the upload operation of r knows and has done at each of its steps.
Uploading(r) ==
  /\ pc[r] \in {"new", "uploadPut", "lookup", "insert", "intentLookup", "intentInsert",
                "head", "confirm", "done"}
  /\ pc[r] \notin {"new", "done"} => Addressed(r)
  /\ pc[r] \in {"uploadPut", "lookup", "insert"} => ContentOf(r) \in Content
  /\ pc[r] \in {"lookup", "insert"} => objects[PutRef(arg[r].doc, ContentOf(r))] # None
  /\ pc[r] \in {"intentLookup", "intentInsert"} => arg[r].size \in Size
  /\ pc[r] \in {"head", "confirm"} => Loaded(r)
  /\ pc[r] = "confirm" => arg[r].size \in Size /\ objects[uploads[arg[r].upload].ref] # None

\* A row of uploads: its document was created for its organization, it names
\* the object PresignPut named until the bytes are known to be there, and then
\* an object that exists and that carries its metadata if Put named it.
RowKept(u) ==
  LET row == uploads[u]
  IN /\ row.status # "none" =>
          /\ row.doc \in Doc /\ row.org \in Org /\ row.ref \in Ref
          /\ result[row.doc] = "ok" /\ docs[row.doc].org = row.org
     /\ row.status = "pending" => row.ref \in Doc \X UploadId
     /\ row.status = "confirmed" =>
          /\ row.size \in Size
          /\ objects[row.ref] # None
          /\ row.ref \in Doc \X Content => row.ref[2] = [size |-> row.size, sum |-> row.sum]

\* Put names an object after its content; presigned URLs lead elsewhere.
Bucket ==
  /\ urls \subseteq Doc \X UploadId
  /\ \A d \in Doc, c \in Content : objects[PutRef(d, c)] \in {None, c}

\* The unique index.
KeysUnique ==
  \A u, v \in UploadId :
    /\ uploads[u].status # "none" /\ uploads[v].status # "none"
    /\ uploads[u].org = uploads[v].org /\ uploads[u].key = uploads[v].key
    /\ uploads[u].key # None
    => u = v

\* An answer names the handler's own upload or one that is on record, and
\* none of another tenant.
Answered(i) ==
  answer[i] # None =>
    /\ answer[i] = i \/ uploads[answer[i]].status # "none"
    /\ uploads[answer[i]].status # "none" => uploads[answer[i]].org = arg[i].org

\* An event is about a confirmed upload and carries its metadata.
EventTrue(i) ==
  events[i] # None =>
    LET row == uploads[events[i].upload]
    IN /\ row.status = "confirmed"
       /\ events[i].doc = row.doc /\ events[i].org = row.org /\ events[i].ref = row.ref
       /\ events[i].size = row.size /\ events[i].sum = row.sum

\* No two events are about one upload.
EventsDiffer ==
  \A i, j \in UploadId :
    events[i] # None /\ events[j] # None /\ events[i].upload = events[j].upload => i = j

\* A confirmed upload has its event.
Announced(u) ==
  uploads[u].status = "confirmed" =>
    \E i \in UploadId : events[i] # None /\ events[i].upload = u

\* A document is processing exactly when one of its uploads is confirmed.
Follows(d) ==
  /\ docs[d].status = "processing" <=>
       \E u \in UploadId : uploads[u].status = "confirmed" /\ uploads[u].doc = d
  /\ docs[d].status = "processing" <=> jobs[d] = "queued"
  /\ docs[d].status = "processing" =>
       \E u \in UploadId : /\ uploads[u].status = "confirmed" /\ uploads[u].doc = d
                           /\ docs[d].ref = uploads[u].ref

\* All that the invariant says of the handler i.
Handler(i) ==
  /\ Unwritten(i)
  /\ i \in Doc => Creating(i)
  /\ i \in Req => Uploading(i)
  /\ Answered(i)

IInv ==
  /\ TypeOK
  /\ \A i \in UploadId : Handler(i)
  /\ \A u \in UploadId : RowKept(u)
  /\ Bucket
  /\ KeysUnique
  /\ \A i \in UploadId : EventTrue(i)
  /\ EventsDiffer
  /\ \A u \in UploadId : Announced(u)
  /\ \A d \in Doc : Follows(d)

-----------------------------------------------------------------------------
(* What a step leaves alone *)

\* A step that only the handlers in A take a part in: it removes no object and
\* no row, changes the organization of no document, and touches neither the
\* upload nor the event of another handler, nor a document still being created.
Steady(A) ==
  /\ \A f \in Ref : objects[f] # None => objects'[f] # None
  /\ \A j \in UploadId \ A :
       /\ pc'[j] = pc[j] /\ arg'[j] = arg[j]
       /\ result'[j] = result[j] /\ answer'[j] = answer[j]
       /\ events'[j] = events[j]
       /\ uploads[j].status = "none" => uploads'[j].status = "none"
  /\ \A i \in A : result[i] # "ok"
  /\ \A d \in Doc \ A : result[d] # "ok" => docs'[d] = docs[d] /\ jobs'[d] = jobs[d]
  /\ \A d \in Doc : docs[d].org \in Org => docs'[d].org = docs[d].org
  /\ \A u \in UploadId : uploads[u].status # "none" =>
       /\ uploads'[u].status # "none"
       /\ uploads'[u].doc = uploads[u].doc /\ uploads'[u].org = uploads[u].org
       /\ uploads'[u].ref = uploads[u].ref

\* A steady step keeps what the invariant says of the handlers it leaves alone.
LEMMA OthersKept ==
  ASSUME IInv, NEW A \in SUBSET UploadId, Steady(A), NEW j \in UploadId \ A
  PROVE  Handler(j)'
<1>1. \A d \in Doc : result[d] = "ok" => result'[d] = "ok" /\ docs'[d].org = docs[d].org
  BY DEF IInv, Handler, Creating, Steady, UploadId
<1>2. \A f \in Ref : objects[f] # None => objects'[f] # None
  BY DEF Steady
<1>3. /\ pc'[j] = pc[j] /\ arg'[j] = arg[j]
      /\ result'[j] = result[j] /\ answer'[j] = answer[j]
      /\ events'[j] = events[j]
      /\ uploads[j].status = "none" => uploads'[j].status = "none"
  BY DEF Steady
<1>4. \A u \in UploadId : uploads[u].status # "none" =>
        /\ uploads'[u].status # "none"
        /\ uploads'[u].doc = uploads[u].doc /\ uploads'[u].org = uploads[u].org
        /\ uploads'[u].ref = uploads[u].ref
  BY DEF Steady
<1>5. Handler(j)
  BY DEF IInv
<1>6. answer[j] \in UploadId \cup {None}
  BY DEF IInv, TypeOK
<1>7. Unwritten(j)'
  BY <1>3, <1>5 DEF Handler, Unwritten
<1>8. Answered(j)'
  BY <1>3, <1>4, <1>5, <1>6 DEF Handler, Answered
<1>9. ASSUME j \in Doc PROVE Creating(j)'
  <2>1. Creating(j)
    BY <1>5, <1>9 DEF Handler
  <2>2. result[j] # "ok" => docs'[j] = docs[j] /\ jobs'[j] = jobs[j]
    BY <1>9 DEF Steady
  <2>3. ContentOf(j)' = ContentOf(j)
    BY <1>3 DEF ContentOf
  <2>4. pc[j] # "done" => result[j] # "ok"
    BY <1>5 DEF Handler, Unwritten
  <2>5. ContentOf(j) \in Content => PutRef(j, ContentOf(j)) \in Ref
    BY <1>9 DEF PutRef, Ref
  <2>6. pc[j] = "commit" => objects'[PutRef(j, ContentOf(j))] # None
    BY <1>2, <2>1, <2>5 DEF Creating
  <2>7. (pc[j] = "commit" => objects[PutRef(j, ContentOf(j))] # None)'
    BY <2>6, <1>3, <2>3 DEF PutRef
  <2> QED BY <1>1, <1>3, <1>9, <2>1, <2>2, <2>3, <2>4, <2>7 DEF Creating
<1>10. ASSUME j \in Req PROVE Uploading(j)'
  <2>1. Uploading(j)
    BY <1>5, <1>10 DEF Handler
  <2>2. Addressed(j) => Addressed(j)'
    BY <1>1, <1>3 DEF Addressed
  <2>3. Loaded(j) => Loaded(j)' /\ uploads'[arg[j].upload].ref = uploads[arg[j].upload].ref
    BY <1>3, <1>4 DEF Loaded
  <2>4. ContentOf(j)' = ContentOf(j)
    BY <1>3 DEF ContentOf
  <2>5. ASSUME pc[j] \in {"lookup", "insert"}
        PROVE  objects'[PutRef(arg[j].doc, ContentOf(j))] # None
    <3>1. ContentOf(j) \in Content /\ arg[j].doc \in Doc
      BY <2>1, <2>5 DEF Uploading, Addressed
    <3>2. PutRef(arg[j].doc, ContentOf(j)) \in Ref
      BY <3>1 DEF PutRef, Ref
    <3> QED BY <1>2, <2>1, <2>5, <3>2 DEF Uploading
  <2>6. (pc[j] \in {"lookup", "insert"} => objects[PutRef(arg[j].doc, ContentOf(j))] # None)'
    BY <2>5, <1>3, <2>4 DEF PutRef
  <2>7. ASSUME pc[j] = "confirm"
        PROVE  objects'[uploads'[arg[j].upload].ref] # None
    <3>1. Loaded(j) /\ objects[uploads[arg[j].upload].ref] # None
      BY <2>1, <2>7 DEF Uploading
    <3>2. RowKept(arg[j].upload)
      BY <3>1 DEF IInv, Loaded
    <3>3. uploads[arg[j].upload].ref \in Ref
      BY <3>1, <3>2 DEF RowKept, Loaded
    <3> QED BY <1>2, <2>3, <3>1, <3>3
  <2> QED BY <1>3, <2>1, <2>2, <2>3, <2>4, <2>6, <2>7 DEF Uploading
<1> QED BY <1>7, <1>8, <1>9, <1>10 DEF Handler

\* A steady step keeps what the invariant says of the rows it leaves alone.
LEMMA RowsKept ==
  ASSUME IInv, NEW A \in SUBSET UploadId, Steady(A),
         NEW u \in UploadId, uploads'[u] = uploads[u]
  PROVE  RowKept(u)'
<1>1. \A d \in Doc : result[d] = "ok" => result'[d] = "ok" /\ docs'[d].org = docs[d].org
  BY DEF IInv, Handler, Creating, Steady, UploadId
<1>2. \A f \in Ref : objects[f] # None => objects'[f] # None
  BY DEF Steady
<1>3. RowKept(u)
  BY DEF IInv
<1> QED BY <1>1, <1>2, <1>3 DEF RowKept

\* A steady step that writes nothing to the database keeps the invariant if it
\* keeps what that says of the bucket and of the handlers taking part.
LEMMA QuietStep ==
  ASSUME IInv, NEW A \in SUBSET UploadId, Steady(A), UNCHANGED db,
         TypeOK', Bucket', \A i \in A : Handler(i)'
  PROVE  IInv'
<1>1. \A i \in UploadId : Handler(i)'
  BY OthersKept
<1>2. \A u \in UploadId : RowKept(u)'
  BY RowsKept DEF db
<1>3. KeysUnique'
  BY DEF IInv, KeysUnique, db
<1>4. \A i \in UploadId : EventTrue(i)'
  BY DEF IInv, EventTrue, db
<1>5. EventsDiffer'
  BY DEF IInv, EventsDiffer, db
<1>6. \A u \in UploadId : Announced(u)'
  BY DEF IInv, Announced, db
<1>7. \A d \in Doc : Follows(d)'
  BY DEF IInv, Follows, db
<1> QED BY <1>1, <1>2, <1>3, <1>4, <1>5, <1>6, <1>7 DEF IInv

\* Moving a handler, and ending it, keeps the types.
LEMMA GotoTypes ==
  ASSUME TypeOK, NEW i \in UploadId, NEW l \in Label, Goto(i, l)
  PROVE  pc' \in [UploadId -> Label]
BY DEF TypeOK, Goto

\* So does every kind of ending.
LEMMA ReplyTypes ==
  ASSUME TypeOK, NEW i \in UploadId, NEW u \in UploadId \cup {None},
         Succeed(i, u) \/ Fail(i) \/ Reply(i, "aborted", None)
  PROVE  /\ pc' \in [UploadId -> Label]
         /\ result' \in [UploadId -> {"none", "ok", "error", "aborted"}]
         /\ answer' \in [UploadId -> UploadId \cup {None}]
BY DEF TypeOK, Succeed, Fail, Reply, Label

\* A handler that has not ended and that moves, or ends, leaves the others
\* alone.
LEMMA HandlerMoves ==
  ASSUME IInv, NEW i \in UploadId, pc[i] # "done", UNCHANGED db,
         \A f \in Ref : objects[f] # None => objects'[f] # None,
         \E a \in Arg : arg' = [arg EXCEPT ![i] = a],
         \/ \E l \in Label : Goto(i, l) /\ UNCHANGED ended
         \/ \E u \in UploadId \cup {None} : Succeed(i, u)
         \/ Fail(i)
         \/ Reply(i, "aborted", None)
  PROVE  Steady({i})
<1>1. TypeOK /\ Handler(i)
  BY DEF IInv
<1>2. result[i] = "none"
  BY <1>1 DEF Handler, Unwritten
<1>3. \A j \in UploadId \ {i} :
        /\ pc'[j] = pc[j] /\ arg'[j] = arg[j]
        /\ result'[j] = result[j] /\ answer'[j] = answer[j]
  BY <1>1 DEF TypeOK, Goto, ended, Succeed, Fail, Reply
<1> QED BY <1>2, <1>3 DEF Steady, db, UploadId
\* What a handler is asked for has the type Arg.
LEMMA ArgTypes ==
  ASSUME NEW org \in Org, NEW d \in Doc, NEW k \in Key \cup {None},
         NEW u \in UploadId \cup {None}, NEW n \in Size \cup {0}, NEW s \in Digest \cup {None}
  PROVE  /\ [NoArg EXCEPT !.org = org, !.doc = d, !.key = k, !.size = n, !.sum = s] \in Arg
         /\ [NoArg EXCEPT !.org = org, !.doc = d, !.upload = u, !.size = n, !.sum = s] \in Arg
         /\ [NoArg EXCEPT !.org = org, !.doc = d, !.size = n, !.sum = s] \in Arg
         /\ [NoArg EXCEPT !.org = org, !.doc = d] \in Arg
<1>1. NoArg \in Arg
  BY DEF NoArg, Arg
<1> QED BY <1>1 DEF Arg

\* Where the bucket is left alone, so is what the invariant says of it.
LEMMA BucketKept ==
  ASSUME Bucket, urls' \subseteq urls \cup (Doc \X UploadId), objects' = objects
  PROVE  Bucket'
BY DEF Bucket

-----------------------------------------------------------------------------
(* The steps that write nothing to the database *)

\* A handler goes on.
LEMMA MovingStep ==
  ASSUME IInv, NEW i \in UploadId, pc[i] # "done", UNCHANGED <<db, ended>>,
         NEW l \in Label \ {"done"}, Goto(i, l),
         \E a \in Arg : arg' = [arg EXCEPT ![i] = a],
         \A f \in Ref : objects[f] # None => objects'[f] # None,
         objects' \in [Ref -> Content \cup {None}], Bucket',
         lock' \in [Doc -> UploadId \cup {None}],
         i \in Doc => Creating(i)', i \in Req => Uploading(i)'
  PROVE  IInv'
<1>1. TypeOK /\ Handler(i)
  BY DEF IInv
<1>2. Steady({i})
  BY HandlerMoves
<1>3. TypeOK'
  <2>1. pc' \in [UploadId -> Label] /\ arg' \in [UploadId -> Arg]
    BY <1>1 DEF TypeOK, Goto
  <2>2. urls' \subseteq Ref
    BY DEF Bucket, Ref
  <2> QED BY <1>1, <2>1, <2>2 DEF TypeOK, db, ended
<1>4. pc'[i] = l
  BY <1>1 DEF TypeOK, Goto
<1>5. Unwritten(i)' /\ Answered(i)'
  BY <1>1, <1>4 DEF Handler, Unwritten, Answered, db, ended
<1>6. Handler(i)'
  BY <1>5 DEF Handler
<1> QED BY <1>2, <1>3, <1>6, QuietStep

\* A request ends, with an error or with an answer that names its own upload
\* or one of its organization.
LEMMA EndingStep ==
  ASSUME IInv, NEW r \in Req, pc[r] # "done", UNCHANGED <<db, objects>>,
         \E a \in Arg : arg' = [arg EXCEPT ![r] = a],
         urls' \subseteq urls \cup (Doc \X UploadId),
         lock' \in [Doc -> UploadId \cup {None}],
         \/ Fail(r)
         \/ Reply(r, "aborted", None)
         \/ Succeed(r, r)
         \/ \E u \in UploadId : /\ Succeed(r, u)
                               /\ uploads[u].status # "none"
                               /\ uploads[u].org = arg'[r].org
  PROVE  IInv'
<1> USE DEF UploadId
<1>1. TypeOK /\ Handler(r) /\ Bucket
  BY DEF IInv
<1>2. Steady({r})
  BY HandlerMoves
<1>3. Bucket'
  BY <1>1, BucketKept
<1>4. TypeOK'
  <2>1. pc' \in [UploadId -> Label]
    BY <1>1, ReplyTypes
  <2>2. result' \in [UploadId -> {"none", "ok", "error", "aborted"}]
    BY <1>1, ReplyTypes
  <2>3. answer' \in [UploadId -> UploadId \cup {None}]
    BY <1>1, ReplyTypes
  <2>4. arg' \in [UploadId -> Arg]
    BY <1>1 DEF TypeOK
  <2>5. urls' \subseteq Ref
    BY <1>3 DEF Bucket, Ref
  <2> QED BY <1>1, <2>1, <2>2, <2>3, <2>4, <2>5 DEF TypeOK, db
<1>5. pc'[r] = "done" /\ result'[r] \in {"ok", "error", "aborted"}
  BY <1>1 DEF TypeOK, Succeed, Fail, Reply
<1>6. Unwritten(r)'
  BY <1>5 DEF Unwritten
<1>7. Answered(r)'
  <2>1. uploads[r].status = "none"
    BY <1>1 DEF Handler, Unwritten
  <2>2. CASE Fail(r) \/ Reply(r, "aborted", None)
    BY <1>1, <2>2 DEF TypeOK, Fail, Reply, Answered
  <2>3. CASE Succeed(r, r)
    BY <1>1, <2>1, <2>3 DEF TypeOK, Succeed, Reply, Answered, db
  <2>4. ASSUME NEW u \in UploadId, Succeed(r, u),
               uploads[u].status # "none", uploads[u].org = arg'[r].org
        PROVE  Answered(r)'
    <3>1. answer'[r] = u /\ uploads' = uploads
      BY <1>1, <2>4 DEF TypeOK, Succeed, Reply, db
    <3> QED BY <3>1, <2>4 DEF Answered
  <2> QED BY <2>2, <2>3, <2>4
<1>8. Uploading(r)'
  BY <1>5 DEF Uploading
<1>9. Handler(r)'
  BY <1>6, <1>7, <1>8, IdAssumption DEF Handler
<1> QED BY <1>2, <1>3, <1>4, <1>9, QuietStep

\* A handler that keeps its arguments.
LEMMA SameArg ==
  ASSUME TypeOK, NEW i \in UploadId, arg' = arg
  PROVE  \E a \in Arg : arg' = [arg EXCEPT ![i] = a]
<1>1. arg[i] \in Arg /\ arg = [arg EXCEPT ![i] = arg[i]]
  BY DEF TypeOK
<1> QED BY <1>1

\* CreateDocument without content begins.
LEMMA CreateEmptyStep ==
  ASSUME IInv, NEW d \in Doc, CreateEmpty(d)
  PROVE  IInv'
<1> USE DEF UploadId
<1>1. PICK org \in Org : arg' = [arg EXCEPT ![d] = [NoArg EXCEPT !.org = org, !.doc = d]]
  BY DEF CreateEmpty
<1> DEFINE a == [NoArg EXCEPT !.org = org, !.doc = d]
<1>2. a \in Arg /\ arg' = [arg EXCEPT ![d] = a]
  BY <1>1, ArgTypes
<1>3. /\ TypeOK /\ Handler(d) /\ Bucket
      /\ pc[d] = "new" /\ Goto(d, "insertDoc") /\ UNCHANGED <<db, store, lock, ended>>
  BY DEF IInv, CreateEmpty
<1> HIDE DEF a
<1>4. arg'[d] = a /\ pc'[d] = "insertDoc"
  BY <1>2, <1>3 DEF TypeOK, Goto
<1>5. arg'[d].doc = d /\ arg'[d].org \in Org /\ arg'[d].key = None
  BY <1>4 DEF a, NoArg
<1>6. Creating(d)'
  BY <1>3, <1>4, <1>5 DEF Handler, Creating, Unwritten, db, store, ended
<1>7. Bucket'
  BY <1>3, BucketKept DEF store
<1>8. d \notin Req
  BY IdAssumption
<1> QED BY <1>2, <1>3, <1>6, <1>7, <1>8, MovingStep DEF store, Label, TypeOK

\* CreateDocument with content begins.
LEMMA CreateWithContentStep ==
  ASSUME IInv, NEW d \in Doc, CreateWithContent(d)
  PROVE  IInv'
<1> USE DEF UploadId
<1>1. PICK org \in Org, c \in Content :
        arg' = [arg EXCEPT ![d] = [NoArg EXCEPT !.org = org, !.doc = d,
                                                !.size = c.size, !.sum = c.sum]]
  BY DEF CreateWithContent
<1> DEFINE a == [NoArg EXCEPT !.org = org, !.doc = d, !.size = c.size, !.sum = c.sum]
<1>2. c.size \in Size /\ c.sum \in Digest
  BY DEF Content
<1>3. a \in Arg /\ arg' = [arg EXCEPT ![d] = a]
  BY <1>1, <1>2, ArgTypes
<1>4. /\ TypeOK /\ Handler(d) /\ Bucket
      /\ pc[d] = "new" /\ Goto(d, "put") /\ UNCHANGED <<db, store, lock, ended>>
  BY DEF IInv, CreateWithContent
<1>5. /\ a.doc = d /\ a.org \in Org /\ a.key = None
      /\ a.size = c.size /\ a.sum = c.sum
  BY DEF NoArg
<1> HIDE DEF a
<1>6. arg'[d] = a /\ pc'[d] = "put"
  BY <1>3, <1>4 DEF TypeOK, Goto
<1>7. ContentOf(d)' \in Content
  BY <1>2, <1>5, <1>6 DEF ContentOf, Content
<1>8. Creating(d)'
  BY <1>4, <1>5, <1>6, <1>7 DEF Handler, Creating, Unwritten, db, store, ended
<1>9. Bucket'
  BY <1>4, BucketKept DEF store
<1>10. d \notin Req
  BY IdAssumption
<1> QED BY <1>3, <1>4, <1>8, <1>9, <1>10, MovingStep DEF store, Label, TypeOK

\* Put adds an object and disturbs none.
LEMMA PutStores ==
  ASSUME TypeOK, Bucket, NEW d \in Doc, NEW c \in Content,
         objects' = [objects EXCEPT ![PutRef(d, c)] = c], urls' = urls
  PROVE  /\ objects' \in [Ref -> Content \cup {None}]
         /\ \A f \in Ref : objects[f] # None => objects'[f] # None
         /\ objects'[PutRef(d, c)] # None
         /\ Bucket'
<1>1. PutRef(d, c) \in Ref
  BY DEF PutRef, Ref
<1>2. objects \in [Ref -> Content \cup {None}] /\ None \notin Content
  BY ContentAssumption DEF TypeOK
<1>3. ASSUME NEW e \in Doc, NEW x \in Content PROVE objects'[PutRef(e, x)] \in {None, x}
  <2>1. PutRef(e, x) \in Ref
    BY DEF PutRef, Ref
  <2>2. objects[PutRef(e, x)] \in {None, x}
    BY DEF Bucket
  <2>3. CASE e = d /\ x = c
    BY <1>1, <1>2, <2>3
  <2>4. CASE ~(e = d /\ x = c)
    <3>1. PutRef(e, x) # PutRef(d, c)
      BY <2>4 DEF PutRef
    <3> QED BY <1>2, <2>1, <2>2, <3>1
  <2> QED BY <2>3, <2>4
<1>4. Bucket'
  BY <1>3 DEF Bucket
<1> QED BY <1>1, <1>2, <1>4

\* CreateDocument stores its bytes.
LEMMA CreatePutStep ==
  ASSUME IInv, NEW d \in Doc, CreatePut(d)
  PROVE  IInv'
<1> USE DEF UploadId
<1>1. /\ TypeOK /\ Handler(d) /\ Bucket
      /\ pc[d] = "put" /\ Goto(d, "commit") /\ UNCHANGED <<db, urls, arg, lock, ended>>
      /\ objects' = [objects EXCEPT ![PutRef(d, ContentOf(d))] = ContentOf(d)]
  BY DEF IInv, CreatePut
<1>2. Creating(d) /\ ContentOf(d) \in Content
  BY <1>1 DEF Handler, Creating
<1>3. /\ objects' \in [Ref -> Content \cup {None}]
      /\ \A f \in Ref : objects[f] # None => objects'[f] # None
      /\ objects'[PutRef(d, ContentOf(d))] # None
      /\ Bucket'
  BY <1>1, <1>2, PutStores
<1>4. pc'[d] = "commit"
  BY <1>1 DEF TypeOK, Goto
<1>5. ContentOf(d)' = ContentOf(d)
  BY <1>1 DEF ContentOf
<1>6. (objects[PutRef(d, ContentOf(d))] # None)'
  BY <1>3, <1>5 DEF PutRef
<1>7. Creating(d)'
  BY <1>1, <1>2, <1>4, <1>5, <1>6 DEF Creating, db, ended
<1>8. \E a \in Arg : arg' = [arg EXCEPT ![d] = a]
  BY <1>1, SameArg
<1>9. d \notin Req
  BY IdAssumption
<1> QED BY <1>1, <1>3, <1>7, <1>8, <1>9, MovingStep DEF Label, TypeOK

\* UploadDocument stores its bytes.
LEMMA UploadPutStep ==
  ASSUME IInv, NEW r \in Req, UploadPut(r)
  PROVE  IInv'
<1> USE DEF UploadId
<1>1. /\ TypeOK /\ Handler(r) /\ Bucket
      /\ pc[r] = "uploadPut" /\ Goto(r, "lookup") /\ UNCHANGED <<db, urls, arg, lock, ended>>
      /\ objects' = [objects EXCEPT ![PutRef(arg[r].doc, ContentOf(r))] = ContentOf(r)]
  BY DEF IInv, UploadPut
<1>2. Uploading(r) /\ Addressed(r) /\ arg[r].doc \in Doc /\ ContentOf(r) \in Content
  BY <1>1 DEF Handler, Uploading, Addressed
<1>3. /\ objects' \in [Ref -> Content \cup {None}]
      /\ \A f \in Ref : objects[f] # None => objects'[f] # None
      /\ objects'[PutRef(arg[r].doc, ContentOf(r))] # None
      /\ Bucket'
  BY <1>1, <1>2, PutStores
<1>4. pc'[r] = "lookup"
  BY <1>1 DEF TypeOK, Goto
<1>5. ContentOf(r)' = ContentOf(r)
  BY <1>1 DEF ContentOf
<1>6. (objects[PutRef(arg[r].doc, ContentOf(r))] # None)'
  BY <1>1, <1>3, <1>5 DEF PutRef
<1>7. Addressed(r)'
  BY <1>1, <1>2 DEF Addressed, db, ended
<1>8. Uploading(r)'
  BY <1>2, <1>4, <1>5, <1>6, <1>7 DEF Uploading
<1>9. \E a \in Arg : arg' = [arg EXCEPT ![r] = a]
  BY <1>1, SameArg
<1>10. r \notin Doc
  BY IdAssumption
<1> QED BY <1>1, <1>3, <1>8, <1>9, <1>10, MovingStep DEF Label, TypeOK

\* A document the caller sees was created, and its creator has been told.
LEMMA VisibleMeansCreated ==
  ASSUME IInv, NEW org \in Org, NEW d \in Addressable, Visible(org, d)
  PROVE  d \in Doc /\ result[d] = "ok" /\ docs[d].org = org
<1>1. d \in Doc /\ docs[d].org = org
  BY DEF Addressable, Visible
<1>2. docs[d] # NoDoc
  BY <1>1, NoneAssumption DEF NoDoc
<1> QED BY <1>1, <1>2 DEF Addressable

\* UploadDocument loads the document and compares keys.
LEMMA UploadDocumentStep ==
  ASSUME IInv, NEW r \in Req, UploadDocument(r)
  PROVE  IInv'
<1> USE DEF UploadId
<1>1. PICK org \in Org, d \in Addressable, k \in Key \cup {None}, c \in Content :
        /\ arg' = [arg EXCEPT ![r] = [NoArg EXCEPT !.org = org, !.doc = d, !.key = k,
                                                   !.size = c.size, !.sum = c.sum]]
        /\ \/ ~Visible(org, d) /\ Fail(r)
           \/ /\ Visible(org, d)
              /\ \E u \in UploadsOf(org, d) \cap WithKey(org, k) : Succeed(r, u)
           \/ /\ Visible(org, d)
              /\ UploadsOf(org, d) \cap WithKey(org, k) = {}
              /\ Goto(r, "uploadPut") /\ UNCHANGED ended
  BY Zenon DEF UploadDocument
<1> DEFINE a == [NoArg EXCEPT !.org = org, !.doc = d, !.key = k,
                              !.size = c.size, !.sum = c.sum]
<1>2. c.size \in Size /\ c.sum \in Digest /\ d \in Doc
  BY DEF Content, Addressable
<1>3. a \in Arg
  BY <1>2, ArgTypes
<1>4. /\ TypeOK /\ Handler(r) /\ Bucket
      /\ pc[r] = "new" /\ UNCHANGED <<db, store, lock>>
  BY DEF IInv, UploadDocument
<1>5. a.doc = d /\ a.org = org /\ a.size = c.size /\ a.sum = c.sum
  BY DEF NoArg
<1> HIDE DEF a
<1>6. arg' = [arg EXCEPT ![r] = a] /\ arg'[r] = a
  BY <1>1, <1>4 DEF TypeOK, a
<1>7. /\ lock' \in [Doc -> UploadId \cup {None}]
      /\ urls' \subseteq urls \cup (Doc \X UploadId)
      /\ objects' = objects
  BY <1>4 DEF TypeOK, store
<1>8. CASE Fail(r)
  BY <1>3, <1>4, <1>6, <1>7, <1>8, EndingStep
<1>9. CASE \E u \in UploadsOf(org, d) \cap WithKey(org, k) : Succeed(r, u)
  <2>1. PICK u \in UploadId : /\ Succeed(r, u)
                              /\ uploads[u].status # "none" /\ uploads[u].org = arg'[r].org
    BY <1>5, <1>6, <1>9 DEF UploadsOf
  <2> QED BY <1>3, <1>4, <1>6, <1>7, <2>1, EndingStep
<1>10. CASE Visible(org, d) /\ Goto(r, "uploadPut") /\ UNCHANGED ended
  <2>1. result[d] = "ok" /\ docs[d].org = org
    BY <1>10, VisibleMeansCreated
  <2>2. pc'[r] = "uploadPut" /\ r \notin Doc
    BY <1>4, <1>10, IdAssumption DEF TypeOK, Goto
  <2>3. Addressed(r)'
    BY <1>2, <1>4, <1>5, <1>6, <1>10, <2>1 DEF Addressed, db, ended
  <2>4. ContentOf(r)' \in Content
    BY <1>2, <1>5, <1>6 DEF ContentOf, Content
  <2>5. Uploading(r)'
    BY <2>2, <2>3, <2>4 DEF Uploading
  <2>6. Bucket'
    BY <1>4, <1>7, BucketKept
  <2> QED BY <1>3, <1>4, <1>6, <1>7, <1>10, <2>2, <2>5, <2>6, MovingStep DEF Label, TypeOK
<1> QED BY <1>1, <1>8, <1>9, <1>10

\* UploadDocument's transaction locks the document and looks for the key.
LEMMA UploadLookupStep ==
  ASSUME IInv, NEW r \in Req, UploadLookup(r)
  PROVE  IInv'
<1> USE DEF UploadId
<1>1. /\ TypeOK /\ Handler(r) /\ Bucket
      /\ pc[r] = "lookup" /\ UNCHANGED <<db, store, arg>>
  BY DEF IInv, UploadLookup
<1>2. Uploading(r) /\ Addressed(r)
  BY <1>1 DEF Handler, Uploading
<1>3. \E a \in Arg : arg' = [arg EXCEPT ![r] = a]
  BY <1>1, SameArg
<1>4. urls' \subseteq urls \cup (Doc \X UploadId) /\ objects' = objects /\ Bucket'
  BY <1>1, BucketKept DEF store
<1>5. CASE Succeed(r, r) /\ UNCHANGED lock
  BY <1>1, <1>3, <1>4, <1>5, EndingStep DEF TypeOK
<1>6. CASE /\ lock' = [lock EXCEPT ![arg[r].doc] = r]
           /\ Goto(r, "insert") /\ UNCHANGED ended
  <2>1. pc'[r] = "insert" /\ r \notin Doc /\ lock' \in [Doc -> UploadId \cup {None}]
    BY <1>1, <1>6, IdAssumption DEF TypeOK, Goto
  <2>2. Addressed(r)' /\ ContentOf(r)' = ContentOf(r)
    BY <1>1, <1>2, <1>6 DEF Addressed, ContentOf, db, ended
  <2>3. (objects[PutRef(arg[r].doc, ContentOf(r))] # None)'
    BY <1>1, <1>2, <1>4, <2>2 DEF Uploading, PutRef
  <2>4. Uploading(r)'
    BY <1>1, <1>2, <2>1, <2>2, <2>3 DEF Uploading
  <2> QED BY <1>1, <1>3, <1>4, <1>6, <2>1, <2>4, MovingStep DEF Label, TypeOK
<1> QED BY <1>5, <1>6 DEF UploadLookup

\* CreateUploadIntent loads the document.
LEMMA CreateUploadIntentStep ==
  ASSUME IInv, NEW r \in Req, CreateUploadIntent(r)
  PROVE  IInv'
<1> USE DEF UploadId
<1>1. PICK org \in Org, d \in Addressable, k \in Key \cup {None}, n \in Size,
           s \in Digest \cup {None} :
        /\ arg' = [arg EXCEPT ![r] = [NoArg EXCEPT !.org = org, !.doc = d, !.key = k,
                                                   !.size = n, !.sum = s]]
        /\ \/ ~Visible(org, d) /\ Fail(r)
           \/ Visible(org, d) /\ Goto(r, "intentLookup") /\ UNCHANGED ended
  BY Zenon DEF CreateUploadIntent
<1> DEFINE a == [NoArg EXCEPT !.org = org, !.doc = d, !.key = k, !.size = n, !.sum = s]
<1>2. d \in Doc
  BY DEF Addressable
<1>3. a \in Arg
  BY <1>2, ArgTypes
<1>4. /\ TypeOK /\ Handler(r) /\ Bucket
      /\ pc[r] = "new" /\ UNCHANGED <<db, store, lock>>
  BY DEF IInv, CreateUploadIntent
<1>5. a.doc = d /\ a.org = org /\ a.size = n
  BY DEF NoArg
<1> HIDE DEF a
<1>6. arg' = [arg EXCEPT ![r] = a] /\ arg'[r] = a
  BY <1>1, <1>4 DEF TypeOK, a
<1>7. /\ lock' \in [Doc -> UploadId \cup {None}]
      /\ urls' \subseteq urls \cup (Doc \X UploadId)
      /\ objects' = objects
  BY <1>4 DEF TypeOK, store
<1>8. CASE Fail(r)
  BY <1>3, <1>4, <1>6, <1>7, <1>8, EndingStep
<1>9. CASE Visible(org, d) /\ Goto(r, "intentLookup") /\ UNCHANGED ended
  <2>1. result[d] = "ok" /\ docs[d].org = org
    BY <1>9, VisibleMeansCreated
  <2>2. pc'[r] = "intentLookup" /\ r \notin Doc
    BY <1>4, <1>9, IdAssumption DEF TypeOK, Goto
  <2>3. Addressed(r)'
    BY <1>2, <1>4, <1>5, <1>6, <1>9, <2>1 DEF Addressed, db, ended
  <2>4. Uploading(r)'
    BY <1>5, <1>6, <2>2, <2>3 DEF Uploading
  <2>5. Bucket'
    BY <1>4, <1>7, BucketKept
  <2> QED BY <1>3, <1>4, <1>6, <1>7, <1>9, <2>2, <2>4, <2>5, MovingStep DEF Label, TypeOK
<1> QED BY <1>1, <1>8, <1>9

\* CreateUploadIntent looks for the key, and may answer with a URL for the
\* upload that has it.
LEMMA IntentLookupStep ==
  ASSUME IInv, NEW r \in Req, IntentLookup(r)
  PROVE  IInv'
<1> USE DEF UploadId
<1>1. /\ TypeOK /\ Handler(r) /\ Bucket
      /\ pc[r] = "intentLookup" /\ UNCHANGED <<db, objects, arg, lock>>
  BY DEF IInv, IntentLookup
<1>2. Uploading(r) /\ Addressed(r) /\ arg[r].doc \in Doc
  BY <1>1 DEF Handler, Uploading, Addressed
<1>3. \E a \in Arg : arg' = [arg EXCEPT ![r] = a]
  BY <1>1, SameArg
<1>4. ASSUME NEW u \in WithKey(arg[r].org, arg[r].key),
             urls' = urls \cup {PresignRef(arg[r].doc, u)}, Succeed(r, u)
      PROVE  IInv'
  <2>1. u \in UploadId /\ uploads[u].status # "none" /\ uploads[u].org = arg'[r].org
    BY <1>1 DEF WithKey
  <2>2. urls' \subseteq urls \cup (Doc \X UploadId)
    BY <1>2, <1>4, <2>1 DEF PresignRef
  <2> QED BY <1>1, <1>3, <1>4, <2>1, <2>2, EndingStep DEF TypeOK
<1>5. CASE Goto(r, "intentInsert") /\ UNCHANGED <<urls, ended>>
  <2>1. pc'[r] = "intentInsert" /\ r \notin Doc
    BY <1>1, <1>5, IdAssumption DEF TypeOK, Goto
  <2>2. Addressed(r)'
    BY <1>1, <1>2, <1>5 DEF Addressed, db, ended
  <2>3. Uploading(r)'
    BY <1>1, <1>2, <2>1, <2>2 DEF Uploading
  <2>4. Bucket'
    BY <1>1, <1>5, BucketKept
  <2> QED BY <1>1, <1>3, <1>5, <2>1, <2>3, <2>4, MovingStep DEF Label, TypeOK
<1> QED BY <1>4, <1>5 DEF IntentLookup

\* CompleteUpload loads the upload it is to confirm.
LEMMA CompleteUploadStep ==
  ASSUME IInv, NEW r \in Req, CompleteUpload(r)
  PROVE  IInv'
<1> USE DEF UploadId
<1>1. PICK org \in Org, d \in Addressable, u \in UploadId, n \in Size \cup {0},
           s \in Digest \cup {None} :
        /\ arg' = [arg EXCEPT ![r] =
             [NoArg EXCEPT !.org = org, !.doc = d, !.upload = u, !.size = n,
                           !.sum = IF s # None THEN s ELSE uploads[u].sum]]
        /\ \/ (~Visible(org, d) \/ u \notin UploadsOf(org, d)) /\ Fail(r)
           \/ /\ Visible(org, d) /\ u \in UploadsOf(org, d)
              /\ uploads[u].status = "confirmed"
              /\ Succeed(r, u)
           \/ /\ Visible(org, d) /\ u \in UploadsOf(org, d)
              /\ uploads[u].status = "pending"
              /\ Goto(r, "head") /\ UNCHANGED ended
  BY Zenon DEF CompleteUpload
<1> DEFINE sum == IF s # None THEN s ELSE uploads[u].sum
           a == [NoArg EXCEPT !.org = org, !.doc = d, !.upload = u, !.size = n, !.sum = sum]
<1>2. /\ TypeOK /\ Handler(r) /\ Bucket
      /\ pc[r] = "new" /\ UNCHANGED <<db, store, lock>>
  BY DEF IInv, CompleteUpload
<1>3. d \in Doc /\ sum \in Digest \cup {None}
  BY <1>2 DEF Addressable, TypeOK, UploadRow
<1>4. arg' = [arg EXCEPT ![r] = a]
  BY <1>1
<1> HIDE DEF sum
<1>5. a \in Arg
  BY <1>3, ArgTypes
<1>6. a.doc = d /\ a.org = org /\ a.upload = u
  BY DEF NoArg
<1> HIDE DEF a
<1>7. arg'[r] = a
  BY <1>2, <1>4 DEF TypeOK
<1>8. /\ lock' \in [Doc -> UploadId \cup {None}]
      /\ urls' \subseteq urls \cup (Doc \X UploadId)
      /\ objects' = objects
  BY <1>2 DEF TypeOK, store
<1>9. CASE Fail(r)
  BY <1>2, <1>4, <1>5, <1>8, <1>9, EndingStep
<1>10. CASE u \in UploadsOf(org, d) /\ Succeed(r, u)
  <2>1. uploads[u].status # "none" /\ uploads[u].org = arg'[r].org
    BY <1>6, <1>7, <1>10 DEF UploadsOf
  <2> QED BY <1>2, <1>4, <1>5, <1>8, <1>10, <2>1, EndingStep
<1>11. CASE /\ Visible(org, d) /\ u \in UploadsOf(org, d)
            /\ Goto(r, "head") /\ UNCHANGED ended
  <2>1. result[d] = "ok" /\ docs[d].org = org
    BY <1>11, VisibleMeansCreated
  <2>2. pc'[r] = "head" /\ r \notin Doc
    BY <1>2, <1>11, IdAssumption DEF TypeOK, Goto
  <2>3. Addressed(r)'
    BY <1>2, <1>3, <1>6, <1>7, <1>11, <2>1 DEF Addressed, db, ended
  <2>4. Loaded(r)'
    BY <1>2, <1>6, <1>7, <1>11 DEF Loaded, UploadsOf, db
  <2>5. Uploading(r)'
    BY <2>2, <2>3, <2>4 DEF Uploading
  <2>6. Bucket'
    BY <1>2, <1>8, BucketKept
  <2> QED BY <1>2, <1>4, <1>5, <1>8, <1>11, <2>2, <2>5, <2>6, MovingStep DEF Label, TypeOK
<1> QED BY <1>1, <1>9, <1>10, <1>11

\* CompleteUpload examines the object.
LEMMA CompleteHeadStep ==
  ASSUME IInv, NEW r \in Req, CompleteHead(r)
  PROVE  IInv'
<1> USE DEF UploadId
<1> DEFINE object == HeadObject(r)
<1>1. /\ TypeOK /\ Handler(r) /\ Bucket
      /\ pc[r] = "head" /\ UNCHANGED <<db, store, lock>>
  BY DEF IInv, CompleteHead
<1>2. Uploading(r) /\ Addressed(r) /\ Loaded(r)
  BY <1>1 DEF Handler, Uploading
<1>3. /\ lock' \in [Doc -> UploadId \cup {None}]
      /\ urls' \subseteq urls \cup (Doc \X UploadId)
      /\ objects' = objects /\ Bucket'
  BY <1>1, BucketKept DEF TypeOK, store
<1>4. CASE Fail(r) /\ UNCHANGED arg
  <2>1. \E a \in Arg : arg' = [arg EXCEPT ![r] = a]
    BY <1>1, <1>4, SameArg
  <2> QED BY <1>1, <1>3, <1>4, <2>1, EndingStep
<1>5. CASE /\ object # None
           /\ arg' = [arg EXCEPT ![r].size = object.size]
           /\ Goto(r, "confirm") /\ UNCHANGED ended
  <2> DEFINE a == [arg[r] EXCEPT !.size = object.size]
  <2>1. RowKept(arg[r].upload) /\ uploads[arg[r].upload].ref \in Ref
    BY <1>2 DEF IInv, Loaded, RowKept
  <2>2. object \in Content
    BY <1>1, <1>5, <2>1 DEF TypeOK, HeadObject
  <2>3. object.size \in Size
    BY <2>2 DEF Content
  <2>4. arg[r] \in Arg
    BY <1>1 DEF TypeOK
  <2>5. a \in Arg /\ a.size \in Size /\ a.org = arg[r].org /\ a.doc = arg[r].doc
        /\ a.upload = arg[r].upload
    BY <2>3, <2>4 DEF Arg
  <2>6. arg' = [arg EXCEPT ![r] = a] /\ arg'[r] = a
    BY <1>1, <1>5 DEF TypeOK
  <2> HIDE DEF a
  <2>7. pc'[r] = "confirm" /\ r \notin Doc
    BY <1>1, <1>5, IdAssumption DEF TypeOK, Goto
  <2>8. Addressed(r)' /\ Loaded(r)'
    BY <1>1, <1>2, <1>5, <2>5, <2>6 DEF Addressed, Loaded, db, ended
  <2>9. (objects[uploads[arg[r].upload].ref] # None)'
    BY <1>1, <1>3, <1>5, <2>5, <2>6 DEF HeadObject, db
  <2>10. Uploading(r)'
    BY <2>5, <2>6, <2>7, <2>8, <2>9 DEF Uploading
  <2> QED BY <1>1, <1>3, <1>5, <2>5, <2>6, <2>7, <2>10, MovingStep DEF Label, TypeOK
<1> QED BY <1>4, <1>5 DEF CompleteHead

\* A handler that stops has written nothing, and stays where it got to.
LEMMA AbortStep ==
  ASSUME IInv, NEW i \in UploadId, Abort(i)
  PROVE  IInv'
<1>1. /\ TypeOK /\ Handler(i) /\ Bucket
      /\ pc[i] \notin {"new", "done"} /\ Reply(i, "aborted", None)
      /\ UNCHANGED <<db, store, arg>>
  BY DEF IInv, Abort
<1>2. \E a \in Arg : arg' = [arg EXCEPT ![i] = a]
  BY <1>1, SameArg
<1>3. lock' \in [Doc -> UploadId \cup {None}]
  BY <1>1 DEF Abort, TypeOK
<1>4. CASE i \in Req
  BY <1>1, <1>2, <1>3, <1>4, EndingStep DEF store
<1>5. CASE i \in Doc
  <2>1. Steady({i})
    BY <1>1, <1>2, HandlerMoves DEF store
  <2>2. pc'[i] = "done" /\ result'[i] = "aborted" /\ answer'[i] = None
    BY <1>1 DEF TypeOK, Reply
  <2>3. TypeOK'
    BY <1>1, <1>3, ReplyTypes DEF TypeOK, db, store
  <2>4. Creating(i)'
    BY <1>1, <1>5, <2>2 DEF Handler, Creating
  <2>5. Handler(i)'
    BY <1>5, <2>2, <2>4, IdAssumption DEF Handler, Unwritten, Answered
  <2>6. Bucket'
    BY <1>1, BucketKept DEF store
  <2> QED BY <1>1, <2>1, <2>3, <2>5, <2>6, QuietStep
<1> QED BY <1>4, <1>5 DEF UploadId

\* What a client does with a presigned URL, and the expiry of one.
LEMMA ClientStep ==
  ASSUME IInv, NEW f \in Ref, UrlExpires(f) \/ \E c \in Content : ClientPut(f, c)
  PROVE  IInv'
<1>1. TypeOK /\ Bucket
  BY DEF IInv
<1>2. UNCHANGED <<db, pc, arg, lock, result, answer>>
  BY DEF UrlExpires, ClientPut, ended
<1>3. /\ urls' \subseteq urls
      /\ objects' \in [Ref -> Content \cup {None}]
      /\ \A g \in Ref : objects[g] # None => objects'[g] # None
      /\ \A g \in Ref : g \notin Doc \X UploadId => objects'[g] = objects[g]
  <2>1. CASE UrlExpires(f)
    BY <1>1, <2>1 DEF UrlExpires, TypeOK
  <2>2. ASSUME NEW c \in Content, ClientPut(f, c)
        PROVE  <1>3
    BY <1>1, <2>2, ContentAssumption DEF ClientPut, TypeOK, Bucket
  <2> QED BY <2>1, <2>2
<1>4. Bucket'
  <2>1. ASSUME NEW d \in Doc, NEW c \in Content
        PROVE  PutRef(d, c) \in Ref /\ PutRef(d, c) \notin Doc \X UploadId
    BY ContentAssumption DEF PutRef, Ref
  <2>2. ASSUME NEW d \in Doc, NEW c \in Content
        PROVE  objects'[PutRef(d, c)] \in {None, c}
    <3>1. objects'[PutRef(d, c)] = objects[PutRef(d, c)]
      BY <1>3, <2>1
    <3> QED BY <1>1, <3>1 DEF Bucket
  <2>3. urls' \subseteq Doc \X UploadId
    BY <1>1, <1>3 DEF Bucket
  <2> QED BY <2>2, <2>3 DEF Bucket
<1>5. TypeOK'
  BY <1>1, <1>2, <1>3 DEF TypeOK, db
<1>6. Steady({})
  BY <1>2, <1>3 DEF Steady, db
<1> QED BY <1>2, <1>4, <1>5, <1>6, QuietStep

-----------------------------------------------------------------------------
(* The steps that write to the database *)

\* A document whose creator has not been told of it has no upload.
LEMMA NoUploadYet ==
  ASSUME IInv, NEW d \in Doc, result[d] # "ok",
         NEW u \in UploadId, uploads[u].status # "none"
  PROVE  uploads[u].doc # d
BY DEF IInv, RowKept

\* CreateDocument's first statement.
LEMMA InsertDocStep ==
  ASSUME IInv, NEW d \in Doc, InsertDoc(d)
  PROVE  IInv'
<1> USE DEF UploadId
<1> DEFINE row == [org |-> arg[d].org, status |-> "created", ref |-> None]
<1>1. /\ TypeOK /\ Handler(d) /\ Bucket
      /\ pc[d] = "insertDoc" /\ Goto(d, "insertJob")
      /\ docs' = [docs EXCEPT ![d] = row]
      /\ UNCHANGED <<jobs, uploads, events, store, arg, lock, ended>>
  BY DEF IInv, InsertDoc
<1>2. /\ arg[d].doc = d /\ arg[d].org \in Org /\ arg[d].key = None
      /\ docs[d] = NoDoc /\ jobs[d] = "none"
      /\ result[d] = "none"
  BY <1>1 DEF Handler, Creating, Unwritten
<1>3. row \in DocRow
  BY <1>2 DEF DocRow
<1>4. docs'[d] = row /\ \A e \in Doc \ {d} : docs'[e] = docs[e]
  BY <1>1 DEF TypeOK
<1>5. pc'[d] = "insertJob" /\ \A j \in UploadId \ {d} : pc'[j] = pc[j]
  BY <1>1 DEF TypeOK, Goto
<1>6. TypeOK'
  BY <1>1, <1>3, GotoTypes DEF TypeOK, store, ended, Label
<1>7. Steady({d})
  <2>1. docs[d].org \notin Org
    BY <1>2, NoneAssumption DEF NoDoc
  <2> QED BY <1>1, <1>2, <1>4, <1>5, <2>1 DEF Steady, store, ended
<1>8. Creating(d)'
  BY <1>1, <1>2, <1>4, <1>5 DEF Creating, ended
<1>9. Handler(d)'
  BY <1>1, <1>5, <1>8, IdAssumption DEF Handler, Unwritten, Answered, ended
<1>10. \A i \in UploadId : Handler(i)'
  BY <1>7, <1>9, OthersKept
<1>11. \A u \in UploadId : RowKept(u)'
  BY <1>1, <1>7, RowsKept
<1>12. Bucket'
  BY <1>1, BucketKept DEF store
<1>13. KeysUnique' /\ EventsDiffer'
  BY <1>1 DEF IInv, KeysUnique, EventsDiffer
<1>14. \A i \in UploadId : EventTrue(i)' /\ Announced(i)'
  BY <1>1 DEF IInv, EventTrue, Announced
<1>15. ASSUME NEW e \in Doc PROVE Follows(e)'
  <2>1. CASE e = d
    <3>1. \A u \in UploadId : uploads[u].status = "confirmed" => uploads[u].doc # d
      BY <1>2, NoUploadYet
    <3> QED BY <1>1, <1>2, <1>4, <2>1, <3>1 DEF Follows
  <2>2. CASE e # d
    BY <1>1, <1>4, <2>2 DEF IInv, Follows
  <2> QED BY <2>1, <2>2
<1> QED BY <1>6, <1>10, <1>11, <1>12, <1>13, <1>14, <1>15 DEF IInv

\* CreateDocument's second statement, outside of a transaction.
LEMMA InsertJobStep ==
  ASSUME IInv, NEW d \in Doc, InsertJob(d)
  PROVE  IInv'
<1> USE DEF UploadId
<1>1. /\ TypeOK /\ Handler(d) /\ Bucket
      /\ pc[d] = "insertJob" /\ Succeed(d, None)
      /\ jobs' = [jobs EXCEPT ![d] = "pending"]
      /\ UNCHANGED <<docs, uploads, events, store, arg, lock>>
  BY DEF IInv, InsertJob
<1>2. /\ arg[d].doc = d /\ arg[d].org \in Org /\ arg[d].key = None
      /\ docs[d].status = "created" /\ docs[d].org \in Org
      /\ result[d] = "none"
  BY <1>1 DEF Handler, Creating, Unwritten
<1>3. /\ pc'[d] = "done" /\ result'[d] = "ok" /\ answer'[d] = None
      /\ \A j \in UploadId \ {d} :
           pc'[j] = pc[j] /\ result'[j] = result[j] /\ answer'[j] = answer[j]
  BY <1>1 DEF TypeOK, Succeed, Reply
<1>4. jobs'[d] = "pending" /\ \A e \in Doc \ {d} : jobs'[e] = jobs[e]
  BY <1>1 DEF TypeOK
<1>5. TypeOK'
  BY <1>1, ReplyTypes DEF TypeOK, store
<1>6. Steady({d})
  BY <1>1, <1>2, <1>3, <1>4 DEF Steady, store
<1>7. Creating(d)'
  BY <1>1, <1>2, <1>3 DEF Creating
<1>8. Handler(d)'
  BY <1>3, <1>7, IdAssumption DEF Handler, Unwritten, Answered
<1>9. \A i \in UploadId : Handler(i)'
  BY <1>6, <1>8, OthersKept
<1>10. \A u \in UploadId : RowKept(u)'
  BY <1>1, <1>6, RowsKept
<1>11. Bucket'
  BY <1>1, BucketKept DEF store
<1>12. KeysUnique' /\ EventsDiffer'
  BY <1>1 DEF IInv, KeysUnique, EventsDiffer
<1>13. \A i \in UploadId : EventTrue(i)' /\ Announced(i)'
  BY <1>1 DEF IInv, EventTrue, Announced
<1>14. ASSUME NEW e \in Doc PROVE Follows(e)'
  <2>1. CASE e = d
    BY <1>1, <1>2, <1>4, <2>1 DEF IInv, Follows
  <2>2. CASE e # d
    BY <1>1, <1>4, <2>2 DEF IInv, Follows
  <2> QED BY <2>1, <2>2
<1> QED BY <1>5, <1>9, <1>10, <1>11, <1>12, <1>13, <1>14 DEF IInv

\* A handler inserts its upload as confirmed, with the event, and queues the
\* document, which it creates in the same transaction or was given.
LEMMA AcceptStep ==
  ASSUME IInv, NEW i \in UploadId, pc[i] \notin {"new", "done"},
         NEW d \in Doc, NEW row \in UploadRow,
         row.status = "confirmed", row.doc = d, row.org \in Org, row.ref \in Ref,
         row.size \in Size, objects[row.ref] # None,
         row.ref \in Doc \X Content => row.ref[2] = [size |-> row.size, sum |-> row.sum],
         WithKey(row.org, row.key) = {}, arg[i].org = row.org,
         (i = d /\ docs[d] = NoDoc) \/ (i \in Req /\ result[d] = "ok" /\ docs[d].org = row.org),
         uploads' = [uploads EXCEPT ![i] = row],
         events' = [events EXCEPT ![i] = EventOf(i, d, row.org, row.ref, row.size, row.sum)],
         docs' \in [Doc -> DocRow], \A e \in Doc \ {d} : docs'[e] = docs[e],
         docs'[d].org = row.org, docs'[d].status = "processing", docs'[d].ref = row.ref,
         jobs' = [jobs EXCEPT ![d] = "queued"],
         Succeed(i, None) \/ Succeed(i, i),
         UNCHANGED <<store, arg>>, lock' \in [Doc -> UploadId \cup {None}]
  PROVE  IInv'
<1> DEFINE e == EventOf(i, d, row.org, row.ref, row.size, row.sum)
<1>1. TypeOK /\ Handler(i) /\ Bucket
  BY DEF IInv
<1>2. /\ uploads[i].status = "none" /\ events[i] = None /\ result[i] = "none"
      /\ answer[i] = None
  BY <1>1 DEF Handler, Unwritten
<1>3. /\ e \in Event /\ e # None
      /\ e.upload = i /\ e.doc = d /\ e.org = row.org /\ e.ref = row.ref
      /\ e.size = row.size /\ e.sum = row.sum
  <2>1. row.sum \in Digest \cup {None}
    BY DEF UploadRow
  <2>2. e \in Event
    BY <2>1 DEF EventOf, Event
  <2> QED BY <2>2, EventAssumption DEF EventOf
<1> HIDE DEF e
<1>4. /\ events'[i] = e /\ \A j \in UploadId \ {i} : events'[j] = events[j]
      /\ events' \in [UploadId -> Event \cup {None}]
  BY <1>1, <1>3 DEF TypeOK, e
<1>5. /\ uploads'[i] = row /\ \A u \in UploadId \ {i} : uploads'[u] = uploads[u]
      /\ uploads' \in [UploadId -> UploadRow]
  BY <1>1 DEF TypeOK
<1>6. /\ pc'[i] = "done" /\ result'[i] = "ok" /\ answer'[i] \in {i, None}
      /\ \A j \in UploadId \ {i} :
           pc'[j] = pc[j] /\ result'[j] = result[j] /\ answer'[j] = answer[j]
  BY <1>1 DEF TypeOK, Succeed, Reply
<1>7. jobs'[d] = "queued" /\ \A x \in Doc \ {d} : jobs'[x] = jobs[x]
  BY <1>1 DEF TypeOK
<1>8. TypeOK'
  <2>1. /\ pc' \in [UploadId -> Label]
        /\ result' \in [UploadId -> {"none", "ok", "error", "aborted"}]
        /\ answer' \in [UploadId -> UploadId \cup {None}]
    BY <1>1, ReplyTypes
  <2>2. jobs' \in [Doc -> {"none", "pending", "queued"}]
    BY <1>1 DEF TypeOK
  <2> QED BY <1>1, <1>4, <1>5, <2>1, <2>2 DEF TypeOK, store
<1>9. i \in Doc => i = d
  BY IdAssumption
<1>10. docs[d].org \in Org => docs[d].org = row.org
  BY NoneAssumption DEF NoDoc
<1>11. result'[d] = "ok"
  BY <1>6, <1>9 DEF UploadId
<1>12. Steady({i})
  BY <1>2, <1>4, <1>5, <1>6, <1>7, <1>9, <1>10 DEF Steady, store
<1>13. Handler(i)'
  <2>1. Unwritten(i)' /\ Answered(i)'
    BY <1>5, <1>6 DEF Unwritten, Answered
  <2>2. ASSUME i \in Doc PROVE Creating(i)'
    BY <1>1, <1>6, <1>9, <2>2 DEF Handler, Creating
  <2>3. ASSUME i \in Req PROVE Uploading(i)'
    BY <1>6 DEF Uploading
  <2> QED BY <2>1, <2>2, <2>3 DEF Handler
<1>14. \A j \in UploadId : Handler(j)'
  BY <1>12, <1>13, OthersKept
<1>15. \A u \in UploadId : RowKept(u)'
  <2>1. RowKept(i)'
    BY <1>5, <1>11 DEF RowKept, store
  <2> QED BY <1>5, <1>12, <2>1, RowsKept
<1>16. Bucket'
  BY <1>1, BucketKept DEF store
<1>17. KeysUnique'
  <2>1. \A u \in UploadId : uploads[u].status # "none" /\ uploads[u].org = row.org
                           => row.key = None \/ uploads[u].key # row.key
    BY DEF WithKey
  <2> QED BY <1>5, <2>1 DEF IInv, KeysUnique
<1>18. ASSUME NEW j \in UploadId PROVE EventTrue(j)'
  <2>1. CASE j = i
    BY <1>3, <1>4, <1>5, <2>1 DEF EventTrue
  <2>2. CASE j # i
    <3>1. events[j] # None => events[j].upload \in UploadId
      BY <1>1 DEF TypeOK, Event
    <3> QED BY <1>2, <1>4, <1>5, <2>2, <3>1 DEF IInv, EventTrue
  <2> QED BY <2>1, <2>2
<1>19. EventsDiffer'
  <2>1. \A j \in UploadId : events[j] # None => events[j].upload # i
    BY <1>2 DEF IInv, EventTrue
  <2> QED BY <1>3, <1>4, <2>1 DEF IInv, EventsDiffer
<1>20. \A u \in UploadId : Announced(u)'
  BY <1>2, <1>3, <1>4, <1>5 DEF IInv, Announced
<1>21. ASSUME NEW x \in Doc PROVE Follows(x)'
  <2>1. CASE x = d
    BY <1>5, <1>7, <2>1 DEF Follows
  <2>2. CASE x # d
    <3>1. Follows(x)
      BY DEF IInv
    <3>2. \A u \in UploadId : /\ uploads'[u].doc = x /\ uploads'[u].status = "confirmed"
                             <=> uploads[u].doc = x /\ uploads[u].status = "confirmed"
      BY <1>2, <1>5, <2>2
    <3>3. \A u \in UploadId : uploads[u].status = "confirmed" => uploads'[u].ref = uploads[u].ref
      BY <1>2, <1>5
    <3>4. docs'[x] = docs[x] /\ jobs'[x] = jobs[x]
      BY <1>7, <2>2
    <3> QED BY <3>1, <3>2, <3>3, <3>4 DEF Follows
  <2> QED BY <2>1, <2>2
<1> QED BY <1>8, <1>14, <1>15, <1>16, <1>17, <1>18, <1>19, <1>20, <1>21 DEF IInv

\* The row a handler inserts as confirmed.
LEMMA ConfirmedRowTypes ==
  ASSUME TypeOK, NEW i \in UploadId, NEW ref \in Ref
  PROVE  /\ ConfirmedRow(i, ref) \in UploadRow
         /\ ConfirmedRow(i, ref).status = "confirmed"
         /\ ConfirmedRow(i, ref).doc = arg[i].doc
         /\ ConfirmedRow(i, ref).org = arg[i].org
         /\ ConfirmedRow(i, ref).key = arg[i].key
         /\ ConfirmedRow(i, ref).ref = ref
         /\ ConfirmedRow(i, ref).size = arg[i].size
         /\ ConfirmedRow(i, ref).sum = arg[i].sum
BY DEF TypeOK, Arg, ConfirmedRow, UploadRow

\* Queue changes one document, and of it only what it sets.
LEMMA QueueWrites ==
  ASSUME TypeOK, NEW d \in Doc, NEW ref \in Ref, Queue(d, ref)
  PROVE  /\ docs' \in [Doc -> DocRow]
         /\ \A x \in Doc \ {d} : docs'[x] = docs[x]
         /\ docs'[d].org = docs[d].org
         /\ docs'[d].status = "processing" /\ docs'[d].ref = ref
         /\ jobs' = [jobs EXCEPT ![d] = "queued"]
<1> DEFINE row == [docs[d] EXCEPT !.status = "processing", !.ref = ref]
<1>1. docs \in [Doc -> DocRow] /\ docs[d] \in DocRow
  BY DEF TypeOK
<1>2. docs' = [docs EXCEPT ![d] = row]
  BY DEF Queue
<1>3. /\ row \in DocRow /\ row.org = docs[d].org
      /\ row.status = "processing" /\ row.ref = ref
  BY <1>1 DEF DocRow
<1> HIDE DEF row
<1>4. docs'[d] = row
  BY <1>1, <1>2
<1> QED BY <1>1, <1>2, <1>3, <1>4 DEF Queue

\* CreateDocumentAndQueue commits document, job, upload and event together.
LEMMA CreateCommitStep ==
  ASSUME IInv, NEW d \in Doc, CreateCommit(d)
  PROVE  IInv'
<1> USE DEF UploadId
<1> DEFINE ref == PutRef(d, ContentOf(d))
           row == ConfirmedRow(d, ref)
           doc == [org |-> arg[d].org, status |-> "processing", ref |-> ref]
<1>1. /\ TypeOK /\ Handler(d)
      /\ pc[d] = "commit"
      /\ docs' = [docs EXCEPT ![d] = doc]
      /\ jobs' = [jobs EXCEPT ![d] = "queued"]
      /\ uploads' = [uploads EXCEPT ![d] = row]
      /\ events' = [events EXCEPT ![d] = EventOf(d, d, arg[d].org, ref, arg[d].size, arg[d].sum)]
      /\ Succeed(d, None)
      /\ UNCHANGED <<store, arg, lock>>
  BY DEF IInv, CreateCommit
<1>2. /\ arg[d].doc = d /\ arg[d].org \in Org /\ arg[d].key = None
      /\ docs[d] = NoDoc
      /\ ContentOf(d) \in Content /\ objects[ref] # None
  BY <1>1 DEF Handler, Creating
<1>3. ref \in Ref /\ ref[2] = ContentOf(d) /\ arg[d].size \in Size
  BY <1>2 DEF PutRef, Ref, ContentOf, Content
<1>4. ref[2] = [size |-> arg[d].size, sum |-> arg[d].sum]
  BY <1>3 DEF ContentOf
<1> HIDE DEF ref
<1>5. /\ row \in UploadRow /\ row.status = "confirmed" /\ row.doc = d /\ row.org = arg[d].org
      /\ row.key = None /\ row.ref = ref /\ row.size = arg[d].size /\ row.sum = arg[d].sum
  BY <1>1, <1>2, <1>3, ConfirmedRowTypes
<1>6. WithKey(row.org, row.key) = {}
  BY <1>5 DEF WithKey
<1>7. doc \in DocRow
  BY <1>2, <1>3 DEF DocRow
<1>8. /\ docs' \in [Doc -> DocRow] /\ docs'[d] = doc
      /\ \A x \in Doc \ {d} : docs'[x] = docs[x]
  BY <1>1, <1>7 DEF TypeOK
<1>9. docs'[d].org = row.org /\ docs'[d].status = "processing" /\ docs'[d].ref = row.ref
  BY <1>5, <1>8
<1>10. lock' \in [Doc -> UploadId \cup {None}]
  BY <1>1 DEF TypeOK
<1> HIDE DEF row, doc
<1>11. events' = [events EXCEPT ![d] = EventOf(d, d, row.org, row.ref, row.size, row.sum)]
  BY <1>1, <1>5
<1>12. /\ row.org \in Org /\ row.ref \in Ref /\ row.size \in Size /\ objects[row.ref] # None
       /\ row.ref[2] = [size |-> row.size, sum |-> row.sum]
       /\ pc[d] \notin {"new", "done"}
  BY <1>1, <1>2, <1>3, <1>4, <1>5
<1> QED BY <1>1, <1>2, <1>5, <1>6, <1>8, <1>9, <1>10, <1>11, <1>12, AcceptStep

\* UploadDocument commits upload, document, job and event together.
LEMMA UploadInsertStep ==
  ASSUME IInv, NEW r \in Req, UploadInsert(r)
  PROVE  IInv'
<1> USE DEF UploadId
<1> DEFINE d == arg[r].doc
           ref == PutRef(d, ContentOf(r))
           row == ConfirmedRow(r, ref)
<1>1. /\ TypeOK /\ Handler(r) /\ Bucket
      /\ pc[r] = "insert" /\ lock' = [lock EXCEPT ![d] = None]
      /\ UNCHANGED <<store, arg>>
  BY DEF IInv, UploadInsert
<1>2. /\ Addressed(r) /\ d \in Doc /\ arg[r].org \in Org
      /\ ContentOf(r) \in Content /\ objects[ref] # None
  BY <1>1 DEF Handler, Uploading, Addressed
<1>3. ref \in Ref /\ ref[2] = ContentOf(r) /\ arg[r].size \in Size
  BY <1>2 DEF PutRef, Ref, ContentOf, Content
<1>4. ref[2] = [size |-> arg[r].size, sum |-> arg[r].sum]
  BY <1>3 DEF ContentOf
<1>5. lock' \in [Doc -> UploadId \cup {None}]
  BY <1>1 DEF TypeOK
<1>6. CASE Fail(r) /\ UNCHANGED db
  <2>1. \E a \in Arg : arg' = [arg EXCEPT ![r] = a]
    BY <1>1, SameArg
  <2> QED BY <1>1, <1>5, <1>6, <2>1, EndingStep DEF store
<1>7. CASE /\ IndexAdmits(r)
           /\ uploads' = [uploads EXCEPT ![r] = row]
           /\ Queue(d, ref)
           /\ events' = [events EXCEPT ![r] = EventOf(r, d, arg[r].org, ref, arg[r].size, arg[r].sum)]
           /\ Succeed(r, r)
  <2> HIDE DEF d, ref
  <2>1. /\ row \in UploadRow /\ row.status = "confirmed" /\ row.doc = d /\ row.org = arg[r].org
        /\ row.key = arg[r].key /\ row.ref = ref /\ row.size = arg[r].size
        /\ row.sum = arg[r].sum
    BY <1>1, <1>3, ConfirmedRowTypes DEF d
  <2> HIDE DEF row
  <2>2. WithKey(row.org, row.key) = {}
    BY <1>7, <2>1 DEF IndexAdmits
  <2>3. /\ docs' \in [Doc -> DocRow]
        /\ \A x \in Doc \ {d} : docs'[x] = docs[x]
        /\ docs'[d].org = docs[d].org /\ docs'[d].status = "processing" /\ docs'[d].ref = ref
    BY <1>1, <1>2, <1>3, <1>7, QueueWrites
  <2>4. jobs' = [jobs EXCEPT ![d] = "queued"]
    BY <1>1, <1>2, <1>3, <1>7, QueueWrites
  <2>5. result[d] = "ok" /\ docs[d].org = row.org
    BY <1>2, <2>1 DEF Addressed, d
  <2>6. events' = [events EXCEPT ![r] = EventOf(r, d, row.org, row.ref, row.size, row.sum)]
    BY <1>7, <2>1
  <2>7. /\ row.org \in Org /\ row.ref \in Ref /\ row.size \in Size /\ objects[row.ref] # None
        /\ row.ref[2] = [size |-> row.size, sum |-> row.sum]
        /\ docs'[d].org = row.org /\ docs'[d].ref = row.ref
        /\ pc[r] \notin {"new", "done"}
    BY <1>1, <1>2, <1>3, <1>4, <2>1, <2>3, <2>5
  <2> QED BY <1>1, <1>2, <1>5, <1>7, <2>1, <2>2, <2>3, <2>4, <2>5, <2>6, <2>7, AcceptStep
<1> QED BY <1>6, <1>7 DEF UploadInsert

\* CreateUploadIntent commits a pending upload, without an event.
LEMMA IntentInsertStep ==
  ASSUME IInv, NEW r \in Req, IntentInsert(r)
  PROVE  IInv'
<1> USE DEF UploadId
<1> DEFINE d == arg[r].doc
           ref == PresignRef(d, r)
           row == [status |-> "pending", doc |-> d, org |-> arg[r].org,
                   key |-> arg[r].key, ref |-> ref, expected |-> arg[r].size,
                   size |-> 0, sum |-> arg[r].sum]
<1>1. /\ TypeOK /\ Handler(r) /\ Bucket
      /\ pc[r] = "intentInsert"
      /\ UNCHANGED <<docs, jobs, events, objects, arg, lock>>
  BY DEF IInv, IntentInsert
<1>2. /\ Uploading(r) /\ Addressed(r) /\ d \in Doc /\ arg[r].org \in Org /\ arg[r].size \in Size
      /\ arg[r] \in Arg
  BY <1>1 DEF Handler, Uploading, Addressed, TypeOK
<1>3. ref \in Ref /\ ref \in Doc \X UploadId
  BY <1>2 DEF PresignRef, Ref
<1>4. CASE Fail(r) /\ UNCHANGED <<uploads, urls>>
  <2>1. \E a \in Arg : arg' = [arg EXCEPT ![r] = a]
    BY <1>1, SameArg
  <2> QED BY <1>1, <1>4, <2>1, EndingStep DEF TypeOK, db
<1>5. CASE /\ IndexAdmits(r)
           /\ uploads' = [uploads EXCEPT ![r] = row]
           /\ urls' = urls \cup {ref}
           /\ Succeed(r, r)
  <2>1. /\ row \in UploadRow /\ row.status = "pending" /\ row.doc = d /\ row.org = arg[r].org
        /\ row.key = arg[r].key /\ row.ref = ref
    BY <1>2, <1>3 DEF UploadRow, Arg
  <2> HIDE DEF row, ref
  <2>2. uploads[r].status = "none" /\ events[r] = None /\ result[r] = "none"
    BY <1>1 DEF Handler, Unwritten
  <2>3. /\ uploads'[r] = row /\ \A u \in UploadId \ {r} : uploads'[u] = uploads[u]
        /\ uploads' \in [UploadId -> UploadRow]
    BY <1>1, <1>5, <2>1 DEF TypeOK
  <2>4. /\ pc'[r] = "done" /\ result'[r] = "ok" /\ answer'[r] = r
        /\ \A j \in UploadId \ {r} :
             pc'[j] = pc[j] /\ result'[j] = result[j] /\ answer'[j] = answer[j]
    BY <1>1, <1>5 DEF TypeOK, Succeed, Reply
  <2>5. TypeOK'
    <3>1. /\ pc' \in [UploadId -> Label]
          /\ result' \in [UploadId -> {"none", "ok", "error", "aborted"}]
          /\ answer' \in [UploadId -> UploadId \cup {None}]
      BY <1>1, <1>5, ReplyTypes
    <3>2. urls' \subseteq Ref
      BY <1>1, <1>3, <1>5 DEF TypeOK
    <3> QED BY <1>1, <2>3, <3>1, <3>2 DEF TypeOK
  <2>6. Steady({r})
    BY <1>1, <2>2, <2>3, <2>4 DEF Steady
  <2>7. Handler(r)'
    <3>1. Unwritten(r)' /\ Answered(r)' /\ Uploading(r)'
      BY <1>1, <2>1, <2>3, <2>4 DEF Unwritten, Answered, Uploading
    <3> QED BY <3>1, IdAssumption DEF Handler
  <2>8. \A j \in UploadId : Handler(j)'
    BY <2>6, <2>7, OthersKept
  <2>9. \A u \in UploadId : RowKept(u)'
    <3>1. result[d] = "ok" /\ docs[d].org = arg[r].org /\ d # r
      BY <1>2, <2>2 DEF Addressed
    <3>2. RowKept(r)'
      BY <1>1, <1>2, <1>3, <2>1, <2>3, <2>4, <3>1 DEF RowKept
    <3> QED BY <2>3, <2>6, <3>2, RowsKept
  <2>10. Bucket'
    BY <1>1, <1>3, <1>5, BucketKept
  <2>11. KeysUnique'
    <3>1. \A u \in UploadId : uploads[u].status # "none" /\ uploads[u].org = row.org
                             => row.key = None \/ uploads[u].key # row.key
      BY <1>5, <2>1 DEF IndexAdmits, WithKey
    <3> QED BY <2>3, <3>1 DEF IInv, KeysUnique
  <2>12. ASSUME NEW j \in UploadId PROVE EventTrue(j)'
    <3>1. events[j] # None => events[j].upload \in UploadId
      BY <1>1 DEF TypeOK, Event
    <3> QED BY <1>1, <2>2, <2>3, <3>1 DEF IInv, EventTrue
  <2>13. EventsDiffer'
    BY <1>1 DEF IInv, EventsDiffer
  <2>14. \A u \in UploadId : Announced(u)'
    BY <1>1, <2>1, <2>3 DEF IInv, Announced
  <2>15. \A x \in Doc : Follows(x)'
    <3>1. \A u \in UploadId : uploads'[u].status = "confirmed" \/ uploads[u].status = "confirmed"
                             => uploads'[u] = uploads[u]
      BY <2>1, <2>2, <2>3
    <3> QED BY <1>1, <3>1 DEF IInv, Follows
  <2> QED BY <2>5, <2>8, <2>9, <2>10, <2>11, <2>12, <2>13, <2>14, <2>15 DEF IInv
<1> QED BY <1>4, <1>5 DEF IntentInsert

\* ConfirmUpload commits the confirmation with its event, or finds nothing to
\* confirm.
LEMMA CompleteConfirmStep ==
  ASSUME IInv, NEW r \in Req, CompleteConfirm(r)
  PROVE  IInv'
<1> USE DEF UploadId
<1> DEFINE u == arg[r].upload
           d == arg[r].doc
           ref == uploads[u].ref
           row == [uploads[u] EXCEPT !.status = "confirmed", !.size = arg[r].size,
                                     !.sum = arg[r].sum]
           e == EventOf(u, d, arg[r].org, ref, arg[r].size, arg[r].sum)
<1>1. /\ TypeOK /\ Handler(r) /\ Bucket
      /\ pc[r] = "confirm" /\ UNCHANGED <<store, arg, lock>>
  BY DEF IInv, CompleteConfirm
<1>2. /\ Uploading(r) /\ Addressed(r) /\ Loaded(r) /\ RowKept(u)
      /\ arg[r] \in Arg /\ u \in UploadId /\ uploads[u] \in UploadRow
  BY <1>1 DEF IInv, Handler, Uploading, Loaded, TypeOK
<1>3. /\ d \in Doc /\ arg[r].org \in Org /\ arg[r].size \in Size /\ ref \in Ref
      /\ arg[r].sum \in Digest \cup {None} /\ objects[ref] # None
      /\ uploads[u].status # "none" /\ uploads[u].doc = d /\ uploads[u].org = arg[r].org
      /\ result[d] = "ok" /\ docs[d].org = arg[r].org
  BY <1>1, <1>2 DEF Uploading, Addressed, Loaded, RowKept, Arg
<1>4. \E a \in Arg : arg' = [arg EXCEPT ![r] = a]
  BY <1>1, SameArg
<1>5. CASE Succeed(r, u) /\ UNCHANGED db
  BY <1>1, <1>2, <1>3, <1>4, <1>5, EndingStep DEF store, TypeOK
<1>6. CASE Fail(r) /\ UNCHANGED db
  BY <1>1, <1>4, <1>6, EndingStep DEF store, TypeOK
<1>7. CASE /\ StillPending(uploads[u])
           /\ uploads' = [uploads EXCEPT ![u].status = "confirmed",
                                         ![u].size = arg[r].size, ![u].sum = arg[r].sum]
           /\ Queue(d, ref)
           /\ events' = [events EXCEPT ![r] = e]
           /\ Succeed(r, u)
  <2>1. uploads' = [uploads EXCEPT ![u] = row]
    BY <1>7
  <2>2. /\ row \in UploadRow /\ row.status = "confirmed" /\ row.doc = d /\ row.org = arg[r].org
        /\ row.key = uploads[u].key /\ row.ref = ref /\ row.size = arg[r].size
        /\ row.sum = arg[r].sum
    BY <1>2, <1>3 DEF UploadRow
  <2>3. /\ e \in Event /\ e # None
        /\ e.upload = u /\ e.doc = d /\ e.org = arg[r].org /\ e.ref = ref
        /\ e.size = arg[r].size /\ e.sum = arg[r].sum
    <3>1. e \in Event
      BY <1>2, <1>3 DEF EventOf, Event
    <3> QED BY <3>1, EventAssumption DEF EventOf
  <2>4. uploads[u].status = "pending" /\ ref \notin Doc \X Content
    BY <1>2, <1>7, ContentAssumption DEF StillPending, RowKept
  <2>5. /\ docs' \in [Doc -> DocRow]
        /\ \A x \in Doc \ {d} : docs'[x] = docs[x]
        /\ docs'[d].org = docs[d].org /\ docs'[d].status = "processing" /\ docs'[d].ref = ref
        /\ jobs' = [jobs EXCEPT ![d] = "queued"]
    BY <1>1, <1>3, <1>7, QueueWrites
  <2> HIDE DEF row, ref, e, d, u
  <2>6. uploads[r].status = "none" /\ events[r] = None /\ result[r] = "none" /\ u # r
    BY <1>1, <1>3 DEF Handler, Unwritten
  <2>7. /\ uploads'[u] = row /\ \A v \in UploadId \ {u} : uploads'[v] = uploads[v]
        /\ uploads' \in [UploadId -> UploadRow]
    BY <1>1, <1>2, <2>1, <2>2 DEF TypeOK
  <2>8. /\ events'[r] = e /\ \A j \in UploadId \ {r} : events'[j] = events[j]
        /\ events' \in [UploadId -> Event \cup {None}]
    BY <1>1, <1>7, <2>3 DEF TypeOK
  <2>9. /\ pc'[r] = "done" /\ result'[r] = "ok" /\ answer'[r] = u
        /\ \A j \in UploadId \ {r} :
             pc'[j] = pc[j] /\ result'[j] = result[j] /\ answer'[j] = answer[j]
    BY <1>1, <1>7 DEF TypeOK, Succeed, Reply
  <2>10. /\ jobs'[d] = "queued" /\ \A x \in Doc \ {d} : jobs'[x] = jobs[x]
         /\ jobs' \in [Doc -> {"none", "pending", "queued"}]
    BY <1>1, <1>3, <2>5 DEF TypeOK
  <2>11. TypeOK'
    <3>1. /\ pc' \in [UploadId -> Label]
          /\ result' \in [UploadId -> {"none", "ok", "error", "aborted"}]
          /\ answer' \in [UploadId -> UploadId \cup {None}]
      BY <1>1, <1>2, <1>7, ReplyTypes
    <3> QED BY <1>1, <2>5, <2>7, <2>8, <2>10, <3>1 DEF TypeOK, store
  <2>12. Steady({r})
    BY <1>1, <1>3, <2>2, <2>4, <2>5, <2>6, <2>7, <2>8, <2>9, <2>10 DEF Steady, store, ref
  <2>13. Handler(r)'
    <3>1. Unwritten(r)' /\ Answered(r)' /\ Uploading(r)'
      BY <1>1, <2>2, <2>7, <2>9 DEF Unwritten, Answered, Uploading
    <3> QED BY <3>1, IdAssumption DEF Handler
  <2>14. \A j \in UploadId : Handler(j)'
    BY <2>12, <2>13, OthersKept
  <2>15. \A v \in UploadId : RowKept(v)'
    <3>1. d # r
      BY <1>3, <2>6
    <3>2. ASSUME NEW v \in UploadId, v = u PROVE RowKept(v)'
      BY <1>1, <1>3, <2>2, <2>4, <2>5, <2>7, <2>9, <3>1, <3>2 DEF RowKept, store
    <3>3. ASSUME NEW v \in UploadId, v # u PROVE RowKept(v)'
      BY <2>7, <2>12, <3>3, RowsKept
    <3> QED BY <3>2, <3>3
  <2>16. Bucket'
    BY <1>1, BucketKept DEF store
  <2>17. KeysUnique'
    <3>1. \A v \in UploadId : /\ uploads'[v].status # "none" <=> uploads[v].status # "none"
                             /\ uploads'[v].org = uploads[v].org
                             /\ uploads'[v].key = uploads[v].key
      BY <1>3, <2>2, <2>4, <2>7
    <3> QED BY <3>1 DEF IInv, KeysUnique
  <2>18. \A j \in UploadId : events[j] # None => events[j].upload # u
    BY <2>4 DEF IInv, EventTrue
  <2>19. ASSUME NEW j \in UploadId PROVE EventTrue(j)'
    <3>1. CASE j = r
      BY <2>2, <2>3, <2>7, <2>8, <3>1 DEF EventTrue
    <3>2. CASE j # r
      <4>1. events[j] # None => events[j].upload \in UploadId
        BY <1>1 DEF TypeOK, Event
      <4> QED BY <2>7, <2>8, <2>18, <3>2, <4>1 DEF IInv, EventTrue
    <3> QED BY <3>1, <3>2
  <2>20. EventsDiffer'
    BY <2>3, <2>8, <2>18 DEF IInv, EventsDiffer
  <2>21. \A v \in UploadId : Announced(v)'
    BY <2>3, <2>6, <2>7, <2>8 DEF IInv, Announced
  <2>22. ASSUME NEW x \in Doc PROVE Follows(x)'
    <3>1. CASE x = d
      BY <1>2, <2>2, <2>5, <2>7, <2>10, <3>1 DEF Follows
    <3>2. CASE x # d
      <4>1. Follows(x) /\ docs'[x] = docs[x] /\ jobs'[x] = jobs[x]
        BY <2>5, <2>10, <3>2 DEF IInv
      <4>2. \A v \in UploadId : uploads'[v].doc = x \/ uploads[v].doc = x => uploads'[v] = uploads[v]
        BY <1>3, <2>2, <2>7, <3>2
      <4> QED BY <4>1, <4>2 DEF Follows
    <3> QED BY <3>1, <3>2
  <2> QED BY <2>11, <2>14, <2>15, <2>16, <2>17, <2>19, <2>20, <2>21, <2>22 DEF IInv
<1> QED BY <1>5, <1>6, <1>7 DEF CompleteConfirm

-----------------------------------------------------------------------------
(* The theorems *)

\* Empty tables and an empty bucket satisfy the invariant.
LEMMA Initially == Init => IInv
<1> SUFFICES ASSUME Init PROVE IInv
  OBVIOUS
<1>1. \A u \in UploadId : uploads[u] = NoUpload /\ uploads[u].status = "none"
  BY DEF Init, NoUpload
<1>2. \A i \in UploadId : /\ events[i] = None /\ pc[i] = "new" /\ result[i] = "none"
                         /\ answer[i] = None /\ arg[i] = NoArg
  BY DEF Init
<1>3. \A d \in Doc : docs[d] = NoDoc /\ docs[d].status = "none" /\ jobs[d] = "none"
  BY DEF Init, NoDoc
<1>4. NoDoc \in DocRow /\ NoUpload \in UploadRow /\ NoArg \in Arg
  BY DEF NoDoc, DocRow, NoUpload, UploadRow, NoArg, Arg
<1>5. TypeOK
  BY <1>4 DEF Init, TypeOK, Label
<1>6. \A i \in UploadId : Handler(i)
  BY <1>1, <1>2, <1>3 DEF Handler, Unwritten, Answered, Creating, Uploading, UploadId
<1>7. \A u \in UploadId : RowKept(u)
  BY <1>1 DEF RowKept
<1>8. Bucket
  <2>1. \A d \in Doc, c \in Content : PutRef(d, c) \in Ref
    BY DEF PutRef, Ref
  <2> QED BY <2>1 DEF Init, Bucket
<1>9. KeysUnique /\ EventsDiffer
  BY <1>1, <1>2 DEF KeysUnique, EventsDiffer
<1>10. \A i \in UploadId : EventTrue(i) /\ Announced(i)
  BY <1>1, <1>2 DEF EventTrue, Announced
<1>11. \A d \in Doc : Follows(d)
  BY <1>1, <1>3 DEF Follows
<1> QED BY <1>5, <1>6, <1>7, <1>8, <1>9, <1>10, <1>11 DEF IInv

\* Every step keeps the invariant.
LEMMA Inductive == IInv /\ [Next]_vars => IInv'
<1> SUFFICES ASSUME IInv, [Next]_vars PROVE IInv'
  OBVIOUS
<1>1. ASSUME NEW d \in Doc, CreateEmpty(d) \/ CreateWithContent(d) PROVE IInv'
  BY <1>1, CreateEmptyStep, CreateWithContentStep
<1>2. ASSUME NEW r \in Req, UploadDocument(r) \/ CreateUploadIntent(r) \/ CompleteUpload(r)
      PROVE  IInv'
  BY <1>2, UploadDocumentStep, CreateUploadIntentStep, CompleteUploadStep
<1>3. ASSUME NEW i \in UploadId, Advance(i) PROVE IInv'
  <2>1. CASE i \in Doc /\ (InsertDoc(i) \/ InsertJob(i) \/ CreatePut(i) \/ CreateCommit(i))
    BY <2>1, InsertDocStep, InsertJobStep, CreatePutStep, CreateCommitStep
  <2>2. CASE i \in Req /\ (UploadPut(i) \/ UploadLookup(i) \/ UploadInsert(i))
    BY <2>2, UploadPutStep, UploadLookupStep, UploadInsertStep
  <2>3. CASE i \in Req /\ (IntentLookup(i) \/ IntentInsert(i))
    BY <2>3, IntentLookupStep, IntentInsertStep
  <2>4. CASE i \in Req /\ (CompleteHead(i) \/ CompleteConfirm(i))
    BY <2>4, CompleteHeadStep, CompleteConfirmStep
  <2> QED BY <1>3, <2>1, <2>2, <2>3, <2>4 DEF Advance
<1>4. ASSUME NEW i \in UploadId, Abort(i) PROVE IInv'
  BY <1>4, AbortStep
<1>5. ASSUME NEW f \in Ref, UrlExpires(f) \/ \E c \in Content : ClientPut(f, c) PROVE IInv'
  BY <1>5, ClientStep
<1>6. CASE UNCHANGED vars
  <2>1. UNCHANGED <<db, objects, urls, pc, arg, lock, result, answer>>
    BY <1>6 DEF vars, db
  <2>2. TypeOK' /\ Bucket'
    BY <2>1, BucketKept DEF IInv, TypeOK, db
  <2>3. Steady({})
    BY <2>1 DEF Steady, db
  <2> QED BY <2>1, <2>2, <2>3, QuietStep
<1> QED BY <1>1, <1>2, <1>3, <1>4, <1>5, <1>6 DEF Next

\* The invariant holds always.
LEMMA Invariance == Spec => []IInv
BY Initially, Inductive, PTL DEF Spec

\* The variables keep their types.
THEOREM TypeCorrect == Spec => []TypeOK
<1>1. IInv => TypeOK
  BY DEF IInv
<1> QED BY <1>1, Invariance, PTL

\* Confirmation and announcement are one: however requests race, repeat and
\* stop, an upload is confirmed if and only if the outbox holds exactly one
\* event for it, with the row's own metadata.
THEOREM OutboxTransactional == Spec => []TransactionalOutbox
<1>1. ASSUME IInv PROVE TransactionalOutbox
  <2>1. ASSUME NEW u \in UploadId, uploads[u].status # "confirmed" PROVE EventsOf(u) = {}
    BY <1>1, <2>1 DEF IInv, EventTrue, EventsOf
  <2>2. ASSUME NEW u \in UploadId, uploads[u].status = "confirmed"
        PROVE  \E i \in UploadId :
                 /\ EventsOf(u) = {i}
                 /\ \A c \in {"doc", "org", "ref", "size", "sum"} : events[i][c] = uploads[u][c]
    <3>1. PICK i \in UploadId : events[i] # None /\ events[i].upload = u
      BY <1>1, <2>2 DEF IInv, Announced
    <3>2. EventsOf(u) = {i}
      BY <1>1, <3>1 DEF IInv, EventsDiffer, EventsOf
    <3>3. \A c \in {"doc", "org", "ref", "size", "sum"} : events[i][c] = uploads[u][c]
      BY <1>1, <3>1 DEF IInv, EventTrue
    <3> QED BY <3>2, <3>3
  <2> QED BY <2>1, <2>2 DEF TransactionalOutbox
<1> QED BY <1>1, Invariance, PTL

\* Consumers hear of at most one upload per organization and idempotency key.
THEOREM KeyAnnouncedOnce == Spec => []OneEventPerKey
<1>1. ASSUME IInv PROVE OneEventPerKey
  <2> SUFFICES ASSUME NEW org \in Org, NEW k \in Key, NEW i \in UploadId, NEW j \in UploadId,
                      events[i] # None, events[i].upload \in WithKey(org, k),
                      events[j] # None, events[j].upload \in WithKey(org, k)
               PROVE  i = j
    BY DEF OneEventPerKey
  <2>1. events[i].upload = events[j].upload
    BY <1>1 DEF IInv, KeysUnique, WithKey
  <2> QED BY <1>1, <2>1 DEF IInv, EventsDiffer
<1> QED BY <1>1, Invariance, PTL

\* A document is processing, with its job queued and the object of one of its
\* confirmed uploads, exactly when it has a confirmed upload.
THEOREM DocumentFollows == Spec => []DocumentFollowsUploads
<1>1. ASSUME IInv PROVE DocumentFollowsUploads
  <2> SUFFICES ASSUME NEW d \in Doc
               PROVE  LET confirmed == {u \in UploadsOf(docs[d].org, d) :
                                          uploads[u].status = "confirmed"}
                      IN /\ docs[d].status = "processing" <=> confirmed # {}
                         /\ docs[d].status = "processing" <=> jobs[d] = "queued"
                         /\ docs[d].status = "processing" =>
                              \E u \in confirmed : docs[d].ref = uploads[u].ref
    BY DEF DocumentFollowsUploads
  <2> DEFINE confirmed == {u \in UploadsOf(docs[d].org, d) : uploads[u].status = "confirmed"}
  <2>1. \A u \in UploadId : u \in confirmed <=>
                              uploads[u].status = "confirmed" /\ uploads[u].doc = d
    BY <1>1 DEF IInv, RowKept, UploadsOf
  <2>2. confirmed \subseteq UploadId
    BY DEF UploadsOf
  <2> HIDE DEF confirmed
  <2>3. Follows(d)
    BY <1>1 DEF IInv
  <2>4. /\ docs[d].status = "processing" <=> confirmed # {}
        /\ docs[d].status = "processing" <=> jobs[d] = "queued"
        /\ docs[d].status = "processing" => \E u \in confirmed : docs[d].ref = uploads[u].ref
    BY <2>1, <2>2, <2>3 DEF Follows
  <2> QED BY <2>4 DEF confirmed
<1> QED BY <1>1, Invariance, PTL

\* What an event announces is in the bucket: some object, and the very bytes
\* the event describes when the service stored them itself.
THEOREM AnnouncedStored == Spec => []AnnouncedBytesStored
<1>1. ASSUME IInv PROVE AnnouncedBytesStored
  <2> SUFFICES ASSUME NEW i \in UploadId, events[i] # None
               PROVE  /\ objects[events[i].ref] # None
                      /\ events[i].ref \in Doc \X Content =>
                           objects[events[i].ref] = [size |-> events[i].size, sum |-> events[i].sum]
    BY DEF AnnouncedBytesStored
  <2>1. PICK u \in UploadId : u = events[i].upload
    BY <1>1 DEF IInv, TypeOK, Event
  <2>2. /\ RowKept(u) /\ uploads[u].status = "confirmed"
        /\ events[i].ref = uploads[u].ref
        /\ events[i].size = uploads[u].size /\ events[i].sum = uploads[u].sum
    BY <1>1, <2>1 DEF IInv, EventTrue
  <2>3. objects[events[i].ref] # None
    BY <2>2 DEF RowKept
  <2>4. ASSUME events[i].ref \in Doc \X Content
        PROVE  objects[events[i].ref] = [size |-> events[i].size, sum |-> events[i].sum]
    <3>1. PICK d \in Doc, c \in Content : events[i].ref = <<d, c>>
      BY <2>4
    <3>2. c = [size |-> events[i].size, sum |-> events[i].sum]
      BY <2>2, <2>4, <3>1 DEF RowKept
    <3>3. objects[<<d, c>>] \in {None, c}
      BY <1>1 DEF IInv, Bucket, PutRef
    <3> QED BY <2>3, <3>1, <3>2, <3>3
  <2> QED BY <2>3, <2>4
<1> QED BY <1>1, Invariance, PTL

\* Uploads, documents and events stay within one organization, and a response
\* names no upload of another.
THEOREM TenantsIsolated == Spec => []TenantIsolation
<1>1. ASSUME IInv PROVE TenantIsolation
  <2>1. \A u \in UploadId : uploads[u].status # "none" => uploads[u].org = docs[uploads[u].doc].org
    BY <1>1 DEF IInv, RowKept
  <2>2. ASSUME NEW i \in UploadId, events[i] # None
        PROVE  events[i].org = docs[events[i].doc].org
    <3>1. events[i].upload \in UploadId
      BY <1>1, <2>2 DEF IInv, TypeOK, Event
    <3> QED BY <1>1, <2>1, <2>2, <3>1 DEF IInv, EventTrue
  <2>3. \A i \in UploadId : answer[i] # None /\ uploads[answer[i]].status # "none" =>
          uploads[answer[i]].org = arg[i].org
    BY <1>1 DEF IInv, Handler, Answered
  <2> QED BY <2>1, <2>2, <2>3 DEF TenantIsolation
<1> QED BY <1>1, Invariance, PTL
=============================================================================
