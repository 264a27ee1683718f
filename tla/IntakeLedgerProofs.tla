------------------------- MODULE IntakeLedgerProofs -------------------------
(***************************************************************************)
(* Document Intake implements the upload ledger, for any number of tenants,*)
(* documents, concurrent requests and idempotency keys.                    *)
(***************************************************************************)
EXTENDS IntakeLedger, IntakeProofs

\* The ledger as the rows of uploads and event_outbox show it.
stages == [u \in UploadId |-> StageOf(u)]
targets == [u \in UploadId |-> TargetOf(u)]
measures == [u \in UploadId |-> MeasureOf(u)]
noticed == [i \in UploadId |-> NoticeOf(i)]

\* The first state of the service is the ledger's.
LEMMA InitMaps == Init => Ledger!Init
<1> SUFFICES ASSUME Init PROVE Ledger!Init
  OBVIOUS
<1>1. \A u \in UploadId : uploads[u].status = "none" /\ events[u] = None
  BY DEF Init, NoUpload
<1>2. \A u \in UploadId : /\ StageOf(u) = "none" /\ TargetOf(u) = None
                         /\ MeasureOf(u) = None /\ NoticeOf(u) = None
  BY <1>1 DEF StageOf, TargetOf, MeasureOf, NoticeOf
<1> QED BY <1>2 DEF Ledger!Init

\* What the ledger shows of a row depends on that row alone.
LEMMA RowShown ==
  ASSUME NEW u \in UploadId, uploads'[u] = uploads[u]
  PROVE  StageOf(u)' = StageOf(u) /\ TargetOf(u)' = TargetOf(u) /\ MeasureOf(u)' = MeasureOf(u)
BY DEF StageOf, TargetOf, MeasureOf

\* What the ledger shows of an event depends on that event alone.
LEMMA EventShown ==
  ASSUME NEW i \in UploadId, events'[i] = events[i]
  PROVE  NoticeOf(i)' = NoticeOf(i)
BY DEF NoticeOf

\* A step that touches neither table is none of the ledger's.
LEMMA StutterMaps ==
  ASSUME UNCHANGED <<uploads, events>>
  PROVE  UNCHANGED Ledger!vars
<1>1. \A u \in UploadId : /\ StageOf(u)' = StageOf(u) /\ TargetOf(u)' = TargetOf(u)
                         /\ MeasureOf(u)' = MeasureOf(u) /\ NoticeOf(u)' = NoticeOf(u)
  BY RowShown, EventShown
<1>2. /\ [u \in UploadId |-> StageOf(u)'] = [u \in UploadId |-> StageOf(u)]
      /\ [u \in UploadId |-> TargetOf(u)'] = [u \in UploadId |-> TargetOf(u)]
      /\ [u \in UploadId |-> MeasureOf(u)'] = [u \in UploadId |-> MeasureOf(u)]
      /\ [u \in UploadId |-> NoticeOf(u)'] = [u \in UploadId |-> NoticeOf(u)]
  BY <1>1
<1> QED BY <1>2 DEF Ledger!vars

\* A new pending row is an intent.
LEMMA IntendMaps ==
  ASSUME IInv', NEW u \in UploadId, uploads[u].status = "none", uploads'[u].status = "pending",
         \A v \in UploadId \ {u} : uploads'[v] = uploads[v], events' = events
  PROVE  Ledger!Intend(u)
<1>1. uploads'[u].org \in Org /\ uploads'[u].doc \in Doc /\ uploads'[u].ref \in Ref
  BY DEF IInv, RowKept
<1> DEFINE t == <<uploads'[u].org, uploads'[u].doc, uploads'[u].ref>>
<1>2. /\ StageOf(u) = "none" /\ StageOf(u)' = "intended"
      /\ TargetOf(u)' = t /\ t \in Org \X Doc \X Ref
      /\ MeasureOf(u)' = MeasureOf(u)
  BY <1>1 DEF StageOf, TargetOf, MeasureOf
<1> HIDE DEF t
<1>3. \A v \in UploadId \ {u} : /\ StageOf(v)' = StageOf(v) /\ TargetOf(v)' = TargetOf(v)
                               /\ MeasureOf(v)' = MeasureOf(v)
  BY RowShown
<1>4. \A i \in UploadId : NoticeOf(i)' = NoticeOf(i)
  BY EventShown
<1>5. stages[u] = "none"
  BY <1>2 DEF stages
<1>6. stages' = [stages EXCEPT ![u] = "intended"]
  BY <1>2, <1>3 DEF stages
<1>7. targets' = [targets EXCEPT ![u] = t]
  BY <1>2, <1>3 DEF targets
<1>8. measures' = measures /\ noticed' = noticed
  BY <1>2, <1>3, <1>4 DEF measures, noticed
<1> QED BY <1>2, <1>5, <1>6, <1>7, <1>8 DEF Ledger!Intend, stages, targets, measures, noticed

\* A row that becomes confirmed, with an event of a handler that had none, is
\* an acceptance.
LEMMA AcceptMaps ==
  ASSUME IInv, IInv', NEW u \in UploadId, NEW i \in UploadId,
         events[i] = None,
         \A j \in UploadId \ {i} : events'[j] = events[j],
         \A v \in UploadId \ {u} : uploads'[v] = uploads[v],
         uploads[u].status # "confirmed", uploads'[u].status = "confirmed",
         uploads[u].status # "none" =>
           /\ uploads'[u].org = uploads[u].org /\ uploads'[u].doc = uploads[u].doc
           /\ uploads'[u].ref = uploads[u].ref
  PROVE  Ledger!Accept(u)
<1>1. /\ events'[i] # None /\ events'[i].upload = u
      /\ events'[i].doc = uploads'[u].doc /\ events'[i].org = uploads'[u].org
      /\ events'[i].ref = uploads'[u].ref
      /\ events'[i].size = uploads'[u].size /\ events'[i].sum = uploads'[u].sum
  <2>1. PICK j \in UploadId : events'[j] # None /\ events'[j].upload = u
    BY DEF IInv, Announced
  <2>2. j = i
    BY <2>1 DEF IInv, EventTrue
  <2> QED BY <2>1, <2>2 DEF IInv, EventTrue
<1>2. /\ uploads'[u].org \in Org /\ uploads'[u].doc \in Doc /\ uploads'[u].ref \in Ref
      /\ uploads'[u].size \in Size
  BY <1>1 DEF IInv, RowKept
<1>3. uploads'[u].sum \in Digest \cup {None} /\ uploads[u].status \in {"none", "pending", "confirmed"}
  BY DEF IInv, TypeOK, UploadRow
<1> DEFINE t == <<uploads'[u].org, uploads'[u].doc, uploads'[u].ref>>
           m == <<uploads'[u].size, uploads'[u].sum>>
<1>4. /\ t \in Org \X Doc \X Ref /\ m \in Size \X (Digest \cup {None})
      /\ StageOf(u)' = "accepted" /\ TargetOf(u)' = t /\ MeasureOf(u)' = m
      /\ NoticeOf(i)' = <<u, t, m>> /\ NoticeOf(i) = None
  BY <1>1, <1>2, <1>3 DEF StageOf, TargetOf, MeasureOf, NoticeOf
<1>5. /\ StageOf(u) \in {"none", "intended"}
      /\ StageOf(u) # "none" => TargetOf(u) = t
  BY <1>3 DEF StageOf, TargetOf
<1> HIDE DEF t, m
<1>6. \A v \in UploadId \ {u} : /\ StageOf(v)' = StageOf(v) /\ TargetOf(v)' = TargetOf(v)
                               /\ MeasureOf(v)' = MeasureOf(v)
  BY RowShown
<1>7. \A j \in UploadId \ {i} : NoticeOf(j)' = NoticeOf(j)
  BY EventShown
<1>8. stages[u] \in {"none", "intended"} /\ stages' = [stages EXCEPT ![u] = "accepted"]
  BY <1>4, <1>5, <1>6 DEF stages
<1>9. targets' = [targets EXCEPT ![u] = t] /\ measures' = [measures EXCEPT ![u] = m]
  BY <1>4, <1>6 DEF targets, measures
<1>10. noticed[i] = None /\ noticed' = [noticed EXCEPT ![i] = <<u, t, m>>]
  BY <1>4, <1>7 DEF noticed
<1>11. t \in IF stages[u] = "none" THEN Org \X Doc \X Ref ELSE {targets[u]}
  BY <1>4, <1>5 DEF stages, targets
<1>12. \E n \in Size \X (Digest \cup {None}), j \in UploadId :
         /\ measures' = [measures EXCEPT ![u] = n]
         /\ noticed[j] = None
         /\ noticed' = [noticed EXCEPT ![j] = <<u, t, n>>]
  BY <1>4, <1>9, <1>10
<1>13. \E x \in IF stages[u] = "none" THEN Org \X Doc \X Ref ELSE {targets[u]} :
         /\ targets' = [targets EXCEPT ![u] = x]
         /\ \E n \in Size \X (Digest \cup {None}), j \in UploadId :
              /\ measures' = [measures EXCEPT ![u] = n]
              /\ noticed[j] = None
              /\ noticed' = [noticed EXCEPT ![j] = <<u, x, n>>]
  BY <1>9, <1>11, <1>12
<1> QED BY <1>8, <1>13, Zenon DEF Ledger!Accept, stages, targets, measures, noticed

\* Each step of the service is one step of the ledger, or none.
LEMMA StepMaps ==
  ASSUME IInv, IInv', [Next]_vars
  PROVE  [Ledger!Next]_(Ledger!vars)
<1> USE DEF UploadId
<1>1. CASE UNCHANGED <<uploads, events>>
  BY <1>1, StutterMaps
<1>2. ASSUME NEW u \in UploadId, Ledger!Intend(u) \/ Ledger!Accept(u)
      PROVE  [Ledger!Next]_(Ledger!vars)
  BY <1>2 DEF Ledger!Next
<1>3. ASSUME NEW d \in Doc, CreateCommit(d) PROVE Ledger!Accept(d)
  <2> DEFINE e == EventOf(d, d, arg[d].org, PutRef(d, ContentOf(d)), arg[d].size, arg[d].sum)
  <2>1. /\ TypeOK /\ Handler(d) /\ pc[d] = "commit"
        /\ uploads' = [uploads EXCEPT ![d] = ConfirmedRow(d, PutRef(d, ContentOf(d)))]
        /\ events' = [events EXCEPT ![d] = e]
    BY <1>3 DEF IInv, CreateCommit
  <2> HIDE DEF e
  <2>2. events[d] = None /\ uploads[d].status = "none"
    BY <2>1 DEF Handler, Unwritten
  <2>3. /\ \A j \in UploadId \ {d} : events'[j] = events[j]
        /\ \A v \in UploadId \ {d} : uploads'[v] = uploads[v]
        /\ uploads'[d].status = "confirmed"
    BY <2>1 DEF TypeOK, ConfirmedRow
  <2> QED BY <2>2, <2>3, AcceptMaps
<1>4. ASSUME NEW r \in Req, UploadInsert(r)
      PROVE  UNCHANGED <<uploads, events>> \/ Ledger!Accept(r)
  <2> DEFINE ref == PutRef(arg[r].doc, ContentOf(r))
             e == EventOf(r, arg[r].doc, arg[r].org, ref, arg[r].size, arg[r].sum)
  <2>1. TypeOK /\ Handler(r) /\ pc[r] = "insert"
    BY <1>4 DEF IInv, UploadInsert
  <2>2. CASE UNCHANGED db
    BY <2>2 DEF db
  <2>3. CASE /\ uploads' = [uploads EXCEPT ![r] = ConfirmedRow(r, ref)]
             /\ events' = [events EXCEPT ![r] = e]
    <3> HIDE DEF e, ref
    <3>1. events[r] = None /\ uploads[r].status = "none"
      BY <2>1 DEF Handler, Unwritten
    <3>2. /\ \A j \in UploadId \ {r} : events'[j] = events[j]
          /\ \A v \in UploadId \ {r} : uploads'[v] = uploads[v]
          /\ uploads'[r].status = "confirmed"
      BY <2>1, <2>3 DEF TypeOK, ConfirmedRow
    <3> QED BY <3>1, <3>2, AcceptMaps
  <2> QED BY <1>4, <2>2, <2>3 DEF UploadInsert
<1>5. ASSUME NEW r \in Req, IntentInsert(r)
      PROVE  UNCHANGED <<uploads, events>> \/ Ledger!Intend(r)
  <2> DEFINE row == [status |-> "pending", doc |-> arg[r].doc, org |-> arg[r].org,
                     key |-> arg[r].key, ref |-> PresignRef(arg[r].doc, r),
                     expected |-> arg[r].size, size |-> 0, sum |-> arg[r].sum]
  <2>1. TypeOK /\ Handler(r) /\ pc[r] = "intentInsert" /\ UNCHANGED events
    BY <1>5 DEF IInv, IntentInsert
  <2>2. CASE uploads' = [uploads EXCEPT ![r] = row]
    <3>1. row.status = "pending"
      OBVIOUS
    <3> HIDE DEF row
    <3>2. uploads[r].status = "none"
      BY <2>1 DEF Handler, Unwritten
    <3>3. /\ \A v \in UploadId \ {r} : uploads'[v] = uploads[v]
          /\ uploads'[r].status = "pending"
      BY <2>1, <2>2, <3>1 DEF TypeOK
    <3> QED BY <2>1, <3>2, <3>3, IntendMaps
  <2> QED BY <1>5, <2>1, <2>2 DEF IntentInsert
<1>6. ASSUME NEW r \in Req, CompleteConfirm(r)
      PROVE  UNCHANGED <<uploads, events>> \/ Ledger!Accept(arg[r].upload)
  <2> DEFINE u == arg[r].upload
             e == EventOf(u, arg[r].doc, arg[r].org, uploads[u].ref, arg[r].size, arg[r].sum)
  <2>1. /\ TypeOK /\ Handler(r) /\ pc[r] = "confirm"
        /\ u \in UploadId /\ uploads[u] \in UploadRow
    BY <1>6 DEF IInv, CompleteConfirm, Handler, Uploading, Loaded, TypeOK
  <2>2. CASE UNCHANGED db
    BY <2>2 DEF db
  <2>3. CASE /\ StillPending(uploads[u])
             /\ uploads' = [uploads EXCEPT ![u].status = "confirmed",
                                           ![u].size = arg[r].size, ![u].sum = arg[r].sum]
             /\ events' = [events EXCEPT ![r] = e]
    <3> HIDE DEF e
    <3>1. events[r] = None
      BY <2>1 DEF Handler, Unwritten
    <3>2. \A j \in UploadId \ {r} : events'[j] = events[j]
      BY <2>1, <2>3 DEF TypeOK
    <3>3. /\ \A v \in UploadId \ {u} : uploads'[v] = uploads[v]
          /\ uploads[u].status = "pending" /\ uploads'[u].status = "confirmed"
          /\ uploads'[u].org = uploads[u].org /\ uploads'[u].doc = uploads[u].doc
          /\ uploads'[u].ref = uploads[u].ref
      BY <2>1, <2>3 DEF TypeOK, StillPending, UploadRow
    <3> QED BY <2>1, <3>1, <3>2, <3>3, AcceptMaps
  <2> QED BY <1>6, <2>2, <2>3 DEF CompleteConfirm
<1>7. ASSUME NEW d \in Doc,
             \/ CreateEmpty(d) \/ CreateWithContent(d) \/ InsertDoc(d) \/ InsertJob(d)
             \/ CreatePut(d)
      PROVE  UNCHANGED <<uploads, events>>
  BY <1>7 DEF CreateEmpty, CreateWithContent, InsertDoc, InsertJob, CreatePut, db
<1>8. ASSUME NEW r \in Req,
             \/ UploadDocument(r) \/ CreateUploadIntent(r) \/ CompleteUpload(r)
             \/ UploadPut(r) \/ UploadLookup(r) \/ IntentLookup(r) \/ CompleteHead(r)
      PROVE  UNCHANGED <<uploads, events>>
  BY <1>8 DEF UploadDocument, CreateUploadIntent, CompleteUpload, UploadPut, UploadLookup,
              IntentLookup, CompleteHead, db
<1>9. ASSUME NEW i \in UploadId, Abort(i) PROVE UNCHANGED <<uploads, events>>
  BY <1>9 DEF Abort, db
<1>10. ASSUME NEW f \in Ref, UrlExpires(f) \/ \E c \in Content : ClientPut(f, c)
       PROVE  UNCHANGED <<uploads, events>>
  BY <1>10 DEF UrlExpires, ClientPut, db
<1>11. ASSUME NEW i \in UploadId, Advance(i) PROVE [Ledger!Next]_(Ledger!vars)
  <2>1. CASE i \in Doc /\ (InsertDoc(i) \/ InsertJob(i) \/ CreatePut(i) \/ CreateCommit(i))
    BY <1>1, <1>2, <1>3, <1>7, <2>1
  <2>2. CASE i \in Req /\ (UploadPut(i) \/ UploadLookup(i) \/ IntentLookup(i) \/ CompleteHead(i))
    BY <1>1, <1>8, <2>2
  <2>3. CASE i \in Req /\ (UploadInsert(i) \/ IntentInsert(i))
    BY <1>1, <1>2, <1>4, <1>5, <2>3
  <2>4. CASE i \in Req /\ CompleteConfirm(i)
    <3>1. arg[i].upload \in UploadId
      BY <2>4 DEF IInv, Handler, Uploading, Loaded, CompleteConfirm
    <3> QED BY <1>1, <1>2, <1>6, <2>4, <3>1
  <2> QED BY <1>11, <2>1, <2>2, <2>3, <2>4 DEF Advance
<1>12. CASE UNCHANGED vars
  BY <1>1, <1>12 DEF vars
<1> QED BY <1>1, <1>7, <1>8, <1>9, <1>10, <1>11, <1>12 DEF Next

\* Every behaviour of the handlers, however interleaved and wherever they stop,
\* is a behaviour of the ledger: an upload is accepted at most once, with the
\* target it was intended for, and its one DocumentUploaded is issued in that
\* very step, with the accepted metadata.
THEOREM Refinement == Spec => ImplementsLedger
<1>1. Init => Ledger!Init
  BY InitMaps
<1>2. IInv /\ IInv' /\ [Next]_vars => [Ledger!Next]_(Ledger!vars)
  BY StepMaps
<1> QED BY <1>1, <1>2, Invariance, PTL DEF Spec, ImplementsLedger, Ledger!Spec
=============================================================================
