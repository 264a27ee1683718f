---------------------------- MODULE IntakeLedger ----------------------------
(***************************************************************************)
(* Document Intake implements the upload ledger: the rows of uploads are   *)
(* the entries, the rows of event_outbox the notices.                      *)
(***************************************************************************)
EXTENDS Intake

StageOf(u) ==
  CASE uploads[u].status = "none"      -> "none"
    [] uploads[u].status = "pending"   -> "intended"
    [] uploads[u].status = "confirmed" -> "accepted"

TargetOf(u) ==
  IF uploads[u].status = "none" THEN None
  ELSE <<uploads[u].org, uploads[u].doc, uploads[u].ref>>

MeasureOf(u) ==
  IF uploads[u].status # "confirmed" THEN None
  ELSE <<uploads[u].size, uploads[u].sum>>

NoticeOf(i) ==
  IF events[i] = None THEN None
  ELSE LET e == events[i]
       IN <<e.upload, <<e.org, e.doc, e.ref>>, <<e.size, e.sum>>>>

Ledger == INSTANCE UploadLedger WITH
  Upload  <- UploadId,
  Notice  <- UploadId,
  Target  <- Org \X Doc \X Ref,
  Measure <- Size \X (Digest \cup {None}),
  Nothing <- None,
  stage   <- [u \in UploadId |-> StageOf(u)],
  target  <- [u \in UploadId |-> TargetOf(u)],
  measure <- [u \in UploadId |-> MeasureOf(u)],
  notices <- [i \in UploadId |-> NoticeOf(i)]

\* Every behaviour of the handlers, interleaved and interrupted anywhere, is
\* one of the ledger: intents settle an upload's target, and each acceptance,
\* by CreateDocumentAndQueue, uploadDocument or ConfirmUpload, happens once
\* and issues its one DocumentUploaded in the same step.
ImplementsLedger == Ledger!Spec
=============================================================================
