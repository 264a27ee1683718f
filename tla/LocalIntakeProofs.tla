------------------------- MODULE LocalIntakeProofs -------------------------
(***************************************************************************)
(* Proofs about Document Intake with its development adapters, for any     *)
(* documents, requests, keys, contents and restarts.                       *)
(***************************************************************************)
EXTENDS LocalIntake, TLAPS

-----------------------------------------------------------------------------
(* The inductive invariant *)

\* The file at f is all u's: nobody else opened it or can write it.
Owns(u, f) == writers[f] = {u} /\ f \notin urls

\* A record is empty, or waits for the file its URL leads to, or is confirmed
\* and has its file.
UploadOK(u) ==
  LET row == uploads[u]
  IN /\ row.status = "none" => row = NoUpload
     /\ row.status # "none" =>
          pc[u] = "done" /\ row.doc \in Doc /\ row.ref \in Ref /\ row.ref[1] = row.doc
     /\ row.status = "pending" => \A f \in Ref : u \notin writers[f]
     /\ row.status = "confirmed" =>
          /\ files[row.ref] # None
          /\ Owns(u, row.ref) => files[row.ref] = [size |-> row.size, sum |-> row.sum]

\* The document that handler i has got: since then its uploads may have been
\* confirmed, and nothing else.
CopyOK(i) ==
  LET rows == copy[i].rows
  IN /\ DOMAIN rows \subseteq UploadId
     /\ \A u \in DOMAIN rows :
          /\ rows[u] \in UploadRow /\ uploads[u].status # "none"
          /\ rows[u] = uploads[u] \/ (rows[u].status = "pending" /\ uploads[u].status = "confirmed")
     /\ copy[i].status = "processing" => \E u \in DOMAIN rows : rows[u].status = "confirmed"

\* A handler that stores bytes itself.
Storing(i) ==
  LET f == PutRef(arg[i].doc, arg[i].name)
  IN /\ arg[i].doc \in Doc /\ arg[i].name \in Name /\ arg[i].org \in Org
     /\ arg[i].size \in Size /\ arg[i].sum \in Digest
     /\ i \in Doc => arg[i].doc = i /\ arg[i].key = None /\ i \notin told
     /\ i \in Req => arg[i].doc \in told
     /\ pc[i] # "open" => i \in writers[f] /\ files[f] # None
     /\ pc[i] = "write" => (Owns(i, f) => files[f] = [size |-> 0, sum |-> None])
     /\ pc[i] \in {"insertDoc", "record"} =>
          (Owns(i, f) => files[f] = [size |-> arg[i].size, sum |-> arg[i].sum])
     /\ pc[i] = "record" /\ i \in Doc => docs[i].org = arg[i].org

\* A handler that confirms an upload.  A torn checksum shows that the upload
\* has been confirmed in the meantime.
Confirming(i) ==
  LET u == arg[i].upload
  IN /\ u \in UploadId
     /\ pc[i] = "find" => CopyOK(i) /\ u \in DOMAIN copy[i].rows /\ arg[i].sum # Torn
     /\ pc[i] \in {"head", "confirm"} =>
          /\ uploads[u].status # "none"
          /\ arg[i].sum = Torn => uploads[u].status = "confirmed"
     /\ pc[i] = "confirm" => files[uploads[u].ref] # None

HandlerOK(i) ==
  /\ pc[i] = "new" => i \notin told
  /\ pc[i] \in {"open", "write", "insertDoc", "record"} => Storing(i)
  /\ pc[i] = "intent" => arg[i].doc \in told /\ arg[i].sum # Torn
  /\ pc[i] \in {"find", "head", "confirm"} => Confirming(i)
  /\ pc[i] = "read" => CopyOK(i)
  /\ pc[i] \in {"insertDoc"} => i \in Doc
  /\ pc[i] \in {"intent", "find", "head", "confirm", "read"} => i \in Req

\* Who opened a file was on the way to store bytes.
WritersOK == \A f \in Ref : \A u \in writers[f] : pc[u] \in {"write", "insertDoc", "record", "done"}

\* A document that a client can ask for is processing only once it has a
\* confirmed upload.
Explained ==
  \A d \in told : docs[d].status = "processing" =>
    \E u \in UploadId : uploads[u].doc = d /\ uploads[u].status = "confirmed"

IInv ==
  /\ TypeOK
  /\ DOMAIN copy = UploadId /\ DOMAIN shown = Req
  /\ \A u \in UploadId : UploadOK(u)
  /\ \A i \in UploadId : HandlerOK(i)
  /\ WritersOK
  /\ Explained
  /\ OneUploadPerKey
  /\ ShownIsExplained

-----------------------------------------------------------------------------
(* What a step leaves alone *)

\* A record stays, or is confirmed at the path it has.
Grows(old, new) ==
  \/ new = old
  \/ old.status = "pending" /\ new.status = "confirmed" /\ new.ref = old.ref

\* What a step by the handlers S leaves alone of the others.
Around(S) ==
  /\ \A j \in UploadId \ S : pc'[j] = pc[j] /\ arg'[j] = arg[j] /\ copy'[j] = copy[j]
  /\ told \subseteq told' /\ told' \subseteq told \cup S
  /\ \A d \in Doc \ S : docs'[d].org = docs[d].org
  /\ \A u \in UploadId : uploads[u].status # "none" => Grows(uploads[u], uploads'[u])
  /\ \A f \in Ref : /\ files[f] # None => files'[f] # None
                    /\ writers[f] \subseteq writers'[f] /\ writers'[f] \subseteq writers[f] \cup S
                    /\ \A u \in UploadId \ S : Owns(u, f)' => Owns(u, f) /\ files'[f] = files[f]

\* The paths of the files.
LEMMA RefFacts ==
  ASSUME NEW d \in Doc
  PROVE  /\ \A n \in Name : PutRef(d, n) \in Ref /\ PutRef(d, n)[1] = d
         /\ \A r \in Req : PresignRef(d, r) \in Ref /\ PresignRef(d, r)[1] = d
  BY DEF PutRef, PresignRef, Ref

\* The document a handler has got stays true to the store.
LEMMA CopyFrame ==
  ASSUME NEW S, NEW i \in UploadId \ S, Around(S), CopyOK(i)
  PROVE  CopyOK(i)'
<1>1. copy'[i] = copy[i]
  BY DEF Around
<1>2. ASSUME NEW u \in DOMAIN copy[i].rows
      PROVE  /\ uploads'[u].status # "none"
             /\ \/ copy[i].rows[u] = uploads'[u]
                \/ copy[i].rows[u].status = "pending" /\ uploads'[u].status = "confirmed"
  BY <1>2 DEF Around, CopyOK, Grows
<1> QED BY <1>1, <1>2 DEF CopyOK

\* Storing bytes is not disturbed by the others.
LEMMA StoringFrame ==
  ASSUME NEW S, NEW i \in UploadId \ S, Around(S), Storing(i)
  PROVE  Storing(i)'
<1> DEFINE f == PutRef(arg[i].doc, arg[i].name)
<1>1. pc'[i] = pc[i] /\ arg'[i] = arg[i] /\ (i \notin told => i \notin told') /\ told \subseteq told'
  BY DEF Around
<1>2. f \in Ref
  BY RefFacts DEF Storing
<1>3. PICK g \in Ref : g = f
  BY <1>2
<1>4. i \in writers[g] => i \in writers'[g]
  BY <1>3 DEF Around
<1>5. files[g] # None => files'[g] # None
  BY <1>3 DEF Around
<1>6. Owns(i, g)' => Owns(i, g) /\ files'[g] = files[g]
  BY <1>3 DEF Around
<1>7. i \in Doc => docs'[i].org = docs[i].org
  BY DEF Around
<1>8. PutRef(arg[i].doc, arg[i].name)' = g
  BY <1>1, <1>3 DEF PutRef
<1> HIDE DEF f
<1>9. Owns(i, f) <=> Owns(i, g)
  BY <1>3
<1> QED BY <1>1, <1>3, <1>4, <1>5, <1>6, <1>7, <1>8, <1>9 DEF Storing, f, Owns

\* Neither is the confirmation of an upload.
LEMMA ConfirmingFrame ==
  ASSUME NEW S, NEW i \in UploadId \ S, Around(S), Confirming(i), \A u \in UploadId : UploadOK(u)
  PROVE  (pc[i] \in {"find", "head", "confirm"} => Confirming(i)')
<1> SUFFICES ASSUME pc[i] \in {"find", "head", "confirm"} PROVE Confirming(i)'
  OBVIOUS
<1>1. pc'[i] = pc[i] /\ arg'[i] = arg[i] /\ copy'[i] = copy[i]
  BY DEF Around
<1>2. PICK u \in UploadId : u = arg[i].upload
  BY DEF Confirming
<1>3. CASE pc[i] = "find"
  <2>1. CopyOK(i)'
    BY <1>3, CopyFrame DEF Confirming
  <2> QED BY <1>1, <1>2, <1>3, <2>1 DEF Confirming
<1>4. CASE pc[i] \in {"head", "confirm"}
  <2>1. uploads[u].status # "none" /\ Grows(uploads[u], uploads'[u])
    BY <1>2, <1>4 DEF Confirming, Around
  <2>2. uploads'[u].status # "none" /\ uploads'[u].ref = uploads[u].ref
    BY <2>1 DEF Grows
  <2>3. uploads[u].ref \in Ref
    BY <2>1 DEF UploadOK
  <2>4. pc[i] = "confirm" => files'[uploads'[u].ref] # None
    BY <1>2, <2>2, <2>3 DEF Confirming, Around
  <2>5. arg[i].sum = Torn => uploads'[u].status = "confirmed"
    BY <1>2, <1>4, <2>1 DEF Confirming, Grows
  <2> QED BY <1>1, <1>2, <1>4, <2>2, <2>4, <2>5 DEF Confirming
<1> QED BY <1>3, <1>4

\* So the handlers that do not take part in a step stay as they should be.
LEMMA HandlerFrame ==
  ASSUME NEW S, NEW i \in UploadId \ S, Around(S), HandlerOK(i), \A u \in UploadId : UploadOK(u)
  PROVE  HandlerOK(i)'
<1>1. pc'[i] = pc[i] /\ arg'[i] = arg[i] /\ (i \notin told => i \notin told') /\ told \subseteq told'
  BY DEF Around
<1>2. pc[i] \in {"open", "write", "insertDoc", "record"} => Storing(i)'
  BY StoringFrame DEF HandlerOK
<1>3. pc[i] \in {"find", "head", "confirm"} => Confirming(i)'
  BY ConfirmingFrame DEF HandlerOK
<1>4. pc[i] = "read" => CopyOK(i)'
  BY CopyFrame DEF HandlerOK
<1> QED BY <1>1, <1>2, <1>3, <1>4 DEF HandlerOK

\* A record that a step does not write stays as it should be.
LEMMA UploadFrame ==
  ASSUME NEW S, NEW u \in UploadId, Around(S), UploadOK(u), uploads'[u] = uploads[u],
         u \in S => uploads[u] = NoUpload
  PROVE  UploadOK(u)'
<1>1. CASE uploads[u].status = "none"
  BY <1>1 DEF UploadOK
<1>2. CASE uploads[u].status # "none"
  <2>1. u \notin S
    BY <1>2 DEF NoUpload
  <2>2. pc'[u] = pc[u]
    BY <2>1 DEF Around
  <2>3. PICK f \in Ref : f = uploads[u].ref
    BY <1>2 DEF UploadOK
  <2>4. /\ files[f] # None => files'[f] # None
        /\ Owns(u, f)' => Owns(u, f) /\ files'[f] = files[f]
    BY <2>1 DEF Around
  <2>5. uploads[u].status = "pending" => \A g \in Ref : u \notin writers'[g]
    BY <2>1 DEF UploadOK, Around
  <2> QED BY <1>2, <2>2, <2>3, <2>4, <2>5 DEF UploadOK, Owns
<1> QED BY <1>1, <1>2

\* A handler on its way has no record yet.
LEMMA NoRecordYet ==
  ASSUME IInv, NEW i \in UploadId, pc[i] # "done"
  PROVE  uploads[i] = NoUpload
  BY DEF IInv, UploadOK

\* What is left to show of a step of handler i that leaves the others alone.
LEMMA Assemble ==
  ASSUME IInv, NEW i \in UploadId, Around({i}), HandlerOK(i)',
         i \in UNION {writers'[f] : f \in Ref} => pc'[i] \in {"write", "insertDoc", "record", "done"}
  PROVE  (\A j \in UploadId : HandlerOK(j)') /\ WritersOK'
<1>1. ASSUME NEW j \in UploadId PROVE HandlerOK(j)'
  <2>1. CASE j = i
    BY <2>1
  <2>2. CASE j # i
    BY <2>2, HandlerFrame DEF IInv
  <2> QED BY <2>1, <2>2
<1>2. ASSUME NEW f \in Ref, NEW u \in writers'[f]
      PROVE  pc'[u] \in {"write", "insertDoc", "record", "done"}
  <2>1. CASE u = i
    BY <2>1, <1>2
  <2>2. CASE u # i
    <3>1. u \in writers[f] /\ u \in UploadId
      BY <1>2, <2>2 DEF Around, IInv, TypeOK
    <3> QED BY <2>2, <3>1 DEF Around, IInv, WritersOK
  <2> QED BY <2>1, <2>2
<1> QED BY <1>1, <1>2 DEF WritersOK

\* A handler that changes only where it is keeps the invariant, as long as
\* that is a state it may be in.
LEMMA Quiet ==
  ASSUME IInv, NEW i \in UploadId, pc[i] # "done", NEW label \in Label, NEW a \in Arg,
         pc' = [pc EXCEPT ![i] = label], arg' = [arg EXCEPT ![i] = a],
         DOMAIN copy' = UploadId, \A j \in UploadId \ {i} : copy'[j] = copy[j],
         UNCHANGED <<memory, disk, told, shown, restarts>>, HandlerOK(i)',
         pc[i] \in {"write", "insertDoc", "record"} => label \in {"write", "insertDoc", "record", "done"}
  PROVE  IInv'
<1> USE DEF memory, disk
<1>1. TypeOK'
  BY DEF IInv, TypeOK
<1>2. Around({i})
  <2>1. \A j \in UploadId \ {i} : pc'[j] = pc[j] /\ arg'[j] = arg[j] /\ copy'[j] = copy[j]
    BY DEF IInv, TypeOK
  <2> QED BY <2>1 DEF Around, Grows, Owns
<1>3. pc'[i] = label
  BY DEF IInv, TypeOK
<1>4. i \in UNION {writers'[f] : f \in Ref} => pc'[i] \in {"write", "insertDoc", "record", "done"}
  BY <1>3 DEF IInv, WritersOK
<1>5. (\A j \in UploadId : HandlerOK(j)') /\ WritersOK'
  BY <1>2, <1>4, Assemble
<1>6. \A u \in UploadId : UploadOK(u)'
  BY <1>2, UploadFrame, NoRecordYet DEF IInv
<1>7. Explained' /\ OneUploadPerKey' /\ ShownIsExplained' /\ DOMAIN shown' = Req
  BY DEF IInv, Explained, OneUploadPerKey, ShownIsExplained
<1> QED BY <1>1, <1>5, <1>6, <1>7 DEF IInv

\* A handler that ends is where it may be.
LEMMA EndOK ==
  ASSUME IInv, NEW i \in UploadId, End(i)
  PROVE  HandlerOK(i)' /\ pc' \in [UploadId -> Label] /\ arg' \in [UploadId -> Arg] /\ pc'[i] = "done"
<1>1. NoArg \in Arg
  BY DEF NoArg, Arg
<1>2. pc' \in [UploadId -> Label] /\ arg' \in [UploadId -> Arg] /\ pc'[i] = "done"
  BY <1>1 DEF End, IInv, TypeOK, Label
<1> QED BY <1>2 DEF HandlerOK

\* Ending without a change to the store keeps the invariant.
LEMMA QuietEnd ==
  ASSUME IInv, NEW i \in UploadId, pc[i] # "done", End(i),
         DOMAIN copy' = UploadId, \A j \in UploadId \ {i} : copy'[j] = copy[j],
         UNCHANGED <<memory, disk, told, shown, restarts>>
  PROVE  IInv'
<1>1. NoArg \in Arg /\ "done" \in Label
  BY DEF NoArg, Arg, Label
<1>2. HandlerOK(i)'
  BY EndOK
<1> QED BY <1>1, <1>2, Quiet DEF End

-----------------------------------------------------------------------------
(* The steps of handlers that leave the store alone *)

\* CreateDocument with content begins.
LEMMA CreateWithContentStep ==
  ASSUME IInv, NEW d \in Doc, CreateWithContent(d)
  PROVE  IInv'
<1> USE DEF CreateWithContent, Goto
<1>1. PICK org \in Org, name \in Name, c \in Content :
        arg' = [arg EXCEPT ![d] = Request(org, d, name, None, None, c)]
  OBVIOUS
<1> DEFINE a == Request(org, d, name, None, None, c)
<1>2. d \in UploadId /\ c.size \in Size /\ c.sum \in Digest
  BY DEF UploadId, Content
<1>3. a \in Arg /\ "open" \in Label
  BY <1>2 DEF Request, Arg, Label
<1>4. arg'[d] = a /\ pc'[d] = "open"
  BY <1>1, <1>2 DEF IInv, TypeOK
<1>5. d \notin told /\ d \notin Req
  BY <1>2, LocalAssumption DEF IInv, HandlerOK
<1>6. Storing(d)'
  BY <1>2, <1>4, <1>5 DEF Storing, Request
<1>7. HandlerOK(d)'
  BY <1>4, <1>6 DEF HandlerOK
<1> QED BY <1>1, <1>2, <1>3, <1>7, Quiet DEF IInv

\* UploadDocument looks at the document and at its keys.
LEMMA UploadDocumentStep ==
  ASSUME IInv, NEW r \in Req, UploadDocument(r)
  PROVE  IInv'
<1> USE DEF UploadDocument, Goto
<1>0. r \in UploadId
  BY DEF UploadId
<1>1. CASE End(r)
  BY <1>0, <1>1, QuietEnd DEF IInv
<1>2. CASE ~End(r)
  <2>1. PICK org \in Org, d \in told, name \in Name, k \in Key \cup {None}, c \in Content :
          /\ arg' = [arg EXCEPT ![r] = Request(org, d, name, k, None, c)]
          /\ pc' = [pc EXCEPT ![r] = "open"]
    BY <1>2
  <2> DEFINE a == Request(org, d, name, k, None, c)
  <2>2. c.size \in Size /\ c.sum \in Digest /\ d \in Doc /\ r \notin Doc
    BY LocalAssumption DEF Content, IInv, TypeOK
  <2>3. a \in Arg /\ "open" \in Label
    BY <2>2 DEF Request, Arg, Label
  <2>4. arg'[r] = a /\ pc'[r] = "open"
    BY <1>0, <2>1 DEF IInv, TypeOK
  <2>5. Storing(r)'
    BY <2>2, <2>4 DEF Storing, Request
  <2>6. HandlerOK(r)'
    BY <2>4, <2>5 DEF HandlerOK
  <2> QED BY <1>0, <2>1, <2>3, <2>6, Quiet DEF IInv
<1> QED BY <1>1, <1>2

\* CreateUploadIntent looks at the document.
LEMMA CreateUploadIntentStep ==
  ASSUME IInv, NEW r \in Req, CreateUploadIntent(r)
  PROVE  IInv'
<1> USE DEF CreateUploadIntent, Goto
<1>0. r \in UploadId
  BY DEF UploadId
<1>1. CASE End(r)
  BY <1>0, <1>1, QuietEnd DEF IInv
<1>2. CASE ~End(r)
  <2>1. PICK org \in Org, d \in told, k \in Key \cup {None},
               c \in [size: Size, sum: Digest \cup {None}] :
          /\ arg' = [arg EXCEPT ![r] = Request(org, d, None, k, None, c)]
          /\ pc' = [pc EXCEPT ![r] = "intent"]
    BY <1>2
  <2> DEFINE a == Request(org, d, None, k, None, c)
  <2>2. d \in Doc /\ c.sum # Torn
    BY LocalAssumption, FileAssumption DEF IInv, TypeOK
  <2>3. a \in Arg /\ "intent" \in Label
    BY <2>2 DEF Request, Arg, Label
  <2>4. arg'[r] = a /\ pc'[r] = "intent"
    BY <1>0, <2>1 DEF IInv, TypeOK
  <2>5. a.doc = d /\ a.sum = c.sum
    BY DEF Request
  <2>6. HandlerOK(r)'
    BY <2>2, <2>4, <2>5 DEF HandlerOK
  <2> QED BY <1>0, <2>1, <2>3, <2>6, Quiet DEF IInv
<1> QED BY <1>1, <1>2

\* What GetDocument returns is the document as it is.
LEMMA FetchOK ==
  ASSUME IInv, NEW r \in UploadId, NEW d \in told, Fetch(r, d), UNCHANGED uploads
  PROVE  /\ CopyOK(r)' /\ DOMAIN copy'[r].rows = UploadsOf(d)
         /\ DOMAIN copy' = UploadId /\ \A j \in UploadId \ {r} : copy'[j] = copy[j]
<1>1. d \in Doc /\ d # None
  BY LocalAssumption DEF IInv, TypeOK
<1>2. /\ copy'[r] = [status |-> docs[d].status, rows |-> [u \in UploadsOf(d) |-> uploads[u]]]
      /\ DOMAIN copy' = UploadId /\ \A j \in UploadId \ {r} : copy'[j] = copy[j]
  BY DEF Fetch, IInv
<1>3. /\ copy'[r].status = docs[d].status /\ DOMAIN copy'[r].rows = UploadsOf(d)
      /\ \A u \in UploadsOf(d) : copy'[r].rows[u] = uploads[u]
  BY <1>2
<1>4. ASSUME NEW u \in UploadsOf(d)
      PROVE  u \in UploadId /\ uploads[u] \in UploadRow /\ uploads[u].status # "none"
  <2>1. u \in UploadId /\ uploads[u].doc = d
    BY DEF UploadsOf
  <2>2. UploadOK(u) /\ uploads[u] \in UploadRow
    BY <2>1 DEF IInv, TypeOK
  <2>3. uploads[u] # NoUpload
    BY <1>1, <2>1 DEF NoUpload
  <2> QED BY <2>1, <2>2, <2>3 DEF UploadOK
<1>5. docs[d].status = "processing" => \E u \in UploadsOf(d) : uploads[u].status = "confirmed"
  BY DEF IInv, Explained, UploadsOf
<1> QED BY <1>2, <1>3, <1>4, <1>5 DEF CopyOK

\* CompleteUpload gets the document.
LEMMA CompleteUploadStep ==
  ASSUME IInv, NEW r \in Req, CompleteUpload(r)
  PROVE  IInv'
<1> USE DEF CompleteUpload, Goto
<1>0. r \in UploadId
  BY DEF UploadId
<1>1. CASE End(r) /\ UNCHANGED copy
  BY <1>0, <1>1, QuietEnd DEF IInv
<1>2. CASE ~(End(r) /\ UNCHANGED copy)
  <2>1. PICK org \in Org, d \in told, u \in UploadId,
               c \in [size: Size \cup {0}, sum: Digest \cup {None}] :
          /\ u \in UploadsOf(d) /\ Fetch(r, d)
          /\ arg' = [arg EXCEPT ![r] = Request(org, d, None, None, u, c)]
          /\ pc' = [pc EXCEPT ![r] = "find"]
    BY <1>2
  <2> DEFINE a == Request(org, d, None, None, u, c)
  <2>2. d \in Doc /\ c.sum # Torn
    BY LocalAssumption, FileAssumption DEF IInv, TypeOK
  <2>3. a \in Arg /\ "find" \in Label
    BY <2>2 DEF Request, Arg, Label
  <2>4. arg'[r] = a /\ pc'[r] = "find"
    BY <1>0, <2>1 DEF IInv, TypeOK
  <2>5. a.upload = u /\ a.sum = c.sum
    BY DEF Request
  <2>6. /\ CopyOK(r)' /\ DOMAIN copy'[r].rows = UploadsOf(d)
        /\ DOMAIN copy' = UploadId /\ \A j \in UploadId \ {r} : copy'[j] = copy[j]
    BY <1>0, <2>1, FetchOK DEF memory
  <2>7. Confirming(r)'
    BY <2>1, <2>2, <2>4, <2>5, <2>6 DEF Confirming
  <2>8. HandlerOK(r)'
    BY <2>4, <2>7 DEF HandlerOK
  <2> QED BY <1>0, <2>1, <2>3, <2>6, <2>8, Quiet
<1> QED BY <1>1, <1>2

\* GetDocument gets the document.
LEMMA GetDocumentStep ==
  ASSUME IInv, NEW r \in Req, GetDocument(r)
  PROVE  IInv'
<1> USE DEF GetDocument, Goto
<1>0. r \in UploadId
  BY DEF UploadId
<1>1. CASE End(r) /\ UNCHANGED copy
  BY <1>0, <1>1, QuietEnd DEF IInv
<1>2. CASE ~(End(r) /\ UNCHANGED copy)
  <2>1. PICK d \in told : Fetch(r, d) /\ pc' = [pc EXCEPT ![r] = "read"] /\ UNCHANGED arg
    BY <1>2
  <2>2. arg[r] \in Arg /\ arg' = [arg EXCEPT ![r] = arg[r]] /\ "read" \in Label /\ pc'[r] = "read"
    BY <1>0, <2>1 DEF IInv, TypeOK, Label
  <2>3. CopyOK(r)' /\ DOMAIN copy' = UploadId /\ \A j \in UploadId \ {r} : copy'[j] = copy[j]
    BY <1>0, <2>1, FetchOK DEF memory
  <2>4. HandlerOK(r)'
    BY <2>2, <2>3 DEF HandlerOK
  <2>5. PICK a \in Arg : a = arg[r]
    BY <2>2
  <2> QED BY <1>0, <2>1, <2>2, <2>3, <2>4, <2>5, Quiet
<1> QED BY <1>1, <1>2

\* findUpload reads the record, or half of it: a torn checksum is that of a
\* record confirmed in the meantime.
LEMMA FindUploadStep ==
  ASSUME IInv, NEW r \in Req, FindUpload(r)
  PROVE  IInv'
<1> USE DEF FindUpload, Goto
<1>0. r \in UploadId
  BY DEF UploadId
<1>1. DOMAIN copy' = UploadId /\ \A j \in UploadId \ {r} : copy'[j] = copy[j]
  BY DEF IInv
<1>2. CASE End(r)
  BY <1>0, <1>1, <1>2, QuietEnd
<1>3. CASE ~End(r)
  <2>1. PICK u \in UploadId : u = arg[r].upload
    BY <1>0 DEF IInv, HandlerOK, Confirming
  <2>2. PICK seen \in Seen(r, u) :
          /\ arg' = [arg EXCEPT ![r].sum = IF @ # None THEN @ ELSE seen.sum]
          /\ pc' = [pc EXCEPT ![r] = "head"]
    BY <1>3, <2>1
  <2>3. /\ CopyOK(r) /\ u \in DOMAIN copy[r].rows /\ arg[r].sum # Torn /\ arg[r] \in Arg
    BY <1>0, <2>1 DEF IInv, TypeOK, HandlerOK, Confirming
  <2>4. PICK s : s = IF arg[r].sum # None THEN arg[r].sum ELSE seen.sum
    OBVIOUS
  <2>5. uploads[u] \in UploadRow /\ copy[r].rows[u] \in UploadRow
    BY <2>3 DEF IInv, TypeOK, CopyOK
  <2>6. seen.sum \in Racing(copy[r].rows[u].sum, uploads[u].sum)
    BY <2>2 DEF Seen
  <2>7. /\ seen.sum \in Digest \cup {Torn, None}
        /\ seen.sum = Torn => uploads[u].status = "confirmed"
    <3>1. copy[r].rows[u].sum \in Digest \cup {None} /\ uploads[u].sum \in Digest \cup {None}
      BY <2>5 DEF UploadRow
    <3>2. copy[r].rows[u].sum # Torn /\ uploads[u].sum # Torn
      BY <3>1, LocalAssumption, FileAssumption
    <3>3. copy[r].rows[u] = uploads[u] \/ uploads[u].status = "confirmed"
      BY <2>3 DEF CopyOK
    <3> QED BY <2>6, <3>1, <3>2, <3>3 DEF Racing
  <2>8. PICK a \in Arg : /\ a.upload = u /\ a.sum = s /\ arg' = [arg EXCEPT ![r] = a]
    <3> DEFINE b == [arg[r] EXCEPT !.sum = s]
    <3>1. s \in Digest \cup {Torn, None}
      BY <2>3, <2>4, <2>7 DEF Arg
    <3>2. b \in Arg /\ b.upload = u /\ b.sum = s
      BY <2>1, <2>3, <3>1 DEF Arg
    <3>3. arg' = [arg EXCEPT ![r] = b]
      BY <1>0, <2>2, <2>4 DEF IInv, TypeOK
    <3> QED BY <3>2, <3>3
  <2>9. arg'[r] = a /\ pc'[r] = "head" /\ "head" \in Label
    BY <1>0, <2>2, <2>8 DEF IInv, TypeOK, Label
  <2>10. uploads[u].status # "none" /\ (s = Torn => uploads[u].status = "confirmed")
    BY <2>3, <2>4, <2>7 DEF CopyOK
  <2>11. Confirming(r)'
    BY <2>8, <2>9, <2>10 DEF Confirming, memory
  <2>12. HandlerOK(r)'
    BY <2>9, <2>11 DEF HandlerOK
  <2> QED BY <1>0, <1>1, <2>2, <2>8, <2>9, <2>12, Quiet
<1> QED BY <1>2, <1>3

\* Head finds the file, and so does what follows.
LEMMA HeadStep ==
  ASSUME IInv, NEW r \in Req, Head(r)
  PROVE  IInv'
<1> USE DEF Head, Goto
<1>0. r \in UploadId
  BY DEF UploadId
<1>1. CASE End(r)
  BY <1>0, <1>1, QuietEnd DEF IInv
<1>2. CASE ~End(r)
  <2>1. PICK u \in UploadId : u = arg[r].upload
    BY <1>0 DEF IInv, HandlerOK, Confirming
  <2>2. Confirming(r) /\ uploads[u].status # "none" /\ arg[r] \in Arg
    BY <1>0, <2>1 DEF IInv, TypeOK, HandlerOK, Confirming
  <2>3. PICK f \in Ref : f = uploads[u].ref
    BY <2>2 DEF IInv, UploadOK
  <2>4. /\ files[f] # None /\ arg' = [arg EXCEPT ![r].size = files[f].size]
        /\ pc' = [pc EXCEPT ![r] = "confirm"]
    BY <1>2, <2>1, <2>3
  <2>5. files[f].size \in Size \cup {0}
    BY <2>4 DEF IInv, TypeOK, File
  <2>6. PICK a \in Arg : a.upload = u /\ a.sum = arg[r].sum /\ arg' = [arg EXCEPT ![r] = a]
    <3> DEFINE b == [arg[r] EXCEPT !.size = files[f].size]
    <3>1. b \in Arg /\ b.upload = u /\ b.sum = arg[r].sum
      BY <2>1, <2>2, <2>5 DEF Arg
    <3>2. arg' = [arg EXCEPT ![r] = b]
      BY <1>0, <2>4 DEF IInv, TypeOK
    <3> QED BY <3>1, <3>2
  <2>7. arg'[r] = a /\ pc'[r] = "confirm" /\ "confirm" \in Label
    BY <1>0, <2>4, <2>6 DEF IInv, TypeOK, Label
  <2>8. Confirming(r)'
    BY <2>1, <2>2, <2>3, <2>4, <2>6, <2>7 DEF Confirming, memory, disk
  <2>9. HandlerOK(r)'
    BY <2>7, <2>8 DEF HandlerOK
  <2> QED BY <1>0, <2>4, <2>6, <2>7, <2>9, Quiet DEF IInv
<1> QED BY <1>1, <1>2

\* An error of the file system ends a handler.
LEMMA StorageFailsStep ==
  ASSUME IInv, NEW i \in UploadId, StorageFails(i)
  PROVE  IInv'
  BY QuietEnd DEF StorageFails, IInv

-----------------------------------------------------------------------------
(* The steps that write files *)

\* What is left to show of a step that writes only the file f: opened by
\* handler i, or behind a URL.
LEMMA WriteOK ==
  ASSUME IInv, NEW S, NEW f \in Ref, NEW c \in File, files' = [files EXCEPT ![f] = c],
         UNCHANGED <<memory, urls, copy, told, shown, restarts>>,
         \A u \in UploadId \ S : pc'[u] = pc[u] /\ arg'[u] = arg[u],
         \A g \in Ref : writers[g] \subseteq writers'[g] /\ writers'[g] \subseteq writers[g] \cup S,
         f \in urls \/ \E i \in S : i \in writers'[f],
         \A u \in S \cap UploadId : uploads[u] = NoUpload
  PROVE  /\ Around(S) /\ \A u \in UploadId : UploadOK(u)'
         /\ files' \in [Ref -> File \cup {None}]
         /\ Explained' /\ OneUploadPerKey' /\ ShownIsExplained'
<1> USE DEF memory
<1>1. files' \in [Ref -> File \cup {None}]
  BY DEF IInv, TypeOK
<1>2. files'[f] # None /\ \A g \in Ref \ {f} : files'[g] = files[g]
  BY FileAssumption DEF IInv, TypeOK
<1>3. ASSUME NEW g \in Ref, NEW u \in UploadId \ S, Owns(u, g)'
      PROVE  Owns(u, g) /\ files'[g] = files[g]
  <2>1. writers'[g] = {u} /\ g \notin urls
    BY <1>3 DEF Owns
  <2>2. g # f
    BY <2>1
  <2>3. writers[g] = {u}
    BY <2>1
  <2> QED BY <1>2, <2>1, <2>2, <2>3 DEF Owns
<1>4. Around(S)
  BY <1>2, <1>3 DEF Around, Grows
<1>5. \A u \in UploadId : UploadOK(u)'
  BY <1>4, UploadFrame DEF IInv
<1>6. Explained' /\ OneUploadPerKey' /\ ShownIsExplained'
  BY DEF IInv, Explained, OneUploadPerKey, ShownIsExplained
<1> QED BY <1>1, <1>4, <1>5, <1>6

\* Put opens the file.
LEMMA PutOpenStep ==
  ASSUME IInv, NEW i \in UploadId, pc[i] = "open", PutOpen(i, "write")
  PROVE  IInv'
<1> USE DEF PutOpen, Goto
<1>1. Storing(i)
  BY DEF IInv, HandlerOK
<1>2. PICK f \in Ref : f = PutRef(arg[i].doc, arg[i].name)
  BY <1>1, RefFacts DEF Storing
<1>3. PICK c \in File : c = [size |-> 0, sum |-> None]
  BY DEF File
<1>4. files' = [files EXCEPT ![f] = c] /\ writers' = [writers EXCEPT ![f] = writers[f] \cup {i}]
  BY <1>2, <1>3
<1>5. /\ pc'[i] = "write" /\ arg'[i] = arg[i] /\ files'[f] = c /\ i \in writers'[f]
      /\ \A u \in UploadId \ {i} : pc'[u] = pc[u] /\ arg'[u] = arg[u]
      /\ \A g \in Ref : writers[g] \subseteq writers'[g] /\ writers'[g] \subseteq writers[g] \cup {i}
  BY <1>4 DEF IInv, TypeOK
<1>6. uploads[i] = NoUpload
  BY NoRecordYet
<1>7. /\ Around({i}) /\ \A u \in UploadId : UploadOK(u)'
      /\ files' \in [Ref -> File \cup {None}]
      /\ Explained' /\ OneUploadPerKey' /\ ShownIsExplained'
  <2>1. /\ \A u \in UploadId \ {i} : pc'[u] = pc[u] /\ arg'[u] = arg[u]
        /\ \A g \in Ref : writers[g] \subseteq writers'[g] /\ writers'[g] \subseteq writers[g] \cup {i}
    BY <1>5
  <2>2. f \in urls \/ \E j \in {i} : j \in writers'[f]
    BY <1>5
  <2>3. \A u \in {i} \cap UploadId : uploads[u] = NoUpload
    BY <1>6
  <2>4. UNCHANGED <<memory, urls, copy, told, shown, restarts>>
    OBVIOUS
  <2> HIDE DEF PutOpen
  <2> QED BY <1>4, <2>1, <2>2, <2>3, <2>4, WriteOK, Zenon
<1>8. TypeOK'
  <2>1. pc' \in [UploadId -> Label]
    BY DEF IInv, TypeOK, Label
  <2>2. writers' \in [Ref -> SUBSET UploadId]
    <3>1. writers \in [Ref -> SUBSET UploadId] /\ writers[f] \cup {i} \in SUBSET UploadId
      BY DEF IInv, TypeOK
    <3> HIDE DEF PutOpen
    <3> QED BY <1>4, <3>1
  <2> QED BY <1>7, <2>1, <2>2 DEF IInv, TypeOK, memory
<1>9. HandlerOK(i)'
  <2>1. PutRef(arg[i].doc, arg[i].name)' = f
    BY <1>2
  <2>2. files'[f] # None
    BY <1>5, FileAssumption
  <2>3. Storing(i)'
    BY <1>1, <1>3, <1>5, <2>1, <2>2 DEF Storing
  <2> QED BY <1>5, <2>3 DEF HandlerOK
<1>10. (\A j \in UploadId : HandlerOK(j)') /\ WritersOK'
  BY <1>5, <1>7, <1>9, Assemble
<1> QED BY <1>7, <1>8, <1>10 DEF IInv

\* Put writes the file it opened.  If it is alone with it, the file is still
\* empty, and then holds what the handler was sent.
LEMMA PutWriteStep ==
  ASSUME IInv, NEW i \in UploadId, pc[i] = "write", NEW next,
         \/ next = "insertDoc" /\ i \in Doc
         \/ next = "record" /\ i \in Req,
         PutWrite(i, next)
  PROVE  IInv'
<1> USE DEF PutWrite, Goto
<1>1. Storing(i)
  BY DEF IInv, HandlerOK
<1>2. PICK f \in Ref : f = PutRef(arg[i].doc, arg[i].name)
  BY <1>1, RefFacts DEF Storing
<1>3. /\ files[f] \in File /\ i \in writers[f]
      /\ Owns(i, f) => files[f] = [size |-> 0, sum |-> None]
      /\ arg[i].size \in Size /\ arg[i].sum \in Digest
  BY <1>1, <1>2 DEF IInv, TypeOK, Storing
<1>4. PICK c \in File :
        /\ files' = [files EXCEPT ![f] = c]
        /\ Owns(i, f) => c = [size |-> arg[i].size, sum |-> arg[i].sum]
  <2>1. CASE files[f].size > arg[i].size
    <3>1. [files[f] EXCEPT !.sum = Torn] \in File
      BY <1>3 DEF File
    <3>2. files' = [files EXCEPT ![f] = [files[f] EXCEPT !.sum = Torn]]
      BY <1>2, <2>1
    <3>3. ~Owns(i, f)
      BY <1>3, <2>1, LocalAssumption
    <3> QED BY <3>1, <3>2, <3>3
  <2>2. CASE ~(files[f].size > arg[i].size)
    <3>1. [size |-> arg[i].size, sum |-> arg[i].sum] \in File
      BY <1>3 DEF File
    <3>2. files' = [files EXCEPT ![f] = [size |-> arg[i].size, sum |-> arg[i].sum]]
      BY <1>2, <2>2
    <3> QED BY <3>1, <3>2
  <2> QED BY <2>1, <2>2
<1>5. /\ pc'[i] = next /\ arg'[i] = arg[i] /\ files'[f] = c
      /\ \A u \in UploadId \ {i} : pc'[u] = pc[u] /\ arg'[u] = arg[u]
  BY <1>4 DEF IInv, TypeOK
<1>6. uploads[i] = NoUpload
  BY NoRecordYet
<1>7. /\ Around({i}) /\ \A u \in UploadId : UploadOK(u)'
      /\ files' \in [Ref -> File \cup {None}]
      /\ Explained' /\ OneUploadPerKey' /\ ShownIsExplained'
  <2>1. \A g \in Ref : writers[g] \subseteq writers'[g] /\ writers'[g] \subseteq writers[g] \cup {i}
    OBVIOUS
  <2>2. f \in urls \/ \E j \in {i} : j \in writers'[f]
    BY <1>3
  <2>3. \A u \in {i} \cap UploadId : uploads[u] = NoUpload
    BY <1>6
  <2>4. UNCHANGED <<memory, urls, copy, told, shown, restarts>>
    OBVIOUS
  <2>5. \A u \in UploadId \ {i} : pc'[u] = pc[u] /\ arg'[u] = arg[u]
    BY <1>5
  <2> HIDE DEF PutWrite
  <2> QED BY <1>4, <2>1, <2>2, <2>3, <2>4, <2>5, WriteOK, Zenon
<1>8. TypeOK'
  <2>1. pc' \in [UploadId -> Label]
    BY DEF IInv, TypeOK, Label
  <2> QED BY <1>7, <2>1 DEF IInv, TypeOK, memory
<1>9. HandlerOK(i)'
  <2>1. PutRef(arg[i].doc, arg[i].name)' = f
    BY <1>2
  <2>2. files'[f] # None
    BY <1>5, FileAssumption
  <2>3. Owns(i, f)' <=> Owns(i, f)
    BY DEF Owns
  <2>4. i \in Doc => next = "insertDoc"
    BY LocalAssumption
  <2>5. Storing(i)'
    BY <1>1, <1>3, <1>4, <1>5, <2>1, <2>2, <2>3, <2>4 DEF Storing
  <2> QED BY <1>5, <2>5 DEF HandlerOK
<1>10. (\A j \in UploadId : HandlerOK(j)') /\ WritersOK'
  BY <1>5, <1>7, <1>9, Assemble
<1> QED BY <1>7, <1>8, <1>10 DEF IInv

\* A client writes the file behind its URL.
LEMMA ClientPutStep ==
  ASSUME IInv, NEW f \in Ref, NEW c \in Content, ClientPut(f, c)
  PROVE  IInv'
<1> USE DEF ClientPut, handlers
<1>1. c \in File
  BY DEF Content, File
<1>2. /\ Around({}) /\ \A u \in UploadId : UploadOK(u)'
      /\ files' \in [Ref -> File \cup {None}]
      /\ Explained' /\ OneUploadPerKey' /\ ShownIsExplained'
  <2>1. files' = [files EXCEPT ![f] = c] /\ UNCHANGED <<memory, urls, copy, told, shown, restarts>>
    OBVIOUS
  <2>2. \A u \in UploadId \ {} : pc'[u] = pc[u] /\ arg'[u] = arg[u]
    OBVIOUS
  <2>3. \A g \in Ref : writers[g] \subseteq writers'[g] /\ writers'[g] \subseteq writers[g] \cup {}
    OBVIOUS
  <2>4. f \in urls \/ \E j \in {} : j \in writers'[f]
    OBVIOUS
  <2>5. \A u \in {} \cap UploadId : uploads[u] = NoUpload
    OBVIOUS
  <2> HIDE DEF ClientPut
  <2> QED BY <1>1, <2>1, <2>2, <2>3, <2>4, <2>5, WriteOK, Zenon
<1>3. \A i \in UploadId : HandlerOK(i)'
  BY <1>2, HandlerFrame DEF IInv
<1>4. TypeOK' /\ WritersOK'
  BY <1>2 DEF IInv, TypeOK, WritersOK, memory
<1> QED BY <1>2, <1>3, <1>4 DEF IInv

-----------------------------------------------------------------------------
(* The steps that write the store *)

\* A document becomes processing.
LEMMA Queued ==
  ASSUME IInv, NEW d \in Doc, NEW ref \in Ref,
         \/ docs' = [docs EXCEPT ![d].status = "processing", ![d].job = "queued", ![d].ref = ref]
         \/ docs' = [docs EXCEPT ![d].status = "processing", ![d].job = "queued"]
  PROVE  /\ docs' \in [Doc -> DocRow]
         /\ docs'[d].org = docs[d].org /\ \A e \in Doc \ {d} : docs'[e] = docs[e]
<1>1. docs \in [Doc -> DocRow] /\ docs[d] \in DocRow
  BY DEF IInv, TypeOK
<1> DEFINE row1 == [docs[d] EXCEPT !.status = "processing"]
           row2 == [row1 EXCEPT !.job = "queued"]
           row3 == [row2 EXCEPT !.ref = ref]
<1>2. row1 \in DocRow /\ row1.org = docs[d].org
  BY <1>1 DEF DocRow
<1> HIDE DEF row1
<1>3. row2 \in DocRow /\ row2.org = docs[d].org
  BY <1>2 DEF DocRow
<1> HIDE DEF row2
<1>4. row3 \in DocRow /\ row3.org = docs[d].org
  BY <1>3 DEF DocRow
<1> HIDE DEF row3
<1>5. docs' = [docs EXCEPT ![d] = row2] \/ docs' = [docs EXCEPT ![d] = row3]
  BY <1>1 DEF row1, row2, row3
<1> QED BY <1>1, <1>3, <1>4, <1>5

\* A record is confirmed.
LEMMA Confirmed ==
  ASSUME IInv, NEW u \in UploadId, NEW n \in Size \cup {0}, NEW s \in Digest \cup {None},
         uploads' = [uploads EXCEPT ![u].status = "confirmed", ![u].size = n, ![u].sum = s]
  PROVE  /\ uploads' \in [UploadId -> UploadRow] /\ \A v \in UploadId \ {u} : uploads'[v] = uploads[v]
         /\ uploads'[u].status = "confirmed" /\ uploads'[u].doc = uploads[u].doc
         /\ uploads'[u].key = uploads[u].key /\ uploads'[u].ref = uploads[u].ref
<1>1. uploads \in [UploadId -> UploadRow] /\ uploads[u] \in UploadRow
  BY DEF IInv, TypeOK
<1> DEFINE Same(row) == row \in UploadRow /\ row.status = "confirmed" /\ row.doc = uploads[u].doc
                          /\ row.key = uploads[u].key /\ row.ref = uploads[u].ref
           row1 == [uploads[u] EXCEPT !.status = "confirmed"]
           row2 == [row1 EXCEPT !.size = n]
           row3 == [row2 EXCEPT !.sum = s]
<1>2. Same(row1)
  BY <1>1 DEF UploadRow
<1> HIDE DEF row1
<1>3. Same(row2)
  BY <1>2 DEF UploadRow
<1> HIDE DEF row2
<1>4. Same(row3)
  BY <1>3 DEF UploadRow
<1> HIDE DEF row3
<1>5. uploads' = [uploads EXCEPT ![u] = row3]
  BY <1>1 DEF row1, row2, row3
<1> QED BY <1>1, <1>4, <1>5

\* What a step of handler i that writes no file leaves alone.
LEMMA StoreAround ==
  ASSUME IInv, NEW i \in UploadId, NEW label, NEW a,
         pc' = [pc EXCEPT ![i] = label], arg' = [arg EXCEPT ![i] = a],
         UNCHANGED <<files, writers, copy>>, urls \subseteq urls',
         told \subseteq told', told' \subseteq told \cup {i},
         \A d \in Doc \ {i} : docs'[d].org = docs[d].org,
         \A u \in UploadId : uploads[u].status # "none" => Grows(uploads[u], uploads'[u])
  PROVE  Around({i})
<1>1. \A j \in UploadId \ {i} : pc'[j] = pc[j] /\ arg'[j] = arg[j] /\ copy'[j] = copy[j]
  BY DEF IInv, TypeOK
<1>2. \A u \in UploadId, f \in Ref : Owns(u, f)' => Owns(u, f) /\ files'[f] = files[f]
  BY DEF Owns
<1> QED BY <1>1, <1>2 DEF Around

\* CreateDocument without content.
LEMMA CreateEmptyStep ==
  ASSUME IInv, NEW d \in Doc, CreateEmpty(d)
  PROVE  IInv'
<1> USE DEF disk
<1>0. d \in UploadId /\ pc[d] # "done"
  BY DEF UploadId, CreateEmpty
<1>1. PICK row \in DocRow : docs' = [docs EXCEPT ![d] = row] /\ row.status = "created"
  <2>1. PICK org \in Org : docs' = [docs EXCEPT ![d] =
          [org |-> org, status |-> "created", job |-> "pending", ref |-> None]]
    BY DEF CreateEmpty
  <2>2. [org |-> org, status |-> "created", job |-> "pending", ref |-> None] \in DocRow
    BY DEF DocRow
  <2> QED BY <2>1, <2>2
<1>2. HandlerOK(d)' /\ pc' \in [UploadId -> Label] /\ arg' \in [UploadId -> Arg] /\ pc'[d] = "done"
  BY <1>0, EndOK DEF CreateEmpty
<1>3. docs' \in [Doc -> DocRow] /\ docs'[d] = row /\ \A e \in Doc \ {d} : docs'[e] = docs[e]
  BY <1>1 DEF IInv, TypeOK
<1>4. TypeOK'
  BY <1>2, <1>3 DEF IInv, TypeOK, CreateEmpty
<1>5. Around({d})
  <2>1. \A u \in UploadId : uploads[u].status # "none" => Grows(uploads[u], uploads'[u])
    BY DEF CreateEmpty, Grows
  <2>2. \A e \in Doc \ {d} : docs'[e].org = docs[e].org
    BY <1>3
  <2> QED BY <1>0, <2>1, <2>2, StoreAround DEF CreateEmpty, End
<1>6. (\A j \in UploadId : HandlerOK(j)') /\ WritersOK'
  BY <1>0, <1>2, <1>5, Assemble
<1>7. \A u \in UploadId : UploadOK(u)'
  BY <1>0, <1>5, UploadFrame, NoRecordYet DEF IInv, CreateEmpty
<1>8. Explained'
  BY <1>1, <1>3 DEF IInv, TypeOK, Explained, CreateEmpty
<1>9. OneUploadPerKey' /\ ShownIsExplained'
  BY DEF IInv, OneUploadPerKey, ShownIsExplained, CreateEmpty
<1> QED BY <1>4, <1>6, <1>7, <1>8, <1>9 DEF IInv, CreateEmpty

\* CreateDocumentAndQueue stores the document; nobody was told of it.
LEMMA InsertDocStep ==
  ASSUME IInv, NEW d \in Doc, InsertDoc(d)
  PROVE  IInv'
<1> USE DEF disk, Goto
<1>0. d \in UploadId /\ pc[d] = "insertDoc"
  BY DEF UploadId, InsertDoc
<1>1. Storing(d) /\ arg[d].doc = d /\ d \notin told
  BY <1>0 DEF IInv, HandlerOK, Storing
<1>2. PICK row \in DocRow : docs' = [docs EXCEPT ![d] = row] /\ row.org = arg[d].org
  <2>1. PutRef(d, arg[d].name) \in Ref /\ arg[d].org \in Org
    BY <1>1, RefFacts DEF Storing
  <2>2. [org |-> arg[d].org, status |-> "processing", job |-> "queued",
         ref |-> PutRef(d, arg[d].name)] \in DocRow
    BY <2>1 DEF DocRow
  <2> QED BY <2>2 DEF InsertDoc
<1>3. docs' \in [Doc -> DocRow] /\ docs'[d] = row /\ \A e \in Doc \ {d} : docs'[e] = docs[e]
  BY <1>2 DEF IInv, TypeOK
<1>4. pc' \in [UploadId -> Label] /\ pc'[d] = "record" /\ arg' = arg
  BY <1>0 DEF IInv, TypeOK, Label, InsertDoc
<1>5. TypeOK'
  BY <1>3, <1>4 DEF IInv, TypeOK, InsertDoc
<1>6. Around({d})
  <2>1. \A u \in UploadId : uploads[u].status # "none" => Grows(uploads[u], uploads'[u])
    BY DEF InsertDoc, Grows
  <2>2. \A e \in Doc \ {d} : docs'[e].org = docs[e].org
    BY <1>3
  <2>3. arg' = [arg EXCEPT ![d] = arg[d]]
    BY <1>4 DEF IInv, TypeOK
  <2>4. PICK a : a = arg[d]
    OBVIOUS
  <2> QED BY <1>0, <2>1, <2>2, <2>3, <2>4, StoreAround DEF InsertDoc
<1>7. HandlerOK(d)'
  <2>1. \A f : Owns(d, f)' <=> Owns(d, f)
    BY DEF Owns, InsertDoc
  <2>2. Storing(d)'
    BY <1>0, <1>1, <1>2, <1>3, <1>4, <2>1 DEF Storing, InsertDoc, Owns
  <2> QED BY <1>4, <2>2 DEF HandlerOK
<1>8. (\A j \in UploadId : HandlerOK(j)') /\ WritersOK'
  BY <1>0, <1>4, <1>6, <1>7, Assemble
<1>9. \A u \in UploadId : UploadOK(u)'
  BY <1>0, <1>6, UploadFrame, NoRecordYet DEF IInv, InsertDoc
<1>10. Explained'
  BY <1>1, <1>3 DEF IInv, TypeOK, Explained, InsertDoc
<1>11. OneUploadPerKey' /\ ShownIsExplained'
  BY DEF IInv, OneUploadPerKey, ShownIsExplained, InsertDoc
<1> QED BY <1>5, <1>8, <1>9, <1>10, <1>11 DEF IInv, InsertDoc

\* A record of a key that is free keeps the keys apart.
LEMMA KeysApart ==
  ASSUME IInv, NEW i \in UploadId, NEW row \in UploadRow, uploads' = [uploads EXCEPT ![i] = row],
         WithKey(row.doc, row.key) = {}
  PROVE  OneUploadPerKey'
<1> SUFFICES ASSUME NEW u \in UploadId, NEW v \in UploadId, uploads'[u].key # None,
                    uploads'[u].key = uploads'[v].key, uploads'[u].doc = uploads'[v].doc
             PROVE  u = v
  BY DEF OneUploadPerKey
<1>1. uploads'[i] = row /\ \A w \in UploadId \ {i} : uploads'[w] = uploads[w]
  BY DEF IInv, TypeOK
<1>2. \A w \in UploadId : ~(row.key # None /\ uploads[w].key = row.key /\ uploads[w].doc = row.doc)
  BY DEF WithKey, UploadsOf
<1>3. CASE u = i \/ v = i
  BY <1>1, <1>2, <1>3
<1>4. CASE u # i /\ v # i
  BY <1>1, <1>4 DEF IInv, OneUploadPerKey
<1> QED BY <1>3, <1>4

\* MemoryStore.UploadDocument.  The first record of a document makes its
\* status true before a client is told of it.
LEMMA RecordStep ==
  ASSUME IInv, NEW i \in UploadId, Record(i)
  PROVE  IInv'
<1> USE DEF disk
<1>1. pc[i] = "record" /\ Storing(i) /\ uploads[i] = NoUpload /\ arg[i] \in Arg
  BY NoRecordYet DEF Record, IInv, HandlerOK, TypeOK
<1>2. PICK d \in Doc : d = arg[i].doc
  BY <1>1 DEF Storing
<1>3. PICK ref \in Ref : ref = PutRef(d, arg[i].name) /\ ref[1] = d
  BY <1>1, <1>2, RefFacts DEF Storing
<1>4. HandlerOK(i)' /\ pc' \in [UploadId -> Label] /\ arg' \in [UploadId -> Arg] /\ pc'[i] = "done"
  BY EndOK DEF Record
<1>5. told' = told \cup {d} /\ told \subseteq told' /\ told' \subseteq told \cup {i} /\ told' \subseteq Doc
  BY <1>1, <1>2 DEF Record, Storing, UploadId, IInv, TypeOK
<1>6. CASE UNCHANGED memory
  <2> USE <1>6 DEF memory
  <2>1. i \in Doc => Found(arg[i].org, d) /\ WithKey(d, arg[i].key) = {}
    BY <1>1, <1>2 DEF Storing, Found, WithKey
  <2>2. i \in Req
    <3>1. CASE i \in Doc
      <4>1. uploads' = [uploads EXCEPT ![i] = ConfirmedRow(i, ref)]
        BY <1>2, <1>3, <2>1, <3>1 DEF Record
      <4>2. uploads'[i].status = "confirmed"
        BY <4>1 DEF ConfirmedRow, IInv, TypeOK
      <4> QED BY <1>1, <4>2 DEF NoUpload
    <3> QED BY <3>1 DEF UploadId
  <2>3. told' = told
    BY <1>1, <1>2, <1>5, <2>2 DEF Storing
  <2> QED BY <1>1, <2>3, QuietEnd DEF Record, IInv
<1>7. CASE ~UNCHANGED memory
  <2>1. /\ WithKey(d, arg[i].key) = {} /\ uploads' = [uploads EXCEPT ![i] = ConfirmedRow(i, ref)]
        /\ docs' = [docs EXCEPT ![d].status = "processing", ![d].job = "queued", ![d].ref = ref]
    BY <1>2, <1>3, <1>7 DEF Record
  <2>2. PICK row \in UploadRow :
          /\ row.status = "confirmed" /\ row.doc = d /\ row.ref = ref /\ row.key = arg[i].key
          /\ row.size = arg[i].size /\ row.sum = arg[i].sum /\ row = ConfirmedRow(i, ref)
    <3>1. ConfirmedRow(i, ref) \in UploadRow
      BY <1>1, <1>2 DEF ConfirmedRow, UploadRow, Storing, Arg
    <3> QED BY <1>2, <3>1 DEF ConfirmedRow
  <2>3. /\ docs' \in [Doc -> DocRow] /\ docs'[d].org = docs[d].org
        /\ \A e \in Doc \ {d} : docs'[e] = docs[e]
    BY <2>1, Queued
  <2>4. /\ uploads' \in [UploadId -> UploadRow] /\ uploads'[i] = row
        /\ \A u \in UploadId \ {i} : uploads'[u] = uploads[u]
    BY <2>1, <2>2 DEF IInv, TypeOK
  <2>5. TypeOK'
    BY <1>4, <1>5, <2>3, <2>4 DEF IInv, TypeOK, Record
  <2>6. Around({i})
    <3>1. \A u \in UploadId : uploads[u].status # "none" => Grows(uploads[u], uploads'[u])
      BY <1>1, <2>4 DEF NoUpload, Grows
    <3>2. \A e \in Doc \ {i} : docs'[e].org = docs[e].org
      BY <2>3
    <3> QED BY <1>5, <3>1, <3>2, StoreAround DEF Record, End
  <2>7. (\A j \in UploadId : HandlerOK(j)') /\ WritersOK'
    BY <1>4, <2>6, Assemble
  <2>8. ASSUME NEW u \in UploadId PROVE UploadOK(u)'
    <3>1. CASE u # i
      BY <2>4, <2>6, <3>1, UploadFrame DEF IInv
    <3>2. CASE u = i
      <4>1. files[ref] # None /\ (Owns(i, ref) => files[ref] = [size |-> row.size, sum |-> row.sum])
        BY <1>1, <1>2, <1>3, <2>2 DEF Storing
      <4>2. files' = files /\ (Owns(i, ref)' <=> Owns(i, ref))
        BY DEF Record, Owns
      <4> QED BY <1>3, <1>4, <2>2, <2>4, <3>2, <4>1, <4>2 DEF UploadOK, Owns
    <3> QED BY <3>1, <3>2
  <2>9. Explained'
    <3> SUFFICES ASSUME NEW e \in told', docs'[e].status = "processing"
                 PROVE  \E u \in UploadId : uploads'[u].doc = e /\ uploads'[u].status = "confirmed"
      BY DEF Explained
    <3>1. CASE e = d
      BY <2>2, <2>4, <3>1
    <3>2. CASE e # d
      <4>1. e \in told /\ docs[e].status = "processing"
        BY <1>5, <2>3, <3>2
      <4>2. PICK u \in UploadId : uploads[u].doc = e /\ uploads[u].status = "confirmed"
        BY <4>1 DEF IInv, Explained
      <4>3. u # i
        BY <1>1, <4>2 DEF NoUpload
      <4> QED BY <2>4, <4>2, <4>3
    <3> QED BY <3>1, <3>2
  <2>10. OneUploadPerKey'
    BY <2>1, <2>2, KeysApart
  <2>11. ShownIsExplained' /\ DOMAIN copy' = UploadId /\ DOMAIN shown' = Req
    BY DEF IInv, ShownIsExplained, Record
  <2> QED BY <2>5, <2>7, <2>8, <2>9, <2>10, <2>11 DEF IInv
<1> QED BY <1>6, <1>7

\* MemoryStore.CreateUploadIntent.  The new record is pending, and its handler
\* has opened no file.
LEMMA RecordIntentStep ==
  ASSUME IInv, NEW r \in Req, RecordIntent(r)
  PROVE  IInv'
<1>0. r \in UploadId /\ pc[r] = "intent"
  BY DEF UploadId, RecordIntent
<1>1. uploads[r] = NoUpload /\ arg[r] \in Arg /\ arg[r].doc \in told /\ arg[r].sum # Torn
  BY <1>0, NoRecordYet DEF IInv, HandlerOK, TypeOK
<1>2. PICK d \in Doc : d = arg[r].doc
  BY <1>1 DEF IInv, TypeOK
<1>3. HandlerOK(r)' /\ pc' \in [UploadId -> Label] /\ arg' \in [UploadId -> Arg] /\ pc'[r] = "done"
  BY <1>0, EndOK DEF RecordIntent
<1>4. urls \subseteq urls' /\ urls' \subseteq Ref
  BY <1>2, RefFacts DEF RecordIntent, IInv, TypeOK
<1>5. ShownIsExplained' /\ DOMAIN copy' = UploadId /\ DOMAIN shown' = Req
  BY DEF IInv, ShownIsExplained, RecordIntent
<1>6. CASE UNCHANGED uploads
  <2>1. TypeOK'
    BY <1>3, <1>4, <1>6 DEF IInv, TypeOK, RecordIntent
  <2>2. Around({r})
    <3>1. \A u \in UploadId : uploads[u].status # "none" => Grows(uploads[u], uploads'[u])
      BY <1>6 DEF Grows
    <3> QED BY <1>0, <1>4, <3>1, StoreAround DEF RecordIntent, End
  <2>3. (\A j \in UploadId : HandlerOK(j)') /\ WritersOK'
    BY <1>0, <1>3, <2>2, Assemble
  <2>4. \A u \in UploadId : UploadOK(u)'
    BY <1>1, <1>6, <2>2, UploadFrame DEF IInv
  <2>5. Explained' /\ OneUploadPerKey'
    BY <1>6 DEF IInv, Explained, OneUploadPerKey, RecordIntent
  <2> QED BY <1>5, <2>1, <2>3, <2>4, <2>5 DEF IInv
<1>7. CASE ~UNCHANGED uploads
  <2> DEFINE new == [status |-> "pending", doc |-> d, key |-> arg[r].key, ref |-> PresignRef(d, r),
                     expected |-> arg[r].size, size |-> 0, sum |-> arg[r].sum]
  <2>1. WithKey(d, arg[r].key) = {} /\ uploads' = [uploads EXCEPT ![r] = new]
    BY <1>2, <1>7 DEF RecordIntent, Intend
  <2>2. PICK row \in UploadRow :
          row = new /\ row.status = "pending" /\ row.doc = d /\ row.key = arg[r].key
            /\ row.ref \in Ref /\ row.ref[1] = d
    <3>1. PresignRef(d, r) \in Ref /\ PresignRef(d, r)[1] = d
      BY RefFacts
    <3>2. new \in UploadRow
      BY <1>1, <3>1 DEF UploadRow, Arg
    <3> QED BY <3>1, <3>2
  <2> HIDE DEF new
  <2>3. /\ uploads' \in [UploadId -> UploadRow] /\ uploads'[r] = row
        /\ \A u \in UploadId \ {r} : uploads'[u] = uploads[u]
    BY <1>0, <2>1, <2>2 DEF IInv, TypeOK
  <2>4. TypeOK'
    BY <1>3, <1>4, <2>3 DEF IInv, TypeOK, RecordIntent
  <2>5. Around({r})
    <3>1. \A u \in UploadId : uploads[u].status # "none" => Grows(uploads[u], uploads'[u])
      BY <1>1, <2>3 DEF NoUpload, Grows
    <3> QED BY <1>0, <1>4, <3>1, StoreAround DEF RecordIntent, End
  <2>6. (\A j \in UploadId : HandlerOK(j)') /\ WritersOK'
    BY <1>0, <1>3, <2>5, Assemble
  <2>7. ASSUME NEW u \in UploadId PROVE UploadOK(u)'
    <3>1. CASE u # r
      BY <2>3, <2>5, <3>1, UploadFrame DEF IInv
    <3>2. CASE u = r
      <4>1. \A f \in Ref : r \notin writers'[f]
        BY <1>0 DEF IInv, WritersOK, RecordIntent
      <4> QED BY <1>3, <2>2, <2>3, <3>2, <4>1 DEF UploadOK
    <3> QED BY <3>1, <3>2
  <2>8. Explained'
    <3> SUFFICES ASSUME NEW e \in told, docs[e].status = "processing"
                 PROVE  \E u \in UploadId : uploads'[u].doc = e /\ uploads'[u].status = "confirmed"
      BY DEF Explained, RecordIntent
    <3>1. PICK u \in UploadId : uploads[u].doc = e /\ uploads[u].status = "confirmed"
      BY DEF IInv, Explained
    <3>2. u # r
      BY <1>1, <3>1 DEF NoUpload
    <3> QED BY <2>3, <3>1, <3>2
  <2>9. OneUploadPerKey'
    BY <1>0, <2>1, <2>2, KeysApart
  <2> QED BY <1>5, <2>4, <2>6, <2>7, <2>8, <2>9 DEF IInv
<1> QED BY <1>6, <1>7

\* MemoryStore.ConfirmUpload.  The record is still pending, so the checksum is
\* whole; its file was found and does not go away.
LEMMA ConfirmUploadStep ==
  ASSUME IInv, NEW r \in Req, ConfirmUpload(r)
  PROVE  IInv'
<1> USE DEF disk
<1>0. r \in UploadId /\ pc[r] = "confirm"
  BY DEF UploadId, ConfirmUpload
<1>1. CASE UNCHANGED memory
  BY <1>0, <1>1, QuietEnd DEF ConfirmUpload, IInv
<1>2. CASE ~UNCHANGED memory
  <2>1. PICK u \in UploadId : u = arg[r].upload
    BY <1>0 DEF IInv, HandlerOK, Confirming
  <2>2. /\ uploads[u].status = "pending"
        /\ uploads' = [uploads EXCEPT ![u].status = "confirmed", ![u].size = arg[r].size,
                                      ![u].sum = arg[r].sum]
        /\ docs' = [docs EXCEPT ![uploads[u].doc].status = "processing",
                                ![uploads[u].doc].job = "queued"]
    BY <1>2, <2>1 DEF ConfirmUpload, StillPending
  <2>3. /\ UploadOK(u) /\ pc[u] = "done" /\ u # r
        /\ uploads[u].ref \in Ref /\ uploads[u].ref[1] = uploads[u].doc
        /\ u \notin writers[uploads[u].ref] /\ files[uploads[u].ref] # None
        /\ arg[r].sum # Torn /\ arg[r] \in Arg
    <3>1. UploadOK(u) /\ HandlerOK(r) /\ arg[r] \in Arg
      BY <1>0 DEF IInv, TypeOK
    <3>2. Confirming(r)
      BY <1>0, <3>1 DEF HandlerOK
    <3> QED BY <1>0, <2>1, <2>2, <3>1, <3>2 DEF UploadOK, Confirming
  <2>4. PICK d \in Doc : d = uploads[u].doc
    BY <2>2, <2>3 DEF UploadOK
  <2>5. PICK n \in Size \cup {0}, s \in Digest \cup {None} : n = arg[r].size /\ s = arg[r].sum
    BY <2>3 DEF Arg
  <2>6. /\ uploads' \in [UploadId -> UploadRow] /\ \A v \in UploadId \ {u} : uploads'[v] = uploads[v]
        /\ uploads'[u].status = "confirmed" /\ uploads'[u].doc = uploads[u].doc
        /\ uploads'[u].key = uploads[u].key /\ uploads'[u].ref = uploads[u].ref
    BY <2>2, <2>5, Confirmed
  <2>7. /\ docs' \in [Doc -> DocRow] /\ docs'[d].org = docs[d].org
        /\ \A e \in Doc \ {d} : docs'[e] = docs[e]
    BY <2>2, <2>3, <2>4, Queued
  <2>8. HandlerOK(r)' /\ pc' \in [UploadId -> Label] /\ arg' \in [UploadId -> Arg] /\ pc'[r] = "done"
    BY <1>0, EndOK DEF ConfirmUpload
  <2>9. TypeOK'
    BY <2>6, <2>7, <2>8 DEF IInv, TypeOK, ConfirmUpload
  <2>10. Around({r})
    <3>1. \A v \in UploadId : uploads[v].status # "none" => Grows(uploads[v], uploads'[v])
      BY <2>2, <2>6 DEF Grows
    <3>2. \A e \in Doc \ {r} : docs'[e].org = docs[e].org
      BY <2>7
    <3> QED BY <1>0, <3>1, <3>2, StoreAround DEF ConfirmUpload, End
  <2>11. (\A j \in UploadId : HandlerOK(j)') /\ WritersOK'
    BY <1>0, <2>8, <2>10, Assemble
  <2>12. ASSUME NEW v \in UploadId PROVE UploadOK(v)'
    <3>1. CASE v # u
      <4>1. v \in {r} => uploads[v] = NoUpload
        BY <1>0, NoRecordYet
      <4> QED BY <2>6, <2>10, <3>1, <4>1, UploadFrame DEF IInv
    <3>2. CASE v = u
      <4>1. pc'[u] = "done"
        BY <2>3, <2>10 DEF Around
      <4>2. files' = files /\ writers' = writers
        BY DEF ConfirmUpload
      <4> QED BY <2>3, <2>4, <2>6, <3>2, <4>1, <4>2 DEF UploadOK, Owns
    <3> QED BY <3>1, <3>2
  <2>13. Explained'
    <3> SUFFICES ASSUME NEW e \in told, docs'[e].status = "processing"
                 PROVE  \E v \in UploadId : uploads'[v].doc = e /\ uploads'[v].status = "confirmed"
      BY DEF Explained, ConfirmUpload
    <3>1. CASE e = d
      BY <2>4, <2>6, <3>1
    <3>2. CASE e # d
      <4>1. docs[e].status = "processing"
        BY <2>7, <3>2 DEF IInv, TypeOK
      <4>2. PICK v \in UploadId : uploads[v].doc = e /\ uploads[v].status = "confirmed"
        BY <4>1 DEF IInv, Explained
      <4> QED BY <2>2, <2>6, <4>2
    <3> QED BY <3>1, <3>2
  <2>14. OneUploadPerKey'
    <3>1. \A v \in UploadId : uploads'[v].key = uploads[v].key /\ uploads'[v].doc = uploads[v].doc
      BY <2>6
    <3> QED BY <3>1 DEF IInv, OneUploadPerKey
  <2>15. ShownIsExplained' /\ DOMAIN copy' = UploadId /\ DOMAIN shown' = Req
    BY DEF IInv, ShownIsExplained, ConfirmUpload
  <2> QED BY <2>9, <2>11, <2>12, <2>13, <2>14, <2>15 DEF IInv
<1> QED BY <1>1, <1>2

\* toProtoDocument shows what it may see of a document it got: a record that
\* was confirmed then is seen as confirmed now.
LEMMA ToProtoDocumentStep ==
  ASSUME IInv, NEW r \in Req, ToProtoDocument(r)
  PROVE  IInv'
<1> USE DEF memory, disk
<1>0. r \in UploadId /\ pc[r] = "read" /\ CopyOK(r)
  BY DEF UploadId, ToProtoDocument, IInv, HandlerOK
<1>1. PICK seen \in [DOMAIN copy[r].rows -> {"pending", "confirmed", Torn}] :
        /\ \A u \in DOMAIN seen : \E row \in Seen(r, u) : row.status = seen[u]
        /\ shown' = [shown EXCEPT ![r] = [status |-> copy[r].status, uploads |-> seen]]
  BY DEF ToProtoDocument
<1>2. copy[r].status = "processing" => \E u \in DOMAIN seen : seen[u] = "confirmed"
  <2> SUFFICES ASSUME copy[r].status = "processing"
               PROVE  \E u \in DOMAIN seen : seen[u] = "confirmed"
    OBVIOUS
  <2>1. PICK u \in DOMAIN copy[r].rows : copy[r].rows[u].status = "confirmed"
    BY <1>0 DEF CopyOK
  <2>2. uploads[u] = copy[r].rows[u]
    BY <1>0, <2>1 DEF CopyOK
  <2>3. PICK row \in Seen(r, u) : row.status = seen[u]
    BY <1>1
  <2>4. row.status \in Racing(copy[r].rows[u].status, uploads[u].status)
    BY <2>3 DEF Seen
  <2>5. row.status = "confirmed"
    BY <2>1, <2>2, <2>4 DEF Racing
  <2> QED BY <2>3, <2>5
<1>3. ShownIsExplained' /\ DOMAIN shown' = Req
  <2>1. /\ shown'[r] = [status |-> copy[r].status, uploads |-> seen] /\ DOMAIN shown' = Req
        /\ \A q \in Req \ {r} : shown'[q] = shown[q]
    BY <1>1 DEF IInv
  <2> QED BY <1>2, <2>1 DEF IInv, ShownIsExplained
<1>4. HandlerOK(r)' /\ pc' \in [UploadId -> Label] /\ arg' \in [UploadId -> Arg] /\ pc'[r] = "done"
  BY <1>0, EndOK DEF ToProtoDocument
<1>5. /\ DOMAIN copy' = UploadId
      /\ \A j \in UploadId \ {r} : pc'[j] = pc[j] /\ arg'[j] = arg[j] /\ copy'[j] = copy[j]
  BY DEF ToProtoDocument, End, IInv, TypeOK
<1>6. TypeOK'
  BY <1>4 DEF IInv, TypeOK, ToProtoDocument
<1>7. Around({r})
  BY <1>5 DEF Around, Grows, Owns, ToProtoDocument
<1>8. (\A j \in UploadId : HandlerOK(j)') /\ WritersOK'
  BY <1>0, <1>4, <1>7, Assemble
<1>9. \A u \in UploadId : UploadOK(u)'
  BY <1>0, <1>7, UploadFrame, NoRecordYet DEF IInv, ToProtoDocument
<1>10. Explained' /\ OneUploadPerKey'
  BY DEF IInv, Explained, OneUploadPerKey, ToProtoDocument
<1> QED BY <1>3, <1>5, <1>6, <1>8, <1>9, <1>10 DEF IInv

\* A restart forgets the store and ends the handlers.
LEMMA RestartStep ==
  ASSUME IInv, Restart
  PROVE  IInv'
<1> USE DEF Restart, disk
<1>1. TypeOK'
  <2>1. NoDoc \in DocRow /\ NoUpload \in UploadRow /\ NoArg \in Arg
    BY DEF NoDoc, DocRow, NoUpload, UploadRow, NoArg, Arg
  <2>2. docs' \in [Doc -> DocRow] /\ uploads' \in [UploadId -> UploadRow] /\ arg' \in [UploadId -> Arg]
    BY <2>1
  <2>3. pc' \in [UploadId -> Label]
    BY DEF Label
  <2>4. restarts' \in 0 .. MaxRestarts
    BY LocalAssumption DEF IInv, TypeOK
  <2> QED BY <2>2, <2>3, <2>4 DEF IInv, TypeOK
<1>2. ASSUME NEW u \in UploadId PROVE UploadOK(u)' /\ HandlerOK(u)'
  <2>1. uploads'[u] = NoUpload /\ NoUpload.status = "none"
    BY DEF NoUpload
  <2>2. pc'[u] \in {"new", "done"} /\ (pc'[u] = "new" => pc[u] = "new")
    OBVIOUS
  <2>3. UploadOK(u)'
    BY <2>1 DEF UploadOK
  <2>4. HandlerOK(u)'
    BY <2>2 DEF IInv, HandlerOK
  <2> QED BY <2>3, <2>4
<1>3. WritersOK'
  <2> SUFFICES ASSUME NEW f \in Ref, NEW u \in writers[f]
               PROVE  pc'[u] \in {"write", "insertDoc", "record", "done"}
    BY DEF WritersOK
  <2>1. u \in UploadId /\ pc[u] # "new"
    BY DEF IInv, TypeOK, WritersOK
  <2> QED BY <2>1
<1>4. Explained'
  <2>1. \A d \in told' : docs'[d] = NoDoc /\ NoDoc.status # "processing"
    BY DEF NoDoc, IInv, TypeOK
  <2> QED BY <2>1 DEF Explained
<1>5. OneUploadPerKey'
  <2>1. \A u \in UploadId : uploads'[u].key = None
    BY DEF NoUpload
  <2> QED BY <2>1 DEF OneUploadPerKey
<1>6. ShownIsExplained' /\ DOMAIN copy' = UploadId /\ DOMAIN shown' = Req
  BY DEF IInv, ShownIsExplained
<1> QED BY <1>1, <1>2, <1>3, <1>4, <1>5, <1>6 DEF IInv

-----------------------------------------------------------------------------
(* The theorems *)

\* No document, no upload, no file, no request.
LEMMA Initially == Init => IInv
<1> SUFFICES ASSUME Init PROVE IInv
  OBVIOUS
<1> USE DEF Init
<1>1. TypeOK
  <2>1. NoDoc \in DocRow /\ NoUpload \in UploadRow /\ NoArg \in Arg /\ "new" \in Label
    BY DEF NoDoc, DocRow, NoUpload, UploadRow, NoArg, Arg, Label
  <2>2. restarts \in 0 .. MaxRestarts
    BY LocalAssumption
  <2> QED BY <2>1, <2>2 DEF TypeOK
<1>2. ASSUME NEW u \in UploadId PROVE UploadOK(u) /\ HandlerOK(u)
  <2>1. uploads[u] = NoUpload /\ NoUpload.status = "none" /\ pc[u] = "new" /\ u \notin told
    BY DEF NoUpload
  <2> QED BY <2>1 DEF UploadOK, HandlerOK
<1>3. OneUploadPerKey
  <2>1. \A u \in UploadId : uploads[u].key = None
    BY DEF NoUpload
  <2> QED BY <2>1 DEF OneUploadPerKey
<1>4. WritersOK /\ Explained /\ ShownIsExplained /\ DOMAIN copy = UploadId /\ DOMAIN shown = Req
  BY DEF WritersOK, Explained, ShownIsExplained
<1> QED BY <1>1, <1>2, <1>3, <1>4 DEF IInv

\* Every step keeps the invariant.
LEMMA Inductive == IInv /\ [Next]_vars => IInv'
<1> SUFFICES ASSUME IInv, [Next]_vars PROVE IInv'
  OBVIOUS
<1>1. ASSUME NEW d \in Doc,
             \/ CreateEmpty(d) \/ CreateWithContent(d)
             \/ pc[d] = "write" /\ PutWrite(d, "insertDoc")
             \/ InsertDoc(d)
      PROVE  IInv'
  BY <1>1, CreateEmptyStep, CreateWithContentStep, PutWriteStep, InsertDocStep DEF UploadId
<1>2. ASSUME NEW r \in Req,
             \/ UploadDocument(r) \/ CreateUploadIntent(r) \/ CompleteUpload(r) \/ GetDocument(r)
             \/ pc[r] = "write" /\ PutWrite(r, "record")
      PROVE  IInv'
  BY <1>2, UploadDocumentStep, CreateUploadIntentStep, CompleteUploadStep, GetDocumentStep,
     PutWriteStep DEF UploadId
<1>3. ASSUME NEW r \in Req,
             RecordIntent(r) \/ FindUpload(r) \/ Head(r) \/ ConfirmUpload(r) \/ ToProtoDocument(r)
      PROVE  IInv'
  BY <1>3, RecordIntentStep, FindUploadStep, HeadStep, ConfirmUploadStep, ToProtoDocumentStep
<1>4. ASSUME NEW i \in UploadId,
             (pc[i] = "open" /\ PutOpen(i, "write")) \/ Record(i) \/ StorageFails(i)
      PROVE  IInv'
  BY <1>4, PutOpenStep, RecordStep, StorageFailsStep
<1>5. CASE UNCHANGED vars
  <2>1. TypeOK' /\ WritersOK' /\ Explained' /\ OneUploadPerKey' /\ ShownIsExplained'
    BY <1>5 DEF IInv, vars, TypeOK, WritersOK, Explained, OneUploadPerKey, ShownIsExplained
  <2>2. \A u \in UploadId : UploadOK(u)' /\ HandlerOK(u)'
    BY <1>5 DEF IInv, vars, UploadOK, HandlerOK, Storing, Confirming, CopyOK, Owns
  <2> QED BY <1>5, <2>1, <2>2 DEF IInv, vars
<1> QED BY <1>1, <1>2, <1>3, <1>4, <1>5, ClientPutStep, RestartStep DEF Next

\* The invariant holds always.
LEMMA Invariance == Spec => []IInv
  BY Initially, Inductive, PTL DEF Spec

\* The variables have their types: in particular no record ever holds a torn
\* checksum, although findUpload may read one without the lock.
THEOREM TypeCorrect == Spec => []TypeOK
<1>1. IInv => TypeOK
  BY DEF IInv
<1> QED BY <1>1, Invariance, PTL

\* MemoryStore keeps one upload of a document under an idempotency key, however
\* the handlers that looked for the key before they stored the bytes overtake
\* each other.  (MemoryStore.UploadDocument, CreateUploadIntent.)
THEOREM KeysUnique == Spec => []OneUploadPerKey
<1>1. IInv => OneUploadPerKey
  BY DEF IInv
<1> QED BY <1>1, Invariance, PTL

\* GetDocument shows a confirmed upload with every document it says is
\* processing, although it reads the uploads without the lock.
THEOREM StatusExplained == Spec => []ShownIsExplained
<1>1. IInv => ShownIsExplained
  BY DEF IInv
<1> QED BY <1>1, Invariance, PTL

\* A confirmed upload has its file, and the bytes it describes unless someone
\* else could write them.  (Put, PresignPut, Head, ConfirmUpload.)
THEOREM FilesStay == Spec => []ConfirmedHasFile
<1>1. IInv => ConfirmedHasFile
  BY DEF IInv, UploadOK, Owns, ConfirmedHasFile
<1> QED BY <1>1, Invariance, PTL

\* No step but a restart changes a confirmed record: Record and RecordIntent
\* write where there was none, ConfirmUpload where one is still pending.
LEMMA ConfirmedKept ==
  ASSUME IInv, Next, NEW u \in UploadId, uploads[u].status = "confirmed", restarts' = restarts
  PROVE  uploads'[u] = uploads[u]
<1>1. CASE uploads' = uploads
  BY <1>1
<1>2. ASSUME NEW i \in UploadId, Record(i) PROVE uploads'[u] = uploads[u]
  <2>1. uploads[i] = NoUpload
    BY <1>2, NoRecordYet DEF Record
  <2>2. i # u
    BY <2>1 DEF NoUpload
  <2> QED BY <1>2, <2>2 DEF Record, memory, IInv, TypeOK
<1>3. ASSUME NEW r \in Req, RecordIntent(r) PROVE uploads'[u] = uploads[u]
  <2>1. uploads[r] = NoUpload
    BY <1>3, NoRecordYet DEF RecordIntent, UploadId
  <2>2. r # u
    BY <2>1 DEF NoUpload
  <2> QED BY <1>3, <2>2 DEF RecordIntent, Intend, IInv, TypeOK
<1>4. ASSUME NEW r \in Req, ConfirmUpload(r) PROVE uploads'[u] = uploads[u]
  <2>1. CASE arg[r].upload = u
    BY <1>4, <2>1 DEF ConfirmUpload, StillPending, memory
  <2>2. CASE arg[r].upload # u
    BY <1>4, <2>2 DEF ConfirmUpload, memory, IInv, TypeOK
  <2> QED BY <2>1, <2>2
<1>5. CASE Restart
  BY <1>5 DEF Restart, IInv, TypeOK
<1>6. ASSUME NEW d \in Doc,
             CreateEmpty(d) \/ CreateWithContent(d) \/ PutWrite(d, "insertDoc") \/ InsertDoc(d)
      PROVE  uploads' = uploads
  BY <1>6 DEF CreateEmpty, CreateWithContent, PutWrite, InsertDoc, memory
<1>7. ASSUME NEW r \in Req,
             \/ UploadDocument(r) \/ CreateUploadIntent(r) \/ CompleteUpload(r) \/ GetDocument(r)
             \/ PutWrite(r, "record") \/ FindUpload(r) \/ Head(r) \/ ToProtoDocument(r)
      PROVE  uploads' = uploads
  BY <1>7 DEF UploadDocument, CreateUploadIntent, CompleteUpload, GetDocument, PutWrite,
              FindUpload, Head, ToProtoDocument, memory
<1>8. ASSUME NEW i \in UploadId, PutOpen(i, "write") \/ StorageFails(i) PROVE uploads' = uploads
  BY <1>8 DEF PutOpen, StorageFails, memory
<1>9. ASSUME NEW f \in Ref, NEW c \in Content, ClientPut(f, c) PROVE uploads' = uploads
  BY <1>9 DEF ClientPut, memory
<1> QED BY <1>1, <1>2, <1>3, <1>4, <1>5, <1>6, <1>7, <1>8, <1>9 DEF Next

\* What a confirmation recorded stays until the process is restarted.
THEOREM ConfirmationStays == Spec => ConfirmedOnce
<1>1. IInv /\ [Next]_vars =>
        [\A u \in UploadId : uploads[u].status = "confirmed" /\ restarts' = restarts
                             => uploads'[u] = uploads[u]]_vars
  BY ConfirmedKept
<1> QED BY <1>1, Invariance, PTL DEF Spec, ConfirmedOnce
=============================================================================
