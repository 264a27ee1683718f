------------------------- MODULE FingerprintProofs -------------------------
(***************************************************************************)
(* Proofs about the Fingerprint service's consumer, for any events, with   *)
(* any number of uploads, any number of threads and faults.                *)
(***************************************************************************)
EXTENDS Fingerprint, FiniteSetTheorems, TLAPS

-----------------------------------------------------------------------------
(* The inductive invariant *)

\* The content c of the document x matches the upload a thread is at.
Matches(c, b) == c = b \/ {c, b} \in Similar

\* A link from the document d with the content b: to a document that had a
\* matching fingerprint.
TrueLink(d, b, x) ==
  x # None => x # d /\ \E c \in Content : <<x, c>> \in had /\ Matches(c, b)

\* A thread at work has saved the uploads before the one it is at, all of them
\* when it returns; what it has found is true when it saves; and a handler
\* waits for threads at work only.
Working(w) ==
  /\ pc[w] = "idle" => w \notin waiting
  /\ pc[w] # "idle" => \A n \in 1 .. index[w] - 1 : <<event[w], n>> \in inbox
  /\ pc[w] = "return" => KeysOf(event[w]) \subseteq inbox
  /\ pc[w] = "save" => TrueLink(DocumentOf(w), ContentOf(w), found[w])

\* A row comes from an upload in the inbox, and is on record.
RowsExplained ==
  /\ \A d \in Doc : rows[d] # None => <<d, rows[d].content>> \in had
  /\ \A h \in had : rows[h[1]] # None /\ SavedFor(h[1]) # {}

\* What the invariant says of the tables.
Tables ==
  /\ IsFiniteSet(inbox)
  /\ RowsExplained
  /\ SavedOnce
  /\ LinkIsTrue
  /\ LinksWellFounded

TablesTyped ==
  /\ inbox \subseteq Key
  /\ rows \in [Doc -> Row \cup {None}]
  /\ outbox \in [Key -> Nat]
  /\ had \subseteq Doc \X Content

IInv ==
  /\ TypeOK
  /\ Tables
  /\ \A w \in Worker : Working(w)
  /\ EventKept

-----------------------------------------------------------------------------
(* Helpers *)

\* The ids kept in event_inbox.
LEMMA KeyFacts ==
  /\ \A e \in Event : \A n : <<e, n>> \in Key <=> n \in 1 .. Len(Uploads[e])
  /\ \A k \in Key : k[1] \in Event
  /\ \A e : \A n : <<e, n>> \in Key => e \in Event
  /\ \A e \in Event : Len(Uploads[e]) \in Nat \ {0}
<1>1. \A e \in Event : /\ DOMAIN Uploads[e] = 1 .. Len(Uploads[e])
                      /\ Len(Uploads[e]) \in Nat \ {0}
  <2> SUFFICES ASSUME NEW e \in Event
               PROVE  /\ DOMAIN Uploads[e] = 1 .. Len(Uploads[e])
                      /\ Len(Uploads[e]) \in Nat \ {0}
    OBVIOUS
  <2>1. Uploads[e] \in Seq(Content) /\ Uploads[e] # <<>>
    BY FingerprintAssumption
  <2> QED BY <2>1
<1>2. \A e \in Event : \A n : <<e, n>> \in Key <=> n \in DOMAIN Uploads[e]
  BY DEF Key
<1>3. \A k \in Key : k[1] \in Event
  BY DEF Key
<1>4. \A e : \A n : <<e, n>> \in Key => e \in Event
  BY DEF Key
<1> QED BY <1>1, <1>2, <1>3, <1>4

\* The upload a thread is at.
LEMMA AtUpload ==
  ASSUME TypeOK, NEW w \in Worker, pc[w] # "idle"
  PROVE  /\ event[w] \in Event /\ index[w] \in 1 .. Len(Uploads[event[w]])
         /\ <<event[w], index[w]>> \in Key
         /\ DocumentOf(w) \in Doc /\ ContentOf(w) \in Content
<1>1. <<event[w], index[w]>> \in Key
  BY DEF TypeOK
<1>2. event[w] \in Event /\ index[w] \in 1 .. Len(Uploads[event[w]])
  BY <1>1, KeyFacts
<1>3. Uploads[event[w]] \in Seq(Content) /\ DocOf[event[w]] \in Doc
  BY <1>2, FingerprintAssumption
<1> QED BY <1>1, <1>2, <1>3 DEF DocumentOf, ContentOf

\* A thread that is left alone keeps what it knows: the inbox and the history
\* only grow.
LEMMA WorkingKept ==
  ASSUME NEW w \in Worker, Working(w),
         pc'[w] = pc[w], event'[w] = event[w], index'[w] = index[w], found'[w] = found[w],
         w \in waiting' => w \in waiting, inbox \subseteq inbox', had \subseteq had'
  PROVE  Working(w)'
<1>1. DocumentOf(w)' = DocumentOf(w) /\ ContentOf(w)' = ContentOf(w)
  BY DEF DocumentOf, ContentOf
<1>2. pc[w] = "save" => TrueLink(DocumentOf(w), ContentOf(w), found[w])'
  BY <1>1 DEF Working, TrueLink, Matches
<1> QED BY <1>2 DEF Working, KeysOf

\* Where the tables are left alone, so is what the invariant says of them.
LEMMA TablesKept ==
  ASSUME TypeOK, Tables, UNCHANGED tables
  PROVE  Tables' /\ TablesTyped' /\ inbox \subseteq inbox' /\ had \subseteq had'
<1>1. inbox' = inbox /\ rows' = rows /\ outbox' = outbox /\ had' = had
  BY DEF tables
<1>2. RowsExplained' /\ SavedOnce'
  BY <1>1 DEF Tables, RowsExplained, SavedFor, SavedOnce
<1>3. LinkIsTrue'
  BY <1>1, Zenon DEF Tables, LinkIsTrue
<1>4. LinksWellFounded'
  BY <1>1, Zenon DEF Tables, LinksWellFounded, SavedFor
<1> QED BY <1>1, <1>2, <1>3, <1>4 DEF Tables, TypeOK, TablesTyped

\* What is saved for a document only grows.
LEMMA SavedGrows ==
  ASSUME IsFiniteSet(inbox), IsFiniteSet(inbox'), inbox \subseteq inbox', NEW d
  PROVE  /\ IsFiniteSet(SavedFor(d)) /\ IsFiniteSet(SavedFor(d)')
         /\ SavedFor(d) \subseteq SavedFor(d)'
         /\ Cardinality(SavedFor(d)) \in Nat /\ Cardinality(SavedFor(d)') \in Nat
         /\ Cardinality(SavedFor(d)) <= Cardinality(SavedFor(d)')
<1>1. SavedFor(d) \subseteq inbox /\ SavedFor(d)' \subseteq inbox'
      /\ SavedFor(d) \subseteq SavedFor(d)'
  BY DEF SavedFor
<1>2. IsFiniteSet(SavedFor(d)) /\ IsFiniteSet(SavedFor(d)')
  BY <1>1, FS_Subset
<1> QED BY <1>1, <1>2, FS_Subset, FS_CardinalityType

\* The transaction of save_with_outbox keeps what the invariant says of the
\* tables.
LEMMA SaveKeeps ==
  ASSUME TypeOK, Tables, NEW w \in Worker, Working(w), pc[w] = "save", Save(w)
  PROVE  /\ Tables' /\ TablesTyped' /\ inbox \subseteq inbox' /\ had \subseteq had'
         /\ <<event[w], index[w]>> \in inbox'
<1>1. PICK k \in Key, d \in Doc, b \in Content, x \in Doc \cup {None} :
        k = <<event[w], index[w]>> /\ d = DocumentOf(w) /\ b = ContentOf(w) /\ x = found[w]
  BY AtUpload DEF TypeOK
<1> DEFINE row == [content |-> b, duplicate_of |-> x]
<1>2. CASE SeenBefore(k)
  BY <1>1, <1>2, TablesKept DEF Save, SeenBefore
<1>3. CASE ~SeenBefore(k)
  <2>1. /\ k \notin inbox /\ inbox' = inbox \cup {k}
        /\ rows' = [rows EXCEPT ![d] = row] /\ had' = had \cup {<<d, b>>}
        /\ outbox' = [outbox EXCEPT ![k] = @ + 1]
    BY <1>1, <1>3 DEF Save, SeenBefore, Commit, Upsert
  <2>2. DocOf[k[1]] = d /\ TrueLink(d, b, x)
    BY <1>1 DEF DocumentOf, Working
  <2>3. /\ row \in Row /\ row # None
        /\ row.content = b /\ row.duplicate_of = x
    BY RowAssumption DEF Row
  <2> HIDE DEF row
  <2>4. TablesTyped'
    BY <2>1, <2>3 DEF TypeOK, TablesTyped
  <2>5. rows'[d] = row /\ \A y \in Doc \ {d} : rows'[y] = rows[y]
    BY <2>1 DEF TypeOK
  <2>6. IsFiniteSet(inbox) /\ IsFiniteSet(inbox')
    BY <2>1, FS_AddElement DEF Tables
  <2>7. SavedOnce'
    BY <2>1 DEF Tables, SavedOnce, TypeOK
  <2>8. \A h \in had : h[1] \in Doc /\ rows[h[1]] # None /\ SavedFor(h[1]) # {}
    BY DEF TypeOK, Tables, RowsExplained
  <2>9. \A y : SavedFor(y) \subseteq SavedFor(y)'
    BY <2>1 DEF SavedFor
  <2>10. k \in SavedFor(d)' /\ k \notin SavedFor(d)
    BY <2>1, <2>2 DEF SavedFor
  <2>11. RowsExplained'
    <3>1. \A y \in Doc : rows'[y] # None => <<y, rows'[y].content>> \in had'
      BY <2>1, <2>3, <2>5 DEF Tables, RowsExplained
    <3>2. ASSUME NEW h \in had' PROVE rows'[h[1]] # None /\ SavedFor(h[1])' # {}
      <4>1. CASE h = <<d, b>>
        BY <2>3, <2>5, <2>10, <4>1
      <4>2. CASE h \in had
        BY <2>3, <2>5, <2>8, <2>9, <4>2
      <4> QED BY <2>1, <3>2, <4>1, <4>2
    <3> QED BY <3>1, <3>2 DEF RowsExplained
  <2>12. LinkIsTrue'
    <3> SUFFICES ASSUME NEW y \in Doc, rows'[y] # None, rows'[y].duplicate_of # None
                 PROVE  /\ rows'[y].duplicate_of # y
                        /\ \E c \in Content :
                             /\ <<rows'[y].duplicate_of, c>> \in had'
                             /\ c = rows'[y].content \/ {c, rows'[y].content} \in Similar
      BY DEF LinkIsTrue
    <3>1. CASE y = d
      <4>1. PICK c \in Content : x # d /\ <<x, c>> \in had /\ (c = b \/ {c, b} \in Similar)
        BY <2>2, <2>3, <2>5, <3>1 DEF TrueLink, Matches
      <4>2. rows'[y].duplicate_of = x /\ rows'[y].content = b /\ <<x, c>> \in had'
        BY <2>1, <2>3, <2>5, <3>1, <4>1
      <4> QED BY <3>1, <4>1, <4>2
    <3>2. CASE y # d
      <4>1. rows'[y] = rows[y]
        BY <2>5, <3>2
      <4>2. PICK z, a : z = rows[y].duplicate_of /\ a = rows[y].content
        OBVIOUS
      <4>3. PICK c \in Content : z # y /\ <<z, c>> \in had /\ (c = a \/ {c, a} \in Similar)
        BY <4>1, <4>2 DEF Tables, LinkIsTrue
      <4>4. rows'[y].duplicate_of = z /\ rows'[y].content = a /\ <<z, c>> \in had'
        BY <2>1, <4>1, <4>2, <4>3
      <4> QED BY <4>3, <4>4
    <3> QED BY <3>1, <3>2
  <2>13. LinksWellFounded'
    <3> SUFFICES ASSUME NEW D \in SUBSET {y \in Doc : rows'[y] # None}, D # {},
                        \A y \in D : rows'[y].duplicate_of \in D
                 PROVE  \E y \in D : Cardinality(SavedFor(y)') > 1
      BY DEF LinksWellFounded
    <3>1. \A E \in (SUBSET {y \in Doc : rows[y] # None}) \ {{}} :
            (\A y \in E : rows[y].duplicate_of \in E) => \E y \in E : Cardinality(SavedFor(y)) > 1
      BY DEF Tables, LinksWellFounded
    <3>2. ASSUME NEW y, Cardinality(SavedFor(y)) > 1 PROVE Cardinality(SavedFor(y)') > 1
      BY <2>1, <2>6, <3>2, SavedGrows
    \* A set without d was closed before.
    <3>3. CASE d \notin D
      <4>1. D \in (SUBSET {y \in Doc : rows[y] # None}) \ {{}} /\ \A y \in D : rows[y].duplicate_of \in D
        BY <2>5, <3>3
      <4> QED BY <3>1, <3>2, <4>1
    \* A second upload of d is what the exception is about.
    <3>4. CASE d \in D /\ rows[d] # None
      <4>1. SavedFor(d) # {}
        BY <2>8, <3>4 DEF Tables, RowsExplained
      <4>2. /\ IsFiniteSet(SavedFor(d)) /\ IsFiniteSet(SavedFor(d)')
            /\ Cardinality(SavedFor(d)) \in Nat /\ Cardinality(SavedFor(d)) # 0
        BY <2>1, <2>6, <4>1, SavedGrows, FS_EmptySet
      <4>3. SavedFor(d)' = SavedFor(d) \cup {k}
        BY <2>1, <2>2 DEF SavedFor
      <4>4. Cardinality(SavedFor(d)') = Cardinality(SavedFor(d)) + 1
        BY <2>10, <4>2, <4>3, FS_AddElement
      <4> QED BY <3>4, <4>2, <4>4
    \* Nothing can lead to a document that had no row: without it the set was
    \* closed before.
    <3>5. CASE d \in D /\ rows[d] = None
      <4>1. \A y \in D \ {d} : rows[y] # None /\ rows[y].duplicate_of \in D
        BY <2>5
      <4>2. \A y \in D \ {d} : rows[y].duplicate_of # d
        <5> SUFFICES ASSUME NEW y \in D \ {d}, rows[y].duplicate_of = d PROVE FALSE
          OBVIOUS
        <5>1. rows[y].duplicate_of # None
          BY FingerprintAssumption
        <5>2. \E c \in Content : <<d, c>> \in had
          BY <4>1, <5>1 DEF Tables, LinkIsTrue
        <5> QED BY <2>8, <3>5, <5>2
      <4>3. x \in D /\ x # d
        BY <2>2, <2>3, <2>5, <3>5, FingerprintAssumption DEF TrueLink
      <4>4. D \ {d} \in (SUBSET {y \in Doc : rows[y] # None}) \ {{}}
        BY <4>1, <4>3
      <4>5. \A y \in D \ {d} : rows[y].duplicate_of \in D \ {d}
        BY <4>1, <4>2
      <4> QED BY <3>1, <3>2, <4>4, <4>5
    <3> QED BY <3>3, <3>4, <3>5
  <2> QED BY <1>1, <2>1, <2>4, <2>6, <2>7, <2>11, <2>12, <2>13 DEF Tables
<1> QED BY <1>2, <1>3

\* The queue gets back what it is owed.
LEMMA PutBackFacts ==
  ASSUME TypeOK, NEW W \in SUBSET Worker, PutBack(W)
  PROVE  /\ queue' \in [Event -> Nat]
         /\ \A e \in Event : queue[e] > 0 => queue'[e] > 0
         /\ \A w \in W \cap waiting : event[w] \in Event => queue'[event[w]] > 0
<1> DEFINE S(e) == {w \in W \cap waiting : event[w] = e}
<1>1. \A e : IsFiniteSet(S(e)) /\ Cardinality(S(e)) \in Nat
  <2> SUFFICES ASSUME NEW e PROVE IsFiniteSet(S(e)) /\ Cardinality(S(e)) \in Nat
    OBVIOUS
  <2>1. S(e) \subseteq Worker
    OBVIOUS
  <2> QED BY <2>1, WorkerAssumption, FS_Subset, FS_CardinalityType
<1>2. \A e : S(e) # {} => Cardinality(S(e)) > 0
  BY <1>1, FS_EmptySet
<1>3. \A w \in W \cap waiting : w \in S(event[w])
  OBVIOUS
<1>4. queue' = [e \in Event |-> queue[e] + Cardinality(S(e))]
  BY DEF PutBack
<1> HIDE DEF S
<1>5. queue \in [Event -> Nat]
  BY DEF TypeOK
<1>6. \A e \in Event : queue'[e] = queue[e] + Cardinality(S(e)) /\ queue[e] \in Nat
  BY <1>4, <1>5
<1>7. queue' \in [Event -> Nat]
  BY <1>1, <1>4, <1>5
<1>8. \A w \in W \cap waiting : event[w] \in Event => queue'[event[w]] > 0
  <2> SUFFICES ASSUME NEW w \in W \cap waiting, event[w] \in Event
               PROVE  queue'[event[w]] > 0
    OBVIOUS
  <2>1. Cardinality(S(event[w])) > 0 /\ Cardinality(S(event[w])) \in Nat
    BY <1>1, <1>2, <1>3
  <2> QED BY <1>6, <2>1
<1> QED BY <1>1, <1>6, <1>7, <1>8

\* An event is kept by a step after which whatever waited for it, a message or
\* a handler, has passed it on or is done with it.
LEMMA KeptWhen ==
  ASSUME EventKept, copies' = copies, inbox \subseteq inbox',
         \A e \in Event : queue[e] > 0 \/ (\E w \in waiting : event[w] = e) =>
           \/ queue'[e] > 0
           \/ \E w \in waiting' : event'[w] = e
           \/ KeysOf(e) \subseteq inbox'
  PROVE  EventKept'
<1>1. \A e : KeysOf(e)' = KeysOf(e)
  BY DEF KeysOf
<1> QED BY <1>1 DEF EventKept

-----------------------------------------------------------------------------
(* The steps *)

\* An event comes into the queue: it is kept there.
LEMMA ArriveStep ==
  ASSUME IInv, NEW e \in Event, Arrive(e)
  PROVE  IInv'
<1>1. TypeOK /\ Tables /\ EventKept
  BY DEF IInv
<1>2. UNCHANGED <<pc, event, index, found, waiting, normalized, faults, inbox, rows, outbox, had>>
  BY DEF Arrive, tables
<1>3. /\ copies' \in [Event -> 0 .. MaxCopies] /\ queue' \in [Event -> Nat] /\ queue'[e] > 0
      /\ \A x \in Event \ {e} : copies'[x] = copies[x] /\ queue'[x] = queue[x]
  BY <1>1, FingerprintAssumption DEF Arrive, TypeOK
<1>4. TypeOK'
  BY <1>1, <1>2, <1>3 DEF TypeOK
<1>5. Tables'
  BY <1>1, <1>2, TablesKept DEF tables
<1>6. \A w \in Worker : Working(w)'
  BY <1>2, WorkingKept DEF IInv
<1>7. EventKept'
  BY <1>1, <1>2, <1>3 DEF EventKept, KeysOf
<1> QED BY <1>4, <1>5, <1>6, <1>7 DEF IInv

\* handle takes a message and waits for a thread.
LEMMA HandleStep ==
  ASSUME IInv, NEW w \in Worker, NEW e \in Event, Handle(w, e)
  PROVE  IInv'
<1>1. TypeOK /\ Tables /\ EventKept
  BY DEF IInv
<1>2. UNCHANGED <<copies, found, normalized, faults, inbox, rows, outbox, had>>
  BY DEF Handle, tables
<1>3. /\ pc[w] = "idle" /\ pc'[w] = "get" /\ event'[w] = e /\ index'[w] = 1
      /\ waiting' = waiting \cup {w}
      /\ \A v \in Worker \ {w} : pc'[v] = pc[v] /\ event'[v] = event[v] /\ index'[v] = index[v]
      /\ queue' \in [Event -> Nat] /\ \A x \in Event \ {e} : queue'[x] = queue[x]
  BY <1>1 DEF Handle, TypeOK
<1>4. <<e, 1>> \in Key
  BY KeyFacts
<1>5. TypeOK'
  <2>1. /\ pc' \in [Worker -> {"idle", "get", "search", "save", "return"}]
        /\ event' \in [Worker -> Event \cup {None}] /\ index' \in [Worker -> Nat]
    BY <1>1 DEF Handle, TypeOK
  <2>2. ASSUME NEW v \in Worker, pc'[v] # "idle" PROVE <<event'[v], index'[v]>> \in Key
    BY <1>1, <1>3, <1>4, <2>2 DEF TypeOK
  <2> QED BY <1>1, <1>2, <1>3, <2>1, <2>2 DEF TypeOK
<1>6. Tables'
  BY <1>1, <1>2, TablesKept DEF tables
<1>7. \A v \in Worker : Working(v)'
  <2>1. Working(w)'
    BY <1>3 DEF Working
  <2>2. \A v \in Worker \ {w} : Working(v)'
    BY <1>2, <1>3, WorkingKept DEF IInv
  <2> QED BY <2>1, <2>2
<1>8. EventKept'
  <2>1. \A v \in waiting : event'[v] = event[v]
    BY <1>1, <1>3 DEF IInv, Working, TypeOK
  <2> QED BY <1>1, <1>2, <1>3, <2>1, KeptWhen
<1> QED BY <1>5, <1>6, <1>7, <1>8 DEF IInv

\* process_upload reads and normalizes the upload, and writes no table.
LEMMA ProcessUploadStep ==
  ASSUME IInv, NEW w \in Worker, ProcessUpload(w)
  PROVE  IInv'
<1>1. TypeOK /\ Tables /\ EventKept /\ Working(w)
  BY DEF IInv
<1>2. UNCHANGED <<queue, copies, event, index, found, waiting, faults, inbox, rows, outbox, had>>
  BY DEF ProcessUpload, tables, queues
<1>3. pc[w] = "get" /\ pc'[w] = "search" /\ \A v \in Worker \ {w} : pc'[v] = pc[v]
  BY <1>1 DEF ProcessUpload, TypeOK
<1>4. TypeOK'
  <2>1. normalized' \in [Doc -> Content \cup {None}]
    BY <1>1, <1>3, AtUpload DEF ProcessUpload, TypeOK
  <2>2. pc' \in [Worker -> {"idle", "get", "search", "save", "return"}]
    BY <1>1 DEF ProcessUpload, TypeOK
  <2> QED BY <1>1, <1>2, <1>3, <2>1, <2>2 DEF TypeOK
<1>5. Tables'
  BY <1>1, <1>2, TablesKept DEF tables
<1>6. \A v \in Worker : Working(v)'
  <2>1. Working(w)'
    BY <1>1, <1>2, <1>3 DEF Working
  <2>2. \A v \in Worker \ {w} : Working(v)'
    BY <1>2, <1>3, WorkingKept DEF IInv
  <2> QED BY <2>1, <2>2
<1>7. EventKept'
  BY <1>1, <1>2, KeptWhen
<1> QED BY <1>4, <1>5, <1>6, <1>7 DEF IInv

\* What the search finds is another document with a matching fingerprint.
LEMMA ChosenTrue ==
  ASSUME TypeOK, Tables, NEW d \in Doc, NEW b \in Content, NEW x \in Chosen(d, b)
  PROVE  x \in Doc \cup {None} /\ TrueLink(d, b, x)
<1>1. x \in Doc \cup {None}
  BY DEF Chosen, Exact, Qualifying, Candidates
<1>2. ASSUME x # None
      PROVE  x \in Doc \ {d} /\ rows[x] # None
             /\ (rows[x].content = b \/ {rows[x].content, b} \in Similar)
  BY <1>2 DEF Chosen, Exact, Qualifying, Candidates
<1>3. ASSUME x # None PROVE \E c \in Content : <<x, c>> \in had /\ Matches(c, b)
  <2>1. rows[x] \in Row /\ <<x, rows[x].content>> \in had
    BY <1>2, <1>3 DEF TypeOK, Tables, RowsExplained
  <2>2. PICK c \in Content : c = rows[x].content
    BY <2>1 DEF Row
  <2> QED BY <1>2, <1>3, <2>1, <2>2 DEF Matches
<1> QED BY <1>1, <1>2, <1>3 DEF TrueLink

\* The search yields another document whose row matches now, or nothing.
LEMMA FindCandidatesStep ==
  ASSUME IInv, NEW w \in Worker, FindCandidates(w)
  PROVE  IInv'
<1>1. TypeOK /\ Tables /\ EventKept /\ Working(w)
  BY DEF IInv
<1>2. UNCHANGED <<queue, copies, event, index, waiting, normalized, faults, inbox, rows, outbox, had>>
  BY DEF FindCandidates, tables, queues
<1>3. pc[w] = "search" /\ pc' = [pc EXCEPT ![w] = "save"]
  BY DEF FindCandidates
<1>4. PICK x \in Chosen(DocumentOf(w), ContentOf(w)) : found' = [found EXCEPT ![w] = x]
  BY DEF FindCandidates
<1>5. PICK d \in Doc, b \in Content : d = DocumentOf(w) /\ b = ContentOf(w)
  BY <1>1, <1>3, AtUpload
<1>6. x \in Doc \cup {None} /\ TrueLink(d, b, x)
  BY <1>1, <1>4, <1>5, ChosenTrue
<1>7. /\ pc'[w] = "save" /\ found'[w] = x
      /\ \A v \in Worker \ {w} : pc'[v] = pc[v] /\ found'[v] = found[v]
  BY <1>1, <1>3, <1>4 DEF TypeOK
<1>8. TypeOK'
  <2>1. /\ pc' \in [Worker -> {"idle", "get", "search", "save", "return"}]
        /\ found' \in [Worker -> Doc \cup {None}]
    BY <1>1, <1>3, <1>4, <1>6 DEF TypeOK
  <2> QED BY <1>1, <1>2, <1>3, <1>7, <2>1 DEF TypeOK
<1>9. Tables'
  BY <1>1, <1>2, TablesKept DEF tables
<1>10. \A v \in Worker : Working(v)'
  <2>1. Working(w)'
    <3>1. DocumentOf(w)' = d /\ ContentOf(w)' = b
      BY <1>2, <1>5 DEF DocumentOf, ContentOf
    <3>2. TrueLink(d, b, x)'
      BY <1>2, <1>6 DEF TrueLink, Matches
    <3>3. TrueLink(DocumentOf(w), ContentOf(w), found[w])'
      BY <1>7, <3>1, <3>2 DEF TrueLink, Matches
    <3> QED BY <1>1, <1>2, <1>3, <1>7, <3>3 DEF Working
  <2>2. \A v \in Worker \ {w} : Working(v)'
    BY <1>2, <1>7, WorkingKept DEF IInv
  <2> QED BY <2>1, <2>2
<1>11. EventKept'
  BY <1>1, <1>2, KeptWhen
<1> QED BY <1>8, <1>9, <1>10, <1>11 DEF IInv

\* save_with_outbox: the inbox decides who saves, and the thread goes on to the
\* next upload of its event.
LEMMA SaveUploadStep ==
  ASSUME IInv, NEW w \in Worker, SaveUpload(w)
  PROVE  IInv'
<1>1. TypeOK /\ Tables /\ EventKept /\ Working(w)
  BY DEF IInv
<1>2. UNCHANGED <<queue, copies, event, waiting, normalized, faults>>
  BY DEF SaveUpload, queues
<1>3. pc[w] = "save" /\ Save(w) /\ Advance(w)
  BY DEF SaveUpload
<1>4. /\ Tables' /\ TablesTyped' /\ inbox \subseteq inbox' /\ had \subseteq had'
      /\ <<event[w], index[w]>> \in inbox'
  BY <1>1, <1>3, SaveKeeps
<1>5. PICK e \in Event, n \in Nat : e = event[w] /\ n = index[w] /\ n \in 1 .. Len(Uploads[e])
  <2>1. index[w] \in Nat
    BY <1>1 DEF TypeOK
  <2> QED BY <1>1, <1>3, <2>1, AtUpload
<1>6. Len(Uploads[e]) \in Nat \ {0}
  BY KeyFacts
<1>7. \A m \in 1 .. n : <<e, m>> \in inbox'
  BY <1>1, <1>3, <1>4, <1>5, <1>6 DEF Working
<1>8. /\ found'[w] = None
      /\ \/ n < Len(Uploads[e]) /\ index'[w] = n + 1 /\ pc'[w] = "get"
         \/ n = Len(Uploads[e]) /\ index'[w] = n /\ pc'[w] = "return"
      /\ \A v \in Worker \ {w} : pc'[v] = pc[v] /\ found'[v] = found[v] /\ index'[v] = index[v]
  BY <1>1, <1>3, <1>5, <1>6 DEF Advance, TypeOK
<1>9. TypeOK'
  <2>1. /\ pc' \in [Worker -> {"idle", "get", "search", "save", "return"}]
        /\ found' \in [Worker -> Doc \cup {None}] /\ index' \in [Worker -> Nat]
    <3>1. CASE index[w] < Len(Uploads[event[w]])
      <4>1. /\ index' = [index EXCEPT ![w] = index[w] + 1] /\ pc' = [pc EXCEPT ![w] = "get"]
            /\ found' = [found EXCEPT ![w] = None]
        BY <1>3, <3>1 DEF Advance
      <4>2. index \in [Worker -> Nat] /\ index[w] + 1 \in Nat
        BY <1>1 DEF TypeOK
      <4> QED BY <1>1, <4>1, <4>2 DEF TypeOK
    <3>2. CASE ~(index[w] < Len(Uploads[event[w]]))
      BY <1>1, <1>3, <3>2 DEF Advance, TypeOK
    <3> QED BY <3>1, <3>2
  <2>2. <<event'[w], index'[w]>> \in Key
    BY <1>2, <1>5, <1>6, <1>8, KeyFacts
  <2>3. \A v \in Worker : pc'[v] # "idle" => <<event'[v], index'[v]>> \in Key
    BY <1>1, <1>2, <1>8, <2>2 DEF TypeOK
  <2> QED BY <1>1, <1>2, <1>4, <2>1, <2>3 DEF TypeOK, TablesTyped
<1>10. \A v \in Worker : Working(v)'
  <2>1. Working(w)'
    <3>1. CASE n < Len(Uploads[e]) /\ index'[w] = n + 1 /\ pc'[w] = "get"
      <4>1. \A m \in 1 .. index'[w] - 1 : <<event'[w], m>> \in inbox'
        BY <1>2, <1>5, <1>7, <3>1
      <4> QED BY <3>1, <4>1 DEF Working
    <3>2. CASE n = Len(Uploads[e]) /\ index'[w] = n /\ pc'[w] = "return"
      <4>1. \A m \in 1 .. index'[w] - 1 : <<event'[w], m>> \in inbox'
        BY <1>2, <1>5, <1>7, <3>2
      <4>2. KeysOf(e) \subseteq inbox'
        <5>1. DOMAIN Uploads[e] = 1 .. Len(Uploads[e])
          BY FingerprintAssumption
        <5> QED BY <1>7, <3>2, <5>1 DEF KeysOf
      <4>3. (KeysOf(event[w]) \subseteq inbox)'
        BY <1>2, <1>5, <4>2 DEF KeysOf
      <4> QED BY <3>2, <4>1, <4>3 DEF Working
    <3> QED BY <1>8, <3>1, <3>2
  <2>2. \A v \in Worker \ {w} : Working(v)'
    BY <1>2, <1>4, <1>8, WorkingKept DEF IInv
  <2> QED BY <2>1, <2>2
<1>11. EventKept'
  BY <1>1, <1>2, <1>4, KeptWhen
<1> QED BY <1>4, <1>9, <1>10, <1>11 DEF IInv

\* A thread that ends is idle, and leaves the others alone.
LEMMA EndKeeps ==
  ASSUME IInv, NEW w \in Worker, End(w), inbox \subseteq inbox', had \subseteq had'
  PROVE  /\ pc' \in [Worker -> {"idle", "get", "search", "save", "return"}]
         /\ event' \in [Worker -> Event \cup {None}]
         /\ index' \in [Worker -> Nat] /\ found' \in [Worker -> Doc \cup {None}]
         /\ waiting' \subseteq Worker
         /\ \A v \in Worker : pc'[v] # "idle" => <<event'[v], index'[v]>> \in Key
         /\ \A v \in Worker : Working(v)'
         /\ \A v \in waiting \ {w} : v \in waiting' /\ event'[v] = event[v]
<1>1. TypeOK
  BY DEF IInv
<1>2. /\ pc'[w] = "idle" /\ w \notin waiting'
      /\ \A v \in Worker \ {w} :
           /\ pc'[v] = pc[v] /\ event'[v] = event[v] /\ index'[v] = index[v]
           /\ found'[v] = found[v] /\ (v \in waiting' <=> v \in waiting)
  BY <1>1 DEF End, TypeOK
<1>3. /\ pc' \in [Worker -> {"idle", "get", "search", "save", "return"}]
      /\ event' \in [Worker -> Event \cup {None}]
      /\ index' \in [Worker -> Nat] /\ found' \in [Worker -> Doc \cup {None}]
      /\ waiting' \subseteq Worker
  BY <1>1 DEF End, TypeOK
<1>4. Working(w)'
  BY <1>2 DEF Working
<1>5. \A v \in Worker \ {w} : Working(v)'
  BY <1>2, WorkingKept DEF IInv
<1> QED BY <1>1, <1>2, <1>3, <1>4, <1>5 DEF TypeOK

\* A thread returns, and its handler acknowledges the message.
LEMMA ReturnStep ==
  ASSUME IInv, NEW w \in Worker, Return(w)
  PROVE  IInv'
<1>1. TypeOK /\ Tables /\ EventKept /\ Working(w)
  BY DEF IInv
<1>2. UNCHANGED <<queue, copies, normalized, faults, inbox, rows, outbox, had>>
  BY DEF Return, queues, tables
<1>3. pc[w] = "return" /\ End(w)
  BY DEF Return
<1>4. Tables'
  BY <1>1, <1>2, TablesKept DEF tables
<1>5. TypeOK' /\ \A v \in Worker : Working(v)'
  BY <1>1, <1>2, <1>3, EndKeeps DEF TypeOK
<1>6. EventKept'
  <2>1. KeysOf(event[w]) \subseteq inbox'
    BY <1>1, <1>2, <1>3 DEF Working
  <2>2. \A v \in waiting \ {w} : v \in waiting' /\ event'[v] = event[v]
    BY <1>2, <1>3, EndKeeps
  <2> QED BY <1>1, <1>2, <2>1, <2>2, KeptWhen
<1> QED BY <1>4, <1>5, <1>6 DEF IInv

\* A handler waits for a thread with an event.
LEMMA WaitingHasEvent ==
  ASSUME IInv, NEW w \in waiting
  PROVE  w \in Worker /\ event[w] \in Event
<1>1. w \in Worker /\ pc[w] # "idle"
  BY DEF IInv, TypeOK, Working
<1> QED BY <1>1, AtUpload DEF IInv

\* A handler gives up and requeues the message; the thread runs on.
LEMMA TimeoutStep ==
  ASSUME IInv, NEW w \in Worker, Timeout(w)
  PROVE  IInv'
<1>1. TypeOK /\ Tables /\ EventKept
  BY DEF IInv
<1>2. UNCHANGED <<copies, pc, event, index, found, normalized, inbox, rows, outbox, had>>
  BY DEF Timeout, tables
<1>3. w \in waiting /\ waiting' = waiting \ {w} /\ PutBack({w}) /\ faults' \in 0 .. MaxFaults
  BY <1>1, FingerprintAssumption DEF Timeout, Fault, TypeOK
<1>4. /\ queue' \in [Event -> Nat]
      /\ \A e \in Event : queue[e] > 0 => queue'[e] > 0
      /\ queue'[event[w]] > 0
  BY <1>1, <1>3, PutBackFacts, WaitingHasEvent
<1>5. TypeOK'
  BY <1>1, <1>2, <1>3, <1>4 DEF TypeOK
<1>6. Tables'
  BY <1>1, <1>2, TablesKept DEF tables
<1>7. \A v \in Worker : Working(v)'
  BY <1>2, <1>3, WorkingKept DEF IInv
<1>8. EventKept'
  BY <1>1, <1>2, <1>3, <1>4, KeptWhen
<1> QED BY <1>5, <1>6, <1>7, <1>8 DEF IInv

\* A thread raises, perhaps after its commit; the message is requeued.
LEMMA RaiseStep ==
  ASSUME IInv, NEW w \in Worker, Raise(w)
  PROVE  IInv'
<1>1. TypeOK /\ Tables /\ EventKept /\ Working(w)
  BY DEF IInv
<1>2. UNCHANGED <<copies, normalized>> /\ faults' \in 0 .. MaxFaults /\ End(w) /\ PutBack({w})
  BY <1>1, FingerprintAssumption DEF Raise, Fault, TypeOK
<1>3. Tables' /\ TablesTyped' /\ inbox \subseteq inbox' /\ had \subseteq had'
  <2>1. CASE pc[w] = "save" /\ Save(w)
    BY <1>1, <2>1, SaveKeeps
  <2>2. CASE UNCHANGED tables
    BY <1>1, <2>2, TablesKept
  <2> QED BY <2>1, <2>2 DEF Raise
<1>4. /\ queue' \in [Event -> Nat]
      /\ \A e \in Event : queue[e] > 0 => queue'[e] > 0
      /\ w \in waiting => queue'[event[w]] > 0
  BY <1>1, <1>2, PutBackFacts, WaitingHasEvent
<1>5. /\ pc' \in [Worker -> {"idle", "get", "search", "save", "return"}]
      /\ event' \in [Worker -> Event \cup {None}]
      /\ index' \in [Worker -> Nat] /\ found' \in [Worker -> Doc \cup {None}]
      /\ waiting' \subseteq Worker
      /\ \A v \in Worker : pc'[v] # "idle" => <<event'[v], index'[v]>> \in Key
      /\ \A v \in Worker : Working(v)'
      /\ \A v \in waiting \ {w} : v \in waiting' /\ event'[v] = event[v]
  BY <1>2, <1>3, EndKeeps
<1>6. TypeOK'
  BY <1>1, <1>2, <1>3, <1>4, <1>5 DEF TypeOK, TablesTyped
<1>7. EventKept'
  BY <1>1, <1>2, <1>3, <1>4, <1>5, KeptWhen
<1> QED BY <1>3, <1>5, <1>6, <1>7 DEF IInv

\* The process dies: unacknowledged messages are in the queue again, the
\* tables stay.
LEMMA CrashStep ==
  ASSUME IInv, Crash
  PROVE  IInv'
<1>1. TypeOK /\ Tables /\ EventKept
  BY DEF IInv
<1>2. UNCHANGED <<copies, normalized, inbox, rows, outbox, had>> /\ faults' \in 0 .. MaxFaults
  BY <1>1, FingerprintAssumption DEF Crash, Fault, TypeOK, tables
<1>3. /\ PutBack(Worker) /\ waiting' = {}
      /\ pc' = [w \in Worker |-> "idle"] /\ event' = [w \in Worker |-> None]
      /\ index' = [w \in Worker |-> 0] /\ found' = [w \in Worker |-> None]
  BY DEF Crash
<1>4. /\ queue' \in [Event -> Nat]
      /\ \A e \in Event : queue[e] > 0 => queue'[e] > 0
      /\ \A w \in waiting : queue'[event[w]] > 0
  BY <1>1, <1>3, PutBackFacts, WaitingHasEvent
<1>5. TypeOK'
  BY <1>1, <1>2, <1>3, <1>4 DEF TypeOK
<1>6. Tables'
  BY <1>1, <1>2, TablesKept DEF tables
<1>7. \A v \in Worker : Working(v)'
  BY <1>3 DEF Working
<1>8. EventKept'
  BY <1>1, <1>2, <1>4, KeptWhen
<1> QED BY <1>5, <1>6, <1>7, <1>8 DEF IInv

-----------------------------------------------------------------------------
(* The theorems *)

\* Empty tables and no messages satisfy the invariant.
LEMMA Initially == Init => IInv
<1> SUFFICES ASSUME Init PROVE IInv
  OBVIOUS
<1>1. TypeOK
  BY FingerprintAssumption DEF Init, TypeOK
<1>2. \A w \in Worker : Working(w)
  BY DEF Init, Working
<1>3. RowsExplained /\ LinkIsTrue
  BY DEF Init, RowsExplained, LinkIsTrue
<1>4. SavedOnce
  BY DEF Init, SavedOnce
<1>5. EventKept
  BY DEF Init, EventKept
<1>6. LinksWellFounded
  <2>1. {d \in Doc : rows[d] # None} = {}
    BY DEF Init
  <2> QED BY <2>1 DEF LinksWellFounded
<1>7. IsFiniteSet(inbox)
  BY FS_EmptySet DEF Init
<1> QED BY <1>1, <1>2, <1>3, <1>4, <1>5, <1>6, <1>7 DEF IInv, Tables

\* Every step keeps the invariant.
LEMMA Inductive == IInv /\ [Next]_vars => IInv'
<1> SUFFICES ASSUME IInv, [Next]_vars PROVE IInv'
  OBVIOUS
<1>1. ASSUME NEW e \in Event, Arrive(e) PROVE IInv'
  BY <1>1, ArriveStep
<1>2. ASSUME NEW e \in Event, NEW w \in Worker, Handle(w, e) PROVE IInv'
  BY <1>2, HandleStep
<1>3. ASSUME NEW w \in Worker,
             \/ ProcessUpload(w) \/ FindCandidates(w) \/ SaveUpload(w) \/ Return(w)
             \/ Timeout(w) \/ Raise(w)
      PROVE  IInv'
  BY <1>3, ProcessUploadStep, FindCandidatesStep, SaveUploadStep, ReturnStep, TimeoutStep, RaiseStep
<1>4. CASE Crash
  BY <1>4, CrashStep
<1>5. CASE UNCHANGED vars
  <2>1. UNCHANGED <<queue, copies, pc, event, index, found, waiting, normalized, faults, tables>>
    BY <1>5 DEF vars
  <2>2. Tables' /\ TablesTyped' /\ inbox \subseteq inbox' /\ had \subseteq had'
    BY <2>1, TablesKept DEF IInv
  <2>3. TypeOK'
    BY <2>1, <2>2 DEF IInv, TypeOK, TablesTyped
  <2>4. \A w \in Worker : Working(w)'
    BY <2>1, <2>2, WorkingKept DEF IInv
  <2>5. EventKept'
    BY <2>1, <2>2, KeptWhen DEF IInv
  <2> QED BY <2>2, <2>3, <2>4, <2>5 DEF IInv
<1> QED BY <1>1, <1>2, <1>3, <1>4, <1>5 DEF Next

\* The invariant holds always.
LEMMA Invariance == Spec => []IInv
BY Initially, Inductive, PTL DEF Spec

\* The variables keep their types; a thread at work is at an upload its event
\* has.
THEOREM TypeCorrect == Spec => []TypeOK
BY Invariance, PTL DEF IInv

\* However many threads process an upload at the same time, and however often
\* its event is delivered, it is announced once, with its entry in the inbox.
\* (save_with_outbox)
THEOREM AnnouncedOnce == Spec => []SavedOnce
BY Invariance, PTL DEF IInv, Tables

\* An event that arrived is in the queue or with a handler until all its
\* uploads are saved, whatever times out, raises or dies.  (handle)
THEOREM NothingDropped == Spec => []EventKept
BY Invariance, PTL DEF IInv

\* A stored link leads to another document that had a matching fingerprint.
\* (find_candidates, process_upload)
THEOREM LinksTrue == Spec => []LinkIsTrue
BY Invariance, PTL DEF IInv, Tables

\* Documents whose links only lead to each other do not exist, unless one of
\* them has had a second upload.  (save_with_outbox)
THEOREM LinksEnd == Spec => []LinksWellFounded
BY Invariance, PTL DEF IInv, Tables
=============================================================================
