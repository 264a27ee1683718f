---------------------------- MODULE Fingerprint ----------------------------
(***************************************************************************)
(* The Fingerprint service's consumer of DocumentProcessed events and its  *)
(* search for duplicates.  A delivery is processed by a thread, for which  *)
(* its handler waits for a limited time: when that is over, the message is *)
(* put back into the queue, and the thread runs on.                        *)
(*                                                                         *)
(* The files of an upload are abstracted to contents: hashes of contents   *)
(* are equal when the contents are, and lie within a threshold when the    *)
(* contents are similar.  The publisher of the outbox is in Outbox.        *)
(***************************************************************************)
EXTENDS Naturals, Sequences, FiniteSets

CONSTANTS
  Doc,        \* document ids
  Content,    \* contents of uploads
  Similar,    \* pairs of contents within one of the thresholds
  Event,      \* DocumentProcessed events
  DocOf,      \* document_id of each event
  Uploads,    \* its uploads, as the contents their references lead to
  Worker,     \* threads, each with the handler that waits for it
  MaxCopies,  \* bound: how often an event is delivered to the queue
  MaxFaults,  \* bound: how many timeouts, errors and crashes there are
  None        \* no value

ASSUME FingerprintAssumption ==
  /\ DocOf \in [Event -> Doc] /\ Uploads \in [Event -> Seq(Content)]
  /\ \A e \in Event : Uploads[e] # <<>>
  /\ Similar \subseteq SUBSET Content
  /\ None \notin Doc \cup Content \cup Event
  /\ MaxCopies \in Nat /\ MaxFaults \in Nat
ASSUME WorkerAssumption == IsFiniteSet(Worker)

\* A row of table fingerprints.
Row == [content: Content, duplicate_of: Doc \cup {None}]
ASSUME RowAssumption == None \notin Row

\* The ids kept in event_inbox: an event's and the position of an upload.
Key == UNION {{e} \X DOMAIN Uploads[e] : e \in Event}

VARIABLES
  queue,     \* messages waiting in the queue
  copies,    \* how often each event was delivered to the queue
  pc,        \* where each thread is
  event,     \* the event it processes
  index,     \* the position of the upload it is at
  found,     \* the document it takes this upload for a duplicate of
  waiting,   \* threads for which a handler is waiting
  normalized,\* the object normalized.png of each document
  inbox,     \* table event_inbox
  rows,      \* table fingerprints
  outbox,    \* rows of table event_outbox, for each upload
  faults,
  had        \* history: the fingerprints each document has had

queues == <<queue, copies>>
tables == <<inbox, rows, outbox, had>>
vars == <<queue, copies, pc, event, index, found, waiting, normalized, tables, faults>>

TypeOK ==
  /\ queue \in [Event -> Nat] /\ copies \in [Event -> 0 .. MaxCopies]
  /\ pc \in [Worker -> {"idle", "get", "search", "save", "return"}]
  /\ event \in [Worker -> Event \cup {None}]
  /\ index \in [Worker -> Nat]
  /\ found \in [Worker -> Doc \cup {None}]
  /\ waiting \subseteq Worker
  /\ normalized \in [Doc -> Content \cup {None}]
  /\ inbox \subseteq Key
  /\ rows \in [Doc -> Row \cup {None}]
  /\ outbox \in [Key -> Nat]
  /\ faults \in 0 .. MaxFaults
  /\ had \subseteq Doc \X Content
  /\ \A w \in Worker : pc[w] # "idle" => <<event[w], index[w]>> \in Key

Init ==
  /\ queue = [e \in Event |-> 0] /\ copies = [e \in Event |-> 0]
  /\ pc = [w \in Worker |-> "idle"] /\ event = [w \in Worker |-> None]
  /\ index = [w \in Worker |-> 0] /\ found = [w \in Worker |-> None]
  /\ waiting = {}
  /\ normalized = [d \in Doc |-> None]
  /\ inbox = {} /\ rows = [d \in Doc |-> None] /\ outbox = [k \in Key |-> 0]
  /\ faults = 0 /\ had = {}

-----------------------------------------------------------------------------
(* Helpers *)

DocumentOf(w) == DocOf[event[w]]
ContentOf(w) == Uploads[event[w]][index[w]]

\* Candidates with the document itself among them.
AllCandidates(d) == {x \in Doc : rows[x] # None}

\* find_candidates
Candidates(d) == {x \in Doc \ {d} : rows[x] # None}

\* qualifying_matches, of which an exact one is preferred.
Exact(d, c) == {x \in Candidates(d) : rows[x].content = c}
Qualifying(d, c) ==
  Exact(d, c) \cup {x \in Candidates(d) : {rows[x].content, c} \in Similar}
Chosen(d, c) ==
  IF Exact(d, c) # {} THEN Exact(d, c)
  ELSE IF Qualifying(d, c) # {} THEN Qualifying(d, c) ELSE {None}

\* The thread ends, and the handler's wait with it.
End(w) ==
  /\ pc' = [pc EXCEPT ![w] = "idle"] /\ event' = [event EXCEPT ![w] = None]
  /\ index' = [index EXCEPT ![w] = 0] /\ found' = [found EXCEPT ![w] = None]
  /\ waiting' = waiting \ {w}

\* After an upload the next one, past the end.
AdvancePast(w) ==
  /\ found' = [found EXCEPT ![w] = None]
  /\ index' = [index EXCEPT ![w] = @ + 1] /\ pc' = [pc EXCEPT ![w] = "get"]

\* After an upload, the next one.
Advance(w) ==
  /\ found' = [found EXCEPT ![w] = None]
  /\ IF index[w] < Len(Uploads[event[w]])
     THEN index' = [index EXCEPT ![w] = @ + 1] /\ pc' = [pc EXCEPT ![w] = "get"]
     ELSE pc' = [pc EXCEPT ![w] = "return"] /\ UNCHANGED index

\* The row of a document is replaced, whichever of its uploads it is from.
Upsert(w) ==
  /\ rows' = [rows EXCEPT ![DocumentOf(w)] =
                [content |-> ContentOf(w), duplicate_of |-> found[w]]]
  /\ had' = had \cup {<<DocumentOf(w), ContentOf(w)>>}

\* The transaction of save_with_outbox, for an upload not seen before.
Commit(w) ==
  LET k == <<event[w], index[w]>>
  IN /\ inbox' = inbox \cup {k}
     /\ Upsert(w)
     /\ outbox' = [outbox EXCEPT ![k] = @ + 1]

\* The inbox is not asked.
NeverSeen(k) == FALSE

\* INSERT INTO event_inbox ... ON CONFLICT DO NOTHING inserts no row.
SeenBefore(k) == k \in inbox

\* save_with_outbox without the rollback: the row is replaced once more.
SaveUnrolled(w) ==
  IF SeenBefore(<<event[w], index[w]>>) THEN Upsert(w) /\ UNCHANGED <<inbox, outbox>>
                                        ELSE Commit(w)

\* save_with_outbox
Save(w) ==
  IF SeenBefore(<<event[w], index[w]>>) THEN UNCHANGED tables ELSE Commit(w)

-----------------------------------------------------------------------------
(* Consumer *)

\* Document Processing's outbox delivers an event, perhaps more than once.
Arrive(e) ==
  /\ copies[e] < MaxCopies
  /\ copies' = [copies EXCEPT ![e] = @ + 1]
  /\ queue' = [queue EXCEPT ![e] = @ + 1]
  /\ UNCHANGED <<pc, event, index, found, waiting, normalized, tables, faults>>

\* handle: a thread begins process_event.
Handle(w, e) ==
  /\ queue[e] > 0 /\ pc[w] = "idle"
  /\ queue' = [queue EXCEPT ![e] = @ - 1]
  /\ pc' = [pc EXCEPT ![w] = "get"] /\ event' = [event EXCEPT ![w] = e]
  /\ index' = [index EXCEPT ![w] = 1]
  /\ waiting' = waiting \cup {w}
  /\ UNCHANGED <<copies, found, normalized, tables, faults>>

\* process_upload: the upload is read, and its normalized image stored.
ProcessUpload(w) ==
  /\ pc[w] = "get"
  /\ normalized' = [normalized EXCEPT ![DocumentOf(w)] = ContentOf(w)]
  /\ pc' = [pc EXCEPT ![w] = "search"]
  /\ UNCHANGED <<queues, event, index, found, waiting, tables, faults>>

\* The duplicates stored so far are searched; the newest is chosen.
FindCandidates(w) ==
  /\ pc[w] = "search"
  /\ \E x \in Chosen(DocumentOf(w), ContentOf(w)) : found' = [found EXCEPT ![w] = x]
  /\ pc' = [pc EXCEPT ![w] = "save"]
  /\ UNCHANGED <<queues, event, index, waiting, normalized, tables, faults>>

SaveUpload(w) ==
  /\ pc[w] = "save"
  /\ Save(w)
  /\ Advance(w)
  /\ UNCHANGED <<queues, event, waiting, normalized, faults>>

\* process_event returns: the handler, if it still waits, acknowledges.
Return(w) ==
  /\ pc[w] = "return"
  /\ End(w)
  /\ UNCHANGED <<queues, normalized, tables, faults>>

Fault == faults < MaxFaults /\ faults' = faults + 1

\* What the queue gets back from the handlers of W that still wait.
PutBack(W) ==
  queue' = [e \in Event |-> queue[e] + Cardinality({w \in W \cap waiting : event[w] = e})]

\* Acknowledging although the thread is not done.
TimeoutAcked(w) ==
  /\ Fault /\ w \in waiting
  /\ waiting' = waiting \ {w}
  /\ UNCHANGED <<queues, pc, event, index, found, normalized, tables>>

\* The handler has waited too long, and the message goes back; the thread
\* runs on.
Timeout(w) ==
  /\ Fault /\ w \in waiting
  /\ waiting' = waiting \ {w}
  /\ PutBack({w})
  /\ UNCHANGED <<copies, pc, event, index, found, normalized, tables>>

\* The storage or the database raises, the latter perhaps after a commit: the
\* handler, if it still waits, puts the message back.
Raise(w) ==
  /\ Fault /\ pc[w] \in {"get", "search", "save"}
  /\ \/ pc[w] = "save" /\ Save(w)
     \/ UNCHANGED tables
  /\ PutBack({w})
  /\ End(w)
  /\ UNCHANGED <<copies, normalized>>

\* The process dies with all its threads, and starts again.
Crash ==
  /\ Fault
  /\ PutBack(Worker)
  /\ pc' = [w \in Worker |-> "idle"] /\ event' = [w \in Worker |-> None]
  /\ index' = [w \in Worker |-> 0] /\ found' = [w \in Worker |-> None]
  /\ waiting' = {}
  /\ UNCHANGED <<copies, normalized, tables>>

-----------------------------------------------------------------------------

Next ==
  \/ \E e \in Event : Arrive(e) \/ \E w \in Worker : Handle(w, e)
  \/ \E w \in Worker :
       \/ ProcessUpload(w) \/ FindCandidates(w) \/ SaveUpload(w) \/ Return(w)
       \/ Timeout(w) \/ Raise(w)
  \/ Crash

Spec == Init /\ [][Next]_vars

-----------------------------------------------------------------------------
(* Properties *)

KeysOf(e) == {e} \X DOMAIN Uploads[e]
SavedFor(d) == {k \in inbox : DocOf[k[1]] = d}

\* An upload of an event is announced once, with its row and its entry in the
\* inbox, although threads that outlived their timeout, redelivered messages
\* and repeated deliveries process it at the same time.  (save_with_outbox.)
SavedOnce == \A k \in Key : outbox[k] = IF k \in inbox THEN 1 ELSE 0

\* An event that arrived waits in the queue, or a handler still answers for
\* it, until all its uploads are saved: also when some were saved before an
\* error, and when the thread that saves them is nobody's any more.
\* (handle, process_event.)
EventKept ==
  \A e \in Event : copies[e] > 0 =>
    \/ queue[e] > 0
    \/ \E w \in waiting : event[w] = e
    \/ KeysOf(e) \subseteq inbox

\* A document is said to be a duplicate only of another one that had a
\* fingerprint matching its own, exactly or within a threshold, although the
\* search is over before the row is written.  (find_candidates,
\* process_upload.)
LinkIsTrue ==
  \A d \in Doc : rows[d] # None /\ rows[d].duplicate_of # None =>
    /\ rows[d].duplicate_of # d
    /\ \E c \in Content :
         /\ <<rows[d].duplicate_of, c>> \in had
         /\ c = rows[d].content \/ {c, rows[d].content} \in Similar

\* Duplicates lead to an original: documents whose links only lead to each
\* other do not exist, unless one of them has had a second upload.  (The
\* inbox keeps the row of a late thread from replacing the one that others
\* were compared with.)
LinksWellFounded ==
  \A D \in (SUBSET {d \in Doc : rows[d] # None}) \ {{}} :
    (\A d \in D : rows[d].duplicate_of \in D) => \E d \in D : Cardinality(SavedFor(d)) > 1
=============================================================================
