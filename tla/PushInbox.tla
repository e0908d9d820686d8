----------------------------- MODULE PushInbox -----------------------------
(***************************************************************************)
(* How a marking travels from a push-mode reader to attendance_events:     *)
(* devices/push.rs::receive_push stores the raw body and answers 200,      *)
(* workers/push_drain.rs turns stored bodies into attendance rows through  *)
(* isapi/ingest.rs, attendance/ingest.rs and events/service.rs.            *)
(*                                                                         *)
(* The reader resends the head of its queue until it sees a 200.  All      *)
(* writes go through the write queue, here a FIFO of commands that either  *)
(* take effect or are answered with an error (see WriteLedger).  Every     *)
(* failure (refused write, lost answer, failed read, crash) takes one unit *)
(* of the fault budget, so behaviours are calm in the end.                 *)
(***************************************************************************)
EXTENDS Naturals, Sequences, FiniteSets, SequencesExt

CONSTANTS
  Bodies,        \* the pushes of the reader, in its order: Seq(Seq(Parts))
  Parts,         \* alerts, each with its photo
  Unparseable,   \* parts that parse_alert rejects
  Heartbeats,    \* parts that name nobody: heartbeat, door, tamper
  Person,        \* Person[p]: who a marking names
  Buckets,       \* Buckets[p]: the 30 s buckets p can get: one when it is dated
  WithPhoto,     \* parts that carry a JPEG
  Nobody,        \* the employee of an unknown face (NULL)
  MaxAttempts,   \* MAX_ATTEMPTS (10 in the code)
  BatchSize,     \* DRAIN_BATCH_SIZE (50 in the code)
  MaxFaults      \* bound: faults in one behaviour

Markings == Parts \ (Unparseable \cup Heartbeats)

ASSUME InboxAssumption ==
  /\ Bodies \in Seq(Seq(Parts))
  /\ \A b \in DOMAIN Bodies : \A i, j \in DOMAIN Bodies[b] :
       Bodies[b][i] = Bodies[b][j] => i = j    \* a part is one alert
  /\ Unparseable \subseteq Parts
  /\ Heartbeats \subseteq Parts
  /\ Nobody \notin {Person[p] : p \in Parts}
  /\ MaxAttempts \in Nat \ {0}
  /\ BatchSize \in Nat \ {0}
  /\ MaxFaults \in Nat

VARIABLES
  head,      \* the reader: index of the body it must deliver next
  handler,   \* receive_push: idle, waiting for the INSERT, stored, refused
  wq,        \* admitted write commands
  inbox,     \* device_push_inbox in rowid order
  drain,     \* the drain worker: where it is
  final,     \* the pass is the last one, made after the shutdown token
  batch,     \* the rows of the pass not yet resolved
  row,       \* the row being processed
  cursor,    \* the next part of the row being processed
  transient, \* process_row has seen an error
  permanent, \* process_row has seen an unparseable part
  events,    \* attendance_events
  files,     \* photos on disk, named by the event's id
  nextId,    \* fresh event ids
  enrolled,  \* people that device_face_mappings or employee_code resolve
  stopping,  \* the shutdown token is cancelled
  faults     \* faults so far

readerVars == <<head, handler>>
rowVars    == <<row, cursor, transient, permanent>>
drainVars  == <<drain, final, batch, rowVars>>
vars == <<head, handler, wq, inbox, drain, final, batch, row, cursor, transient,
          permanent, events, files, nextId, enrolled, stopping, faults>>

Statuses == {"pending", "done", "failed"}
People == {Person[p] : p \in Parts}
InboxRows == [body: DOMAIN Bodies, status: Statuses, attempts: 0..MaxAttempts]
EventRows == [id: Nat, part: Parts, row: Nat, who: People \cup {Nobody},
              bucket: UNION {Buckets[p] : p \in Parts}]
Commands == [op: {"store"}, body: DOMAIN Bodies, caller: {"handler", "nobody"}]
              \cup [op: {"event"}, event: EventRows]
              \cup [op: {"mark"}, row: Nat, status: Statuses, attempts: 0..MaxAttempts]

TypeOK ==
  /\ head \in 1..(Len(Bodies) + 1)
  /\ handler \in {"idle", "waiting", "stored", "refused"}
  /\ wq \in Seq(Commands)
  /\ inbox \in Seq(InboxRows)
  /\ \A r \in DOMAIN inbox :
       inbox[r].status = "pending" => inbox[r].attempts < MaxAttempts
  /\ drain \in {"idle", "row", "part", "persist", "mark", "dead", "stopped"}
  /\ final \in BOOLEAN
  /\ batch \subseteq DOMAIN inbox
  /\ drain \in {"part", "persist", "mark"} => row \in batch
  /\ cursor \in Nat
  /\ transient \in BOOLEAN
  /\ permanent \in BOOLEAN
  /\ events \subseteq EventRows
  /\ files \subseteq Nat
  /\ nextId \in Nat
  /\ enrolled \subseteq People
  /\ stopping \in BOOLEAN
  /\ faults \in 0..MaxFaults

Init ==
  /\ head = 1 /\ handler = "idle"
  /\ wq = <<>> /\ inbox = <<>>
  /\ drain = "idle" /\ final = FALSE /\ batch = {} /\ row = 0 /\ cursor = 1
  /\ transient = FALSE /\ permanent = FALSE
  /\ events = {} /\ files = {} /\ nextId = 0
  /\ enrolled \in SUBSET {Person[p] : p \in Markings}
  /\ stopping = FALSE
  /\ faults = 0

Fault == faults < MaxFaults /\ faults' = faults + 1

-----------------------------------------------------------------------------
(* The reader and receive_push.                                            *)

(* The reader posts its head; the caller is authorised, and the INSERT is  *)
(* admitted.  (A 401, like a 503, stores nothing and leaves the head.)     *)
Push ==
  /\ handler = "idle" /\ ~stopping
  /\ head <= Len(Bodies)
  /\ handler' = "waiting"
  /\ wq' = Append(wq, [op |-> "store", body |-> head, caller |-> "handler"])
  /\ UNCHANGED <<head, inbox, drainVars, events, files, nextId, enrolled,
                 stopping, faults>>

(* 200: only now does the reader drop the event.                           *)
Ack ==
  /\ handler = "stored"
  /\ handler' = "idle"
  /\ head' = head + 1
  /\ UNCHANGED <<wq, inbox, drainVars, events, files, nextId, enrolled,
                 stopping, faults>>

(* 503: the INSERT did not land.                                           *)
Unavailable ==
  /\ handler = "refused"
  /\ handler' = "idle"
  /\ UNCHANGED <<head, wq, inbox, drainVars, events, files, nextId, enrolled,
                 stopping, faults>>

(* The reader gives up on the connection, or the answer is lost.  The      *)
(* handler's future is dropped, its command is not.                        *)
Disconnect ==
  /\ handler # "idle"
  /\ Fault
  /\ handler' = "idle"
  /\ wq' = [i \in DOMAIN wq |-> IF wq[i].op = "store"
                                  THEN [wq[i] EXCEPT !.caller = "nobody"]
                                  ELSE wq[i]]
  /\ UNCHANGED <<head, inbox, drainVars, events, files, nextId, enrolled,
                 stopping>>

-----------------------------------------------------------------------------
(* The writer.                                                             *)

Executing(op) == wq # <<>> /\ Head(wq).op = op /\ wq' = Tail(wq)

(* Only the caller that still waits hears of the outcome.                  *)
AnswerSuccessOnly(cmd, answer) ==
  handler' = IF cmd.caller = "handler" /\ answer = "stored" THEN answer ELSE handler

AnswerRefused(cmd, answer) ==
  handler' = IF cmd.caller = "handler" THEN "refused" ELSE handler

Answer(cmd, answer) ==
  handler' = IF cmd.caller = "handler" THEN answer ELSE handler

StoreRow ==
  /\ Executing("store")
  /\ inbox' = Append(inbox, [body |-> Head(wq).body, status |-> "pending",
                             attempts |-> 0])
  /\ Answer(Head(wq), "stored")
  /\ UNCHANGED <<head, drainVars, events, files, nextId, enrolled, stopping,
                 faults>>

StoreFails ==
  /\ Executing("store")
  /\ Fault
  /\ Answer(Head(wq), "refused")
  /\ UNCHANGED <<head, inbox, drainVars, events, files, nextId, enrolled,
                 stopping>>

(* The unique index on (employee, device, direction, bucket).  In SQL a    *)
(* NULL employee is equal to nobody, itself included.                      *)
Duplicate(new) ==
  /\ new.who # Nobody
  /\ \E e \in events : e.who = new.who /\ e.bucket = new.bucket

(* INSERT OR IGNORE.  Only an inserted row keeps the photo: otherwise the  *)
(* guard is dropped with the closure and removes it.                       *)
InsertEvent ==
  /\ Executing("event")
  /\ LET e == Head(wq).event
     IN  IF Duplicate(e)
           THEN files' = files \ {e.id} /\ UNCHANGED events
           ELSE events' = events \cup {e} /\ UNCHANGED files
  /\ drain' = "part"
  /\ cursor' = cursor + 1
  /\ UNCHANGED <<readerVars, inbox, final, batch, row, transient, permanent, nextId,
                 enrolled, stopping, faults>>

(* The transaction is refused or rolled back: the guard removes the photo. *)
InsertFailsKeepingFile ==
  /\ Executing("event")
  /\ Fault
  /\ transient' = TRUE
  /\ drain' = "part"
  /\ cursor' = cursor + 1
  /\ UNCHANGED <<readerVars, inbox, final, batch, row, permanent, events, files, nextId,
                 enrolled, stopping>>

InsertFails ==
  /\ Executing("event")
  /\ Fault
  /\ files' = files \ {Head(wq).event.id}
  /\ transient' = TRUE
  /\ drain' = "part"
  /\ cursor' = cursor + 1
  /\ UNCHANGED <<readerVars, inbox, final, batch, row, permanent, events, nextId, enrolled,
                 stopping>>

MarkRow ==
  /\ Executing("mark")
  /\ inbox' = [inbox EXCEPT ![Head(wq).row].status = Head(wq).status,
                            ![Head(wq).row].attempts = Head(wq).attempts]
  /\ drain' = "row"
  /\ batch' = batch \ {row}
  /\ UNCHANGED <<readerVars, final, rowVars, events, files, nextId, enrolled, stopping,
                 faults>>

(* resolve logs the error and leaves the row as it was.                    *)
MarkFailsFatal ==
  /\ Executing("mark")
  /\ Fault
  /\ drain' = "stopped"
  /\ UNCHANGED <<readerVars, inbox, final, batch, rowVars, events, files, nextId,
                 enrolled, stopping>>

MarkFails ==
  /\ Executing("mark")
  /\ Fault
  /\ drain' = "row"
  /\ batch' = batch \ {row}
  /\ UNCHANGED <<readerVars, inbox, final, rowVars, events, files, nextId, enrolled,
                 stopping>>

-----------------------------------------------------------------------------
(* The drain worker.                                                       *)

(* The oldest BatchSize pending rows.                                      *)
PendingOrFailed == {r \in DOMAIN inbox : inbox[r].status # "done"}
Pending == {r \in DOMAIN inbox : inbox[r].status = "pending"}
SelectPending == {r \in Pending : Cardinality({q \in Pending : q < r}) < BatchSize}

(* A tick of the interval, or the last pass after the shutdown token: a    *)
(* pass that was under way when the token was cancelled is followed by it, *)
(* and select! may take a due tick first.                                  *)
StartPass ==
  /\ drain = "idle"
  /\ final' \in BOOLEAN
  /\ IF final' THEN stopping ELSE Pending # {}
  /\ batch' = SelectPending
  /\ drain' = "row"
  /\ UNCHANGED <<readerVars, wq, inbox, rowVars, events, files, nextId, enrolled,
                 stopping, faults>>

(* drain_once(..).await? : a failed read ends the worker, and nothing      *)
(* starts it again before the process is restarted.                        *)
SelectFails ==
  /\ drain = "idle"
  /\ Fault
  /\ drain' = "dead"
  /\ UNCHANGED <<readerVars, wq, inbox, final, batch, rowVars, events, files, nextId,
                 enrolled, stopping>>

NextRow ==
  /\ drain = "row"
  /\ \E r \in batch : (\A q \in batch : r <= q) /\ row' = r
  /\ drain' = "part"
  /\ cursor' = 1
  /\ transient' = FALSE
  /\ permanent' = FALSE
  /\ UNCHANGED <<readerVars, wq, inbox, final, batch, events, files, nextId, enrolled,
                 stopping, faults>>

EndPass ==
  /\ drain = "row"
  /\ batch = {}
  /\ drain' = IF final THEN "stopped" ELSE "idle"
  /\ UNCHANGED <<readerVars, wq, inbox, final, batch, rowVars, events, files, nextId,
                 enrolled, stopping, faults>>

RowParts == Bodies[inbox[row].body]
AtPart == drain = "part" /\ cursor <= Len(RowParts)

(* A part that needs no write: skipped, or recorded as a permanent error.  *)
SkipPart ==
  /\ AtPart
  /\ RowParts[cursor] \notin Markings
  /\ permanent' = (permanent \/ RowParts[cursor] \in Unparseable)
  /\ cursor' = cursor + 1
  /\ UNCHANGED <<readerVars, wq, inbox, drain, final, batch, row, transient, events, files,
                 nextId, enrolled, stopping, faults>>

(* The identity lookup or the write of the photo fails: the file guard     *)
(* leaves nothing behind.                                                  *)
PartFails ==
  /\ AtPart
  /\ RowParts[cursor] \in Markings
  /\ Fault
  /\ transient' = TRUE
  /\ cursor' = cursor + 1
  /\ UNCHANGED <<readerVars, wq, inbox, drain, final, batch, row, permanent, events, files,
                 nextId, enrolled, stopping>>

(* The marking is resolved to an employee, its photo is on disk and the    *)
(* transaction is admitted.  An undated marking gets the time of this try. *)
IngestPart ==
  /\ AtPart
  /\ LET p == RowParts[cursor]
     IN  /\ p \in Markings
         /\ \E b \in Buckets[p] :
              wq' = Append(wq, [op |-> "event", event |->
                      [id |-> nextId, part |-> p, row |-> row, bucket |-> b,
                       who |-> IF Person[p] \in enrolled THEN Person[p] ELSE Nobody]])
         /\ files' = IF p \in WithPhoto THEN files \cup {nextId} ELSE files
  /\ nextId' = nextId + 1
  /\ drain' = "persist"
  /\ UNCHANGED <<readerVars, inbox, final, batch, rowVars, events, enrolled, stopping,
                 faults>>

(* The verdict of process_row: transient before permanent.                 *)
VerdictPermanentFirst ==
  LET tries == inbox[row].attempts + 1
  IN  IF permanent THEN [status |-> "failed", attempts |-> inbox[row].attempts]
      ELSE IF transient
        THEN [status |-> IF tries >= MaxAttempts THEN "failed" ELSE "pending",
              attempts |-> tries]
      ELSE [status |-> "done", attempts |-> inbox[row].attempts]

VerdictNoTransient ==
  [status |-> IF permanent THEN "failed" ELSE "done",
   attempts |-> inbox[row].attempts]

VerdictUnbounded ==
  IF transient
    THEN [status |-> "pending", attempts |-> inbox[row].attempts + 1]
    ELSE [status |-> IF permanent THEN "failed" ELSE "done",
          attempts |-> inbox[row].attempts]

Verdict ==
  LET tries == inbox[row].attempts + 1
  IN  IF transient
        THEN [status |-> IF tries >= MaxAttempts THEN "failed" ELSE "pending",
              attempts |-> tries]
        ELSE [status |-> IF permanent THEN "failed" ELSE "done",
              attempts |-> inbox[row].attempts]

Resolve ==
  /\ drain = "part"
  /\ cursor > Len(RowParts)
  /\ drain' = "mark"
  /\ wq' = Append(wq, [op |-> "mark", row |-> row, status |-> Verdict.status,
                       attempts |-> Verdict.attempts])
  /\ UNCHANGED <<readerVars, inbox, final, batch, rowVars, events, files, nextId,
                 enrolled, stopping, faults>>

-----------------------------------------------------------------------------
(* The environment.                                                        *)

Enroll(person) ==
  /\ person \notin enrolled
  /\ enrolled' = enrolled \cup {person}
  /\ UNCHANGED <<readerVars, wq, inbox, drainVars, events, files, nextId,
                 stopping, faults>>

(* main stops the HTTP server before it cancels the token.                 *)
Shutdown ==
  /\ ~stopping
  /\ handler = "idle"
  /\ Fault
  /\ stopping' = TRUE
  /\ UNCHANGED <<readerVars, wq, inbox, drainVars, events, files, nextId,
                 enrolled>>

(* Memory is lost, tables and files stay.                                  *)
Boot ==
  /\ handler' = "idle"
  /\ wq' = <<>>
  /\ drain' = "idle"
  /\ final' = FALSE
  /\ batch' = {}
  /\ row' = 0 /\ cursor' = 1 /\ transient' = FALSE /\ permanent' = FALSE
  /\ stopping' = FALSE
  /\ UNCHANGED <<head, inbox, events, files, nextId, enrolled>>

Crash == Fault /\ Boot

(* The write queue has been drained before the process ends.               *)
Restart ==
  /\ stopping
  /\ drain \in {"stopped", "dead"}
  /\ wq = <<>>
  /\ Boot
  /\ UNCHANGED faults

HandlerStep == Push \/ Ack \/ Unavailable
WriterStep  == StoreRow \/ InsertEvent \/ MarkRow
DrainStep   == StartPass \/ NextRow \/ EndPass \/ SkipPart \/ IngestPart \/ Resolve
FaultStep   == \/ Disconnect \/ StoreFails \/ InsertFails \/ MarkFails
               \/ SelectFails \/ PartFails \/ Shutdown \/ Crash

Next ==
  \/ HandlerStep \/ WriterStep \/ DrainStep \/ FaultStep \/ Restart
  \/ \E person \in {Person[p] : p \in Markings} : Enroll(person)

Spec == Init /\ [][Next]_vars

(* The reader keeps trying, the writer and the drain worker are scheduled, *)
(* a stopped process is started again.                                     *)
FairSpec ==
  /\ Spec
  /\ WF_vars(HandlerStep) /\ WF_vars(WriterStep) /\ WF_vars(DrainStep)
  /\ WF_vars(Restart)

-----------------------------------------------------------------------------
(* Properties.                                                             *)

(* A row of attendance_events that stands for the marking p: p itself, or  *)
(* the same person in the same bucket.                                     *)
Covers(e, p) == e.part = p \/ (e.who = Person[p] /\ e.bucket \in Buckets[p])

(* "200 means received and safe": every body the reader has dropped is in  *)
(* the inbox, and once it is done every marking in it has a row.  A row is *)
(* given up only for a body that can never be ingested whole, or after     *)
(* MaxAttempts tries: erring toward retry.                                 *)
Ingested(r) ==
  \A p \in Range(Bodies[inbox[r].body]) \cap Markings : \E e \in events : Covers(e, p)

AckedIsSafe ==
  /\ TypeOK
  /\ \A b \in 1..(head - 1) : \E r \in DOMAIN inbox : inbox[r].body = b
  /\ \A r \in DOMAIN inbox :
       /\ inbox[r].status = "done" => Ingested(r)
       /\ inbox[r].status = "failed" =>
            \/ inbox[r].attempts = MaxAttempts
            \/ Range(Bodies[inbox[r].body]) \cap Unparseable # {} /\ Ingested(r)

(* Photos of committed rows, of the ingestion under way, and of neither.   *)
Kept == {e.id : e \in {f \in events : f.part \in WithPhoto}}
Underway == {wq[i].event.id : i \in {j \in DOMAIN wq : wq[j].op = "event"}}
Orphans == files \ (Kept \cup Underway)

(* However the worker's tries and the reader's deliveries overlap, a       *)
(* marking of a stored push is counted once, and once more at most for     *)
(* each fault that makes the row be tried again (a refused write, a lost   *)
(* mark, a crash); likewise a push is stored once, and once more for each  *)
(* answer that the reader missed.  It is about every marking: those of     *)
(* unknown faces and those without a date too, which no index holds to one *)
(* row.                                                                    *)
Tries(r, p) == {e \in events : e.row = r /\ e.part = p}
Stored(b) == {r \in DOMAIN inbox : inbox[r].body = b}
CountedOncePerTry ==
  /\ \A r \in DOMAIN inbox, p \in Markings : Cardinality(Tries(r, p)) <= 1 + faults
  /\ \A b \in DOMAIN Bodies : Cardinality(Stored(b)) <= 1 + faults

(* A photo the database refers to is always on disk, and only a crash      *)
(* leaves a photo nobody refers to (AtomicFileGuard).                      *)
PhotosFollowRows ==
  [][Kept' \subseteq files' /\ (~Crash => Orphans' \subseteq Orphans)]_vars

Settled == \A r \in DOMAIN inbox : inbox[r].status # "pending"

(* Once the faults are over the reader gets rid of every body, and a       *)
(* worker that has not died of a failed read resolves every stored row,    *)
(* whatever writes were refused and whenever the process was restarted.    *)
WorkerDrains ==
  /\ <>[](head = Len(Bodies) + 1)
  /\ []<>(Settled \/ drain = "dead")
=============================================================================
