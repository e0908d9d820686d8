----------------------------- MODULE Supervisor -----------------------------
(***************************************************************************)
(* The registration of a reader and the task that keeps it connected: the  *)
(* handlers of devices/handlers.rs over the row of devices/service.rs, the *)
(* reconcile loop of supervisor/mod.rs, the task of supervisor/task.rs     *)
(* with the stream of isapi/stream.rs, the provisioning of                 *)
(* isapi/client.rs, the watchdog, and the commands sent to the reader.     *)
(*                                                                         *)
(* One device.  Its address and credentials are one number, cfg; a marking *)
(* is a number, in the order the reader took them.  Statements go through  *)
(* the write queue in order, so a statement whose caller was cancelled     *)
(* still commits before the statements that follow: each is one step.      *)
(***************************************************************************)
EXTENDS Integers, Sequences, FiniteSets

CONSTANTS
  Clients,     \* administrators' requests that may be open at the same time
  Modes,       \* the ingest modes of the run: "stream", "push"
  Directions,  \* the directions a device may be given
  Budgets      \* bounds: each behaviour has one budget of requests, markings,
               \* commands and faults

ASSUME SupervisorAssumption ==
  /\ Modes \subseteq {"stream", "push"} /\ "in" \in Directions
  /\ \A b \in Budgets :
       {b.requests, b.markings, b.commands, b.faults} \subseteq Nat

Configs == {1, 2}
Slots == {1, 2}   \* room for two tasks, so that a second one would be seen
NoAlert == 0

VARIABLES
  budget,   \* the bounds of this behaviour
  mode,     \* devices.ingest_mode
  row,      \* the device's row; conn is connection_state, and "stale" is
            \* online with a last_seen_at older than 90 s
  reqs,     \* requests of the administrators
  asked,    \* requests so far
  chan,     \* the lifecycle channel
  sup,      \* the supervisor: where it is, and the event it handles
  handle,   \* the handle map: the slot of the device's task, 0 if none
  tasks,    \* the tasks
  shutdown, \* the shutdown token
  reader,   \* the reader's host list: is slot 1 ours
  sent,     \* markings taken by the reader
  stored,   \* attendance events persisted from the stream
  cmds,     \* commands: their requests, and what the reader did
  audit,    \* command_audit_log
  lost,     \* a committed change was not reported to the supervisor
  faults    \* faults so far

db == <<budget, mode, row>>
http == <<reqs, asked>>
super == <<chan, sup, handle, shutdown>>
device == <<reader, sent>>
command == <<cmds, audit>>
vars == <<db, http, super, tasks, device, stored, command, lost, faults>>

NoTask == [pc |-> "none", cfg |-> 1, dir |-> "in", cancelled |-> FALSE,
           base |-> 0, got |-> 0, pending |-> NoAlert]
NoRequest == [pc |-> "idle", op |-> "none", value |-> 0, version |-> 0,
              cfg |-> 1, status |-> "absent"]

Commands == 1..budget.commands

(* A device registered earlier, or none.                                    *)
Init ==
  /\ budget \in Budgets
  /\ mode \in Modes
  /\ row \in {[status |-> s, deleted |-> FALSE, cfg |-> 1, dir |-> "in",
               conn |-> "offline", version |-> 1] : s \in {"absent", "active"}}
  /\ reqs = [c \in Clients |-> NoRequest] /\ asked = 0
  /\ chan = <<>> /\ sup = [pc |-> "boot", ev |-> "none"]
  /\ handle = 0 /\ tasks = [s \in Slots |-> NoTask]
  /\ shutdown = FALSE
  /\ reader = "other" /\ sent = 0
  /\ stored = <<>>
  /\ cmds = [i \in Commands |->
       [pc |-> "new", ran |-> FALSE, outcome |-> "none", told |-> "none"]]
  /\ audit = [i \in Commands |-> "none"]
  /\ lost = FALSE /\ faults = 0

Serving == sup.pc \notin {"boot", "done"} /\ ~shutdown
Fault == faults < budget.faults /\ faults' = faults + 1

-----------------------------------------------------------------------------
(* THE HANDLERS                                                             *)

(* A request is read.  A PATCH names one field, and the version its client  *)
(* saw; load_snapshot reads the row before the update.                      *)
Ask(c, op, value) ==
  /\ Serving /\ reqs[c].pc = "idle" /\ asked < budget.requests
  /\ asked' = asked + 1
  /\ reqs' = [reqs EXCEPT ![c] =
       [pc |-> "asked", op |-> op, value |-> value, version |-> row.version,
        cfg |-> row.cfg, status |-> row.status]]
  /\ UNCHANGED <<db, super, tasks, device, stored, command, lost, faults>>

CreateRequest(c) == row.status = "absent" /\ \E k \in Configs : Ask(c, "create", k)
UpdateRequest(c) ==
  /\ row.status # "absent"
  /\ \/ \E k \in Configs : Ask(c, "cfg", k)
     \/ \E d \in Directions : Ask(c, "direction", d)
     \/ \E s \in {"active", "inactive"} : Ask(c, "status", s)
DeactivateRequest(c) == row.status # "absent" /\ Ask(c, "delete", 0)

Reply(c, r) ==
  /\ row' = r
  /\ reqs' = [reqs EXCEPT ![c].pc = "committed"]
  /\ UNCHANGED <<budget, mode, asked, super, tasks, device, stored, command,
                 lost, faults>>
Refuse(c) ==
  /\ reqs' = [reqs EXCEPT ![c] = NoRequest]
  /\ UNCHANGED <<db, asked, super, tasks, device, stored, command, lost, faults>>

(* create_queued: the id is new, so of two creations each has its own row;  *)
(* the model keeps the first, and the unique address refuses the second.    *)
create_queued(c) ==
  LET r == reqs[c] IN
  /\ r.pc = "asked" /\ r.op = "create"
  /\ \/ row.status = "absent"
        /\ Reply(c, [row EXCEPT !.status = "active", !.cfg = r.value])
     \/ row.status # "absent" /\ Refuse(c)

(* Mutant: the UPDATE names the id only.                                    *)
VersionIgnored(r) == TRUE
VersionMatches(r) == row.version = r.version

(* update_queued: one UPDATE guarded by the version; deleted_at is kept.    *)
update_queued(c) ==
  LET r == reqs[c]
      patched == CASE r.op = "cfg"       -> [row EXCEPT !.cfg = r.value]
                   [] r.op = "direction" -> [row EXCEPT !.dir = r.value]
                   [] r.op = "status"    -> [row EXCEPT !.status = r.value]
  IN  /\ r.pc = "asked" /\ r.op \in {"cfg", "direction", "status"}
      /\ \/ VersionMatches(r)
            /\ Reply(c, [patched EXCEPT !.version = row.version + 1])
         \/ ~VersionMatches(r) /\ Refuse(c)

deactivate_queued(c) ==
  LET r == reqs[c] IN
  /\ r.pc = "asked" /\ r.op = "delete"
  /\ \/ row.status = "active"
        /\ Reply(c, [row EXCEPT !.status = "inactive", !.deleted = TRUE,
                                !.version = row.version + 1])
     \/ row.status # "active" /\ Refuse(c)

(* emit_lifecycle, after the commit.  An update reads the row again and     *)
(* reports a change of what the connection depends on.                      *)
LifecycleEvent(r) ==
  CASE r.op = "create" -> <<"Start">>
    [] r.op = "delete" -> <<"Stop">>
    [] r.op \in {"cfg", "status"} ->
         IF r.cfg # row.cfg \/ r.status # row.status THEN <<"Restart">> ELSE <<>>
    [] OTHER -> <<>>
emit_lifecycle(c) ==
  /\ reqs[c].pc = "committed"
  /\ chan' = chan \o LifecycleEvent(reqs[c])
  /\ reqs' = [reqs EXCEPT ![c] = NoRequest]
  /\ UNCHANGED <<db, asked, sup, handle, shutdown, tasks, device, stored,
                 command, lost, faults>>

(* The client goes away while the handler awaits the queue: the handler is  *)
(* dropped, the statement is not.                                           *)
DropRequest(c) ==
  /\ reqs[c].pc = "committed" /\ Fault
  /\ reqs' = [reqs EXCEPT ![c] = NoRequest]
  /\ lost' = TRUE
  /\ UNCHANGED <<db, asked, super, tasks, device, stored, command>>

-----------------------------------------------------------------------------
(* THE SUPERVISOR                                                           *)

Running(t) == t.pc # "none"
FirstStep == IF mode = "push" THEN "configure" ELSE "connect"

(* spawn_device: nothing if the map has a task; the task keeps the row's    *)
(* address and direction as they are now, under a child of the shutdown     *)
(* token.                                                                   *)
spawn_device ==
  IF handle # 0 THEN UNCHANGED <<handle, tasks>>
  ELSE LET s == CHOOSE i \in Slots : ~Running(tasks[i]) IN
    /\ handle' = s
    /\ tasks' = [tasks EXCEPT ![s] =
         [NoTask EXCEPT !.pc = FirstStep, !.cfg = row.cfg, !.dir = row.dir,
                        !.cancelled = shutdown]]

list_active == row.status = "active" /\ ~row.deleted
get_decrypted == row.status = "active"

(* A failure to list the devices is logged and nothing is spawned.          *)
Bootstrap ==
  /\ sup.pc = "boot"
  /\ sup' = [sup EXCEPT !.pc = "loop"]
  /\ \/ /\ IF list_active THEN spawn_device ELSE UNCHANGED <<handle, tasks>>
        /\ lost' = FALSE /\ UNCHANGED faults
     \/ Fault /\ lost' = TRUE /\ UNCHANGED <<handle, tasks>>
  /\ UNCHANGED <<db, http, chan, shutdown, device, stored, command>>

(* recv, then stop_device for a Stop or a Restart: the entry leaves the map *)
(* and the token is cancelled before the task is joined.                    *)
stop_device ==
  IF handle = 0 THEN UNCHANGED <<handle, tasks>>
  ELSE /\ handle' = 0
       /\ tasks' = [tasks EXCEPT ![handle].cancelled = TRUE]
Receive ==
  /\ sup.pc = "loop" /\ ~shutdown /\ chan # <<>>
  /\ chan' = Tail(chan)
  /\ sup' = [pc |-> "handle", ev |-> Head(chan)]
  /\ IF Head(chan) = "Start" THEN UNCHANGED <<handle, tasks>> ELSE stop_device
  /\ UNCHANGED <<db, http, shutdown, device, stored, command, lost, faults>>

(* Mutant: the task is cancelled and not joined.                            *)
NotJoined == TRUE
Joined == \A s \in Slots : tasks[s].cancelled => ~Running(tasks[s])

(* The rest of handle_event, once the old task is joined.                   *)
handle_event ==
  /\ sup.pc = "handle" /\ Joined
  /\ sup' = [pc |-> "loop", ev |-> "none"]
  /\ \/ /\ IF sup.ev # "Stop" /\ get_decrypted THEN spawn_device
                                               ELSE UNCHANGED <<handle, tasks>>
        /\ UNCHANGED <<lost, faults>>
     \/ /\ sup.ev # "Stop" /\ get_decrypted /\ Fault
        /\ lost' = TRUE /\ UNCHANGED <<handle, tasks>>
  /\ UNCHANGED <<db, http, chan, shutdown, device, stored, command>>

(* Children of the shutdown token are cancelled with it.                    *)
Shutdown ==
  /\ sup.pc # "done" /\ ~shutdown
  /\ shutdown' = TRUE
  /\ tasks' = [s \in Slots |->
       [tasks[s] EXCEPT !.cancelled = @ \/ Running(tasks[s])]]
  /\ UNCHANGED <<db, http, chan, sup, handle, device, stored, command, lost,
                 faults>>

(* The drain: every child is cancelled, and joined.                         *)
Drain ==
  /\ sup.pc = "loop" /\ shutdown
  /\ \A s \in Slots : ~Running(tasks[s])
  /\ sup' = [pc |-> "done", ev |-> "none"] /\ handle' = 0
  /\ UNCHANGED <<db, http, chan, shutdown, tasks, device, stored, command,
                 lost, faults>>

(* The process starts again: what it kept in memory is gone.                *)
Over(k) == k.pc \in {"new", "answered", "cut", "lost"}
Reset ==
  /\ sup' = [pc |-> "boot", ev |-> "none"] /\ shutdown' = FALSE
  /\ chan' = <<>> /\ handle' = 0 /\ tasks' = [s \in Slots |-> NoTask]
  /\ reqs' = [c \in Clients |-> NoRequest]
  /\ cmds' = [i \in Commands |->
       IF Over(cmds[i]) THEN cmds[i] ELSE [cmds[i] EXCEPT !.pc = "lost"]]
  /\ UNCHANGED <<db, asked, device, stored, audit, lost>>
(* main returns after the server has answered the requests it had begun.    *)
Restart ==
  /\ sup.pc = "done" /\ \A c \in Clients : reqs[c].pc = "idle"
  /\ \A i \in Commands : Over(cmds[i])
  /\ Reset /\ UNCHANGED faults
Crash == Fault /\ Reset

-----------------------------------------------------------------------------
(* THE TASK OF A STREAMING READER                                           *)

Goes(s, pc) == tasks' = [tasks EXCEPT ![s].pc = pc]
At(s, pc) == tasks[s].pc = pc
NotCancelled(s) == ~tasks[s].cancelled
Untouched == UNCHANGED <<budget, mode, http, super, command, lost>>
Elsewhere == Untouched /\ UNCHANGED faults

(* The request and its checks; nothing is written before the answer is      *)
(* known to be a stream.                                                    *)
Connect(s) ==
  /\ At(s, "connect") /\ NotCancelled(s)
  /\ tasks' = [tasks EXCEPT ![s].pc = "opened", ![s].base = sent, ![s].got = sent]
  /\ UNCHANGED <<row, device, stored>> /\ Elsewhere

update_connection_state(v) == row' = [row EXCEPT !.conn = v]
touch_last_seen == row' = [row EXCEPT !.conn = IF @ = "stale" THEN "online" ELSE @]

(* Online, whenever it was seen last, and then seen now: the watchdog may   *)
(* come between the two writes.                                             *)
Opened(s) ==
  /\ At(s, "opened") /\ NotCancelled(s)
  /\ \E v \in {"online", "stale"} : update_connection_state(v)
  /\ Goes(s, "seen")
  /\ UNCHANGED <<device, stored>> /\ Elsewhere
Seen(s) ==
  /\ At(s, "seen") /\ NotCancelled(s)
  /\ touch_last_seen
  /\ Goes(s, "provision")
  /\ UNCHANGED <<device, stored>> /\ Elsewhere

(* provision_device: each setting is tried, none is fatal.  A stream-mode   *)
(* reader's webhook is not touched.                                         *)
Provision(s) ==
  /\ At(s, "provision") /\ NotCancelled(s)
  /\ Goes(s, "stream")
  /\ UNCHANGED <<row, device, stored>> /\ Elsewhere

(* Mutant: a marking without a photo is skipped.                            *)
IngestWithPhoto(t, photo) ==
  IF t.pending = NoAlert \/ photo = NoAlert THEN stored
  ELSE Append(stored, [alert |-> t.pending, photo |-> photo, dir |-> t.dir])
ingest_pair(t, photo) ==
  IF t.pending = NoAlert THEN stored
  ELSE Append(stored, [alert |-> t.pending, photo |-> photo, dir |-> t.dir])

(* One part of the stream: the next marking, which waits for its photo.     *)
ReadAlert(s) ==
  LET t == tasks[s] IN
  /\ t.pc = "stream" /\ NotCancelled(s) /\ t.got < sent
  /\ touch_last_seen
  /\ stored' = ingest_pair(t, NoAlert)
  /\ tasks' = [tasks EXCEPT ![s].got = t.got + 1, ![s].pending = t.got + 1]
  /\ UNCHANGED device /\ Elsewhere

(* The photo of the last marking; one without a marking before it on this   *)
(* connection is dropped.                                                   *)
ReadPhoto(s) ==
  LET t == tasks[s] IN
  /\ t.pc = "stream" /\ NotCancelled(s) /\ t.got > 0
  /\ touch_last_seen
  /\ stored' = ingest_pair(t, t.got)
  /\ tasks' = [tasks EXCEPT ![s].pending = NoAlert]
  /\ UNCHANGED device /\ Elsewhere

(* Mutant: the marking that waits outlives its connection.                  *)
DisconnectedKeeping(t, pc) == [t EXCEPT !.pc = pc, !.base = 0, !.got = 0]
Disconnected(t, pc) == [DisconnectedKeeping(t, pc) EXCEPT !.pending = NoAlert]

(* The end of the stream, clean or by an error: of the request, of the      *)
(* parser, of a write.  The marking that waits is kept only by a clean end. *)
EndsWell(s) ==
  /\ At(s, "stream") /\ NotCancelled(s)
  /\ stored' = ingest_pair(tasks[s], NoAlert)
  /\ tasks' = [tasks EXCEPT ![s] = Disconnected(@, "backoff")]
  /\ UNCHANGED <<row, device>> /\ Elsewhere
Fails(s) ==
  /\ tasks[s].pc \in {"connect", "opened", "seen", "stream"} /\ NotCancelled(s)
  /\ tasks' = [tasks EXCEPT ![s] = Disconnected(@, "failed")]
  /\ UNCHANGED <<row, device, stored>> /\ Elsewhere

(* The offline write, whose failure is ignored.                             *)
WriteOffline ==
  \/ update_connection_state("offline") /\ UNCHANGED faults
  \/ Fault /\ UNCHANGED row

(* After an error it is awaited outside the select: it is made whether the  *)
(* task is cancelled or not.                                                *)
Failed(s) ==
  /\ At(s, "failed")
  /\ WriteOffline
  /\ Goes(s, "backoff")
  /\ UNCHANGED <<device, stored>> /\ Untouched

Backoff(s) ==
  /\ At(s, "backoff") /\ NotCancelled(s)
  /\ Goes(s, "connect")
  /\ UNCHANGED <<row, device, stored>> /\ Elsewhere

(* Mutant: the task just ends.                                              *)
EndQuietly(s) ==
  tasks' = [tasks EXCEPT ![s] = NoTask] /\ UNCHANGED <<row, faults>>
EndOffline(s) == tasks' = [tasks EXCEPT ![s] = NoTask] /\ WriteOffline

(* Mutant: the sleep does not watch the token.                              *)
WatchingNotAsleep == {"connect", "opened", "seen", "provision", "stream"}
WatchingTheToken ==
  {"connect", "opened", "seen", "provision", "stream", "backoff"}

(* Cancellation drops the stream wherever it awaits, with its marking.      *)
Cancelled(s) ==
  /\ tasks[s].pc \in WatchingTheToken /\ tasks[s].cancelled
  /\ EndOffline(s)
  /\ UNCHANGED <<device, stored>> /\ Untouched

-----------------------------------------------------------------------------
(* THE TASK OF A PUSHING READER                                             *)

(* push_provisioning_loop: the settings, then the spare slot of the         *)
(* reader's host list is cleared, then ours is written; each may fail.      *)
(* None of it looks at the token, which is read when the loop sleeps.       *)
(* Clearing a slot makes the reader compact its list: ours is emptied too.  *)
clear_event_http_host == reader' = "none"
(* Mutant: the spare slot is cleared after ours is written.                 *)
SetThenClear == reader' = "none"
set_event_http_host == reader' = "ours"

PushClear(s) ==
  /\ At(s, "configure")
  /\ clear_event_http_host \/ UNCHANGED reader
  /\ Goes(s, "write")
  /\ UNCHANGED <<row, sent, stored>> /\ Elsewhere

PushWrite(s) ==
  /\ At(s, "write")
  /\ set_event_http_host
  /\ Goes(s, "asleep")
  /\ UNCHANGED <<row, sent, stored>> /\ Elsewhere
PushWriteFails(s) ==
  /\ At(s, "write") /\ Fault
  /\ Goes(s, "asleep")
  /\ UNCHANGED <<db, http, super, device, stored, command, lost>>

PushAsleep(s) ==
  /\ At(s, "asleep")
  /\ tasks' = [tasks EXCEPT ![s] =
       IF @.cancelled THEN NoTask ELSE [@ EXCEPT !.pc = FirstStep]]
  /\ UNCHANGED <<row, device, stored>> /\ Elsewhere

(* A delivery to the webhook, which is accepted for an active device.  What *)
(* a pushing reader is shown as serves no property: its two writes are one. *)
PushArrives ==
  /\ mode = "push" /\ Serving /\ reader = "ours" /\ row.status = "active"
  /\ update_connection_state("online")
  /\ UNCHANGED <<tasks, device, stored>> /\ Elsewhere

-----------------------------------------------------------------------------
(* THE WATCHDOG, THE READER AND ITS COMMANDS                                *)

run_once ==
  /\ Serving /\ row.status = "active" /\ row.conn = "stale"
  /\ update_connection_state("offline")
  /\ UNCHANGED <<tasks, device, stored>> /\ Elsewhere

(* 90 s without a byte.                                                     *)
Silence ==
  /\ row.conn = "online" /\ row' = [row EXCEPT !.conn = "stale"]
  /\ UNCHANGED <<tasks, device, stored>> /\ Elsewhere

(* Someone marks at the reader; what it pushes is PushInbox's.              *)
Mark ==
  /\ mode = "stream" /\ row.status # "absent" /\ sent < budget.markings
  /\ sent' = sent + 1
  /\ UNCHANGED <<row, tasks, reader, stored>> /\ Elsewhere

(* The reader is replaced or reset to its factory settings.                 *)
FactoryReset ==
  /\ mode = "push" /\ Fault
  /\ reader' = "other"
  /\ UNCHANGED <<db, http, super, tasks, sent, stored, command, lost>>

(* dispatch_command: the device is loaded if active, and called for 10 s.   *)
Outside == UNCHANGED <<db, http, super, tasks, device, stored, lost, faults>>
Dispatch(i) ==
  /\ Serving /\ cmds[i].pc = "new" /\ get_decrypted
  /\ cmds' = [cmds EXCEPT ![i].pc = "calling"]
  /\ UNCHANGED audit /\ Outside
(* The reader may act on a command even after the caller gave up, and when  *)
(* its answer is lost.                                                      *)
Execute(i) ==
  /\ cmds[i].pc # "new" /\ ~cmds[i].ran /\ cmds[i].outcome # "ok"
  /\ cmds' = [cmds EXCEPT ![i].ran = TRUE]
  /\ UNCHANGED audit /\ Outside
CallEnds(i) ==
  /\ cmds[i].pc = "calling"
  /\ \E o \in {"ok", "error", "timeout"} :
       /\ o = "ok" => cmds[i].ran
       /\ cmds' = [cmds EXCEPT ![i].pc = "called", ![i].outcome = o]
  /\ UNCHANGED audit /\ Outside

(* The client goes away: the handler is dropped where it awaits the reader  *)
(* or the queue.  A row the queue has accepted is written all the same.     *)
CutCommand(i) ==
  /\ cmds[i].pc \in {"calling", "called", "recorded"} /\ Fault
  /\ cmds' = [cmds EXCEPT ![i].pc = "cut"]
  /\ UNCHANGED <<db, http, super, tasks, device, stored, audit, lost>>

(* Mutant: only an answer of the reader is recorded.                        *)
AnswersOnly(o) == IF o = "timeout" THEN "none" ELSE o
Recorded(o) == o
(* The outcome is recorded, whatever it is; a write that is refused answers *)
(* for the command.                                                         *)
write_command_audit_queued(i) ==
  /\ cmds[i].pc = "called"
  /\ \/ /\ audit' = [audit EXCEPT ![i] = Recorded(cmds[i].outcome)]
        /\ cmds' = [cmds EXCEPT ![i].pc = "recorded"]
        /\ UNCHANGED faults
     \/ /\ Fault /\ UNCHANGED audit
        /\ cmds' = [cmds EXCEPT ![i].pc = "answered", ![i].told = "internal"]
  /\ UNCHANGED <<db, http, super, tasks, device, stored, lost>>

(* Mutant: the client is answered as soon as the reader has.                *)
AnswersFirst == {"called", "recorded"}
AnswersFrom == {"recorded"}
AnswerCommand(i) ==
  /\ cmds[i].pc \in AnswersFrom
  /\ cmds' = [cmds EXCEPT ![i].pc = "answered", ![i].told = cmds[i].outcome]
  /\ UNCHANGED audit /\ Outside

-----------------------------------------------------------------------------
Handlers(c) ==
  \/ CreateRequest(c) \/ UpdateRequest(c) \/ DeactivateRequest(c)
  \/ create_queued(c) \/ update_queued(c) \/ deactivate_queued(c)
  \/ emit_lifecycle(c) \/ DropRequest(c)

StreamTask(s) ==
  \/ Connect(s) \/ Opened(s) \/ Seen(s) \/ Provision(s)
  \/ ReadAlert(s) \/ ReadPhoto(s) \/ EndsWell(s) \/ Fails(s) \/ Failed(s) \/ Backoff(s) \/ Cancelled(s)
PushTask(s) ==
  PushClear(s) \/ PushWrite(s) \/ PushWriteFails(s) \/ PushAsleep(s)

Loop == Bootstrap \/ Receive \/ handle_event \/ Drain

CommandSteps(i) ==
  Dispatch(i) \/ Execute(i) \/ CallEnds(i) \/ CutCommand(i)
  \/ write_command_audit_queued(i) \/ AnswerCommand(i)

Next ==
  \/ \E c \in Clients : Handlers(c)
  \/ Loop \/ Shutdown \/ Restart \/ Crash
  \/ \E s \in Slots : StreamTask(s) \/ PushTask(s)
  \/ PushArrives \/ run_once \/ Silence \/ Mark \/ FactoryReset
  \/ \E i \in Commands : CommandSteps(i)

Spec == Init /\ [][Next]_vars

(* The runtime schedules the supervisor and its tasks, and a call to a      *)
(* pushing reader ends.  Nothing is assumed of a stream that is not         *)
(* cancelled: it may stay open for ever.                                    *)
Fairness ==
  /\ WF_vars(Loop)
  /\ \A s \in Slots :
       WF_vars(Failed(s)) /\ WF_vars(Cancelled(s)) /\ WF_vars(PushTask(s))

FairSpec == Spec /\ Fairness

-----------------------------------------------------------------------------
TaskPcs ==
  {"none", "connect", "opened", "seen", "provision", "stream", "failed", "backoff",
   "configure", "write", "asleep"}

TypeOK ==
  /\ mode \in Modes
  /\ row \in [status: {"absent", "active", "inactive"}, deleted: BOOLEAN,
              cfg: Configs, dir: Directions, conn: {"online", "stale", "offline"},
              version: 1..(budget.requests + 1)]
  /\ asked \in 0..budget.requests
  /\ \A c \in Clients : reqs[c].pc \in {"idle", "asked", "committed"}
  /\ chan \in Seq({"Start", "Stop", "Restart"}) /\ handle \in Slots \cup {0}
  /\ sup.pc \in {"boot", "loop", "handle", "done"}
  /\ \A s \in Slots :
       /\ tasks[s].pc \in TaskPcs /\ tasks[s].cancelled \in BOOLEAN
       /\ tasks[s].got \in 0..sent /\ tasks[s].pending \in 0..sent
  /\ sent \in 0..budget.markings /\ shutdown \in BOOLEAN /\ lost \in BOOLEAN
  /\ faults \in 0..budget.faults

(* Nothing is on its way to the supervisor.                                 *)
Quiet ==
  /\ sup.pc = "loop" /\ chan = <<>> /\ ~lost /\ ~shutdown
  /\ \A c \in Clients : reqs[c].pc # "committed"

(* At most one task of a device runs, also while a Restart replaces it.     *)
(* Once the events are handled, a deactivated device has no task and a      *)
(* running task has the row's address and credentials, in whatever order    *)
(* two handlers committed and reported: the snapshot that decides on a      *)
(* Restart is never stale, because the version guards the update.  A task   *)
(* that ends leaves its device offline: without a fault, a streaming reader *)
(* that no task serves is shown offline (device_task).                      *)
Reconciled ==
  /\ TypeOK
  /\ Cardinality({s \in Slots : Running(tasks[s])}) <= 1
  /\ Quiet => /\ row.status # "active" => \A s \in Slots : ~Running(tasks[s])
              /\ handle # 0 => tasks[handle].cfg = row.cfg
  /\ mode = "stream" /\ faults = 0 /\ (\A s \in Slots : ~Running(tasks[s]))
       => row.conn = "offline"

(* A marking is stored once, and with its own photo or none: the one that   *)
(* waits for its photo belongs to one connection.  What a connection has    *)
(* read is stored, but for that last one (connect_and_stream).              *)
StoredOnceWithOwnPhoto ==
  /\ \A i, j \in DOMAIN stored : stored[i].alert = stored[j].alert => i = j
  /\ \A i \in DOMAIN stored : stored[i].photo \in {NoAlert, stored[i].alert}
  /\ \A s \in Slots : tasks[s].pc = "stream" =>
       \A a \in (tasks[s].base + 1)..tasks[s].got :
         \/ \E i \in DOMAIN stored : stored[i].alert = a
         \/ a = tasks[s].got /\ tasks[s].pending = a

(* Whoever is told how a command ended can find that in the audit log, and  *)
(* a command the log calls executed was.  One that the reader carried out,  *)
(* even after the 10 s timeout, leaves the log without a trace only by a    *)
(* fault while its handler was at work (a crash, a refused write, a client  *)
(* that went away), and then nobody was told an outcome (dispatch_command). *)
CommandIsAudited ==
  \A i \in Commands : LET k == cmds[i] IN
    /\ k.told \in {"ok", "error", "timeout"} => audit[i] = k.told
    /\ audit[i] = "ok" => k.ran
    /\ k.ran /\ k.pc \in {"answered", "cut", "lost"} /\ audit[i] = "none"
         => faults > 0 /\ k.told \in {"none", "internal"}

(* What dispatch_command's comment promises: a client that goes away does   *)
(* not cost the trace of a command that the reader carried out.             *)
DisconnectKeepsAudit ==
  \A i \in Commands :
    cmds[i].ran /\ cmds[i].pc = "cut" => audit[i] # "none"

(* A shutdown ends, whatever the tasks were doing: each is cancelled and    *)
(* joined (Supervisor::run).                                                *)
ShutdownEnds == shutdown ~> (sup.pc = "done" \/ ~shutdown)

Served(s) == Running(tasks[s]) /\ ~tasks[s].cancelled

(* A pushing reader that lost its webhook is pointed at the service again   *)
(* (push_provisioning_loop, provision).                                     *)
PointedAgain ==
  mode = "push" /\ reader # "ours" /\ (\E s \in Slots : Served(s))
    ~> (reader = "ours" \/ \A s \in Slots : ~Served(s))
=============================================================================
