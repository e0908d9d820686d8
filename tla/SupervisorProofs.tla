-------------------------- MODULE SupervisorProofs --------------------------
(***************************************************************************)
(* Proofs about the supervision of a reader, for any clients, modes,       *)
(* directions, requests, markings, commands and faults.                    *)
(***************************************************************************)
EXTENDS Supervisor, FiniteSetTheorems, TLAPS

-----------------------------------------------------------------------------
(* The inductive invariant.                                                 *)

Statuses == {"absent", "active", "inactive"}
Events == {"Start", "Stop", "Restart"}
Outcomes == {"none", "ok", "error", "timeout"}
Pcs == {"idle", "asked", "committed"}
Requests ==
  [pc: Pcs, op: {"none", "create", "cfg", "delete"}, value: Configs \cup {0},
   version: Nat, cfg: Configs, status: Statuses]
    \cup [pc: Pcs, op: {"direction"}, value: Directions,
          version: Nat, cfg: Configs, status: Statuses]
    \cup [pc: Pcs, op: {"status"}, value: {"active", "inactive"},
          version: Nat, cfg: Configs, status: Statuses]
Tasks ==
  [pc: TaskPcs, cfg: Configs, dir: Directions, cancelled: BOOLEAN, base: Nat,
   got: Nat, pending: Nat]
Calls ==
  [pc: {"new", "calling", "called", "recorded", "answered", "cut", "lost"},
   ran: BOOLEAN, outcome: Outcomes, told: Outcomes \cup {"internal"}]
Stored == [alert: Nat, photo: Nat, dir: Directions]

Types ==
  /\ TypeOK /\ budget \in Budgets
  /\ reqs \in [Clients -> Requests] /\ tasks \in [Slots -> Tasks]
  /\ sup \in [pc: {"boot", "loop", "handle", "done"}, ev: Events \cup {"none"}]
  /\ stored \in Seq(Stored)
  /\ cmds \in [Commands -> Calls] /\ audit \in [Commands -> Outcomes]

(* Each commit has a request of its own, so versions stay within the bound. *)
Asked == {c \in Clients : reqs[c].pc = "asked"}
Versions == IsFiniteSet(Asked) /\ row.version + Cardinality(Asked) <= asked + 1

(* What a handler has read: a snapshot with the row's version is the row.   *)
Snapshot(r) ==
  /\ r.op \in {"create", "cfg"} => r.value \in Configs
  /\ r.op # "create" =>
       /\ row.status # "absent" /\ r.version <= row.version
       /\ r.version = row.version => r.cfg = row.cfg /\ r.status = row.status
Snapshots == \A c \in Clients : reqs[c].pc = "asked" => Snapshot(reqs[c])

(* The supervisor hears of a task that is not the row's: an event that      *)
(* stops it is in the channel, or a handler is about to send one.           *)
Signals(r) ==
  /\ r.pc = "committed"
  /\ \/ r.op = "delete"
     \/ r.op \in {"cfg", "status"} /\ (r.cfg # row.cfg \/ r.status # row.status)
Signalled ==
  (\E i \in DOMAIN chan : chan[i] # "Start") \/ (\E c \in Clients : Signals(reqs[c]))
Outdated == handle # 0 /\ (row.status # "active" \/ tasks[handle].cfg # row.cfg)
Told ==
  /\ row.status = "absent" => handle = 0
  /\ ~lost /\ ~shutdown /\ Outdated => Signalled

(* A task that runs is in the map, or cancelled and about to be joined.     *)
Owners ==
  /\ \A s, t \in Slots : Running(tasks[s]) /\ Running(tasks[t]) => s = t
  /\ \A s \in Slots : Running(tasks[s]) /\ ~tasks[s].cancelled => handle = s
  /\ \A s \in Slots : tasks[s].cancelled =>
       Running(tasks[s]) /\ (shutdown \/ (sup.pc = "handle" /\ handle = 0))
  /\ handle # 0 /\ ~shutdown => Running(tasks[handle])
  /\ sup.pc \in {"boot", "done"} => \A s \in Slots : ~Running(tasks[s])
  /\ sup.pc = "boot" =>
       handle = 0 /\ chan = <<>> /\ \A c \in Clients : reqs[c].pc = "idle"

(* A streaming reader without a task is shown offline.                      *)
Pushing == {"configure", "write", "asleep"}
Offline ==
  mode = "stream" =>
    /\ \A s \in Slots : tasks[s].pc \notin Pushing
    /\ faults = 0 /\ (\A s \in Slots : ~Running(tasks[s])) => row.conn = "offline"

(* The stream of a connection is ahead of what has been stored.             *)
Ahead(t) ==
  /\ t.pc \in {"opened", "seen", "provision"} => t.base = t.got
  /\ t.pc \in {"opened", "seen", "provision", "stream"} =>
       \A i \in DOMAIN stored : stored[i].alert <= t.got
  /\ t.pending # NoAlert =>
       /\ t.pc = "stream" /\ t.pending = t.got
       /\ \A i \in DOMAIN stored : stored[i].alert < t.got
Streams ==
  /\ StoredOnceWithOwnPhoto
  /\ \A i \in DOMAIN stored : stored[i].alert \in 1..sent
  /\ \A s \in Slots : Ahead(tasks[s])

(* A command and its row: none before the call has ended, then the outcome  *)
(* of the call; only an answer tells it.  A request that is over without a  *)
(* row has met a fault.                                                     *)
Trail(k, a, f) ==
  /\ k.pc \in {"new", "calling", "called"} => a = "none"
  /\ k.pc \in {"called", "recorded"} => k.outcome # "none"
  /\ k.pc = "recorded" => a = k.outcome
  /\ k.pc # "answered" => k.told = "none"
  /\ k.told \in {"ok", "error", "timeout"} => a = k.told
  /\ k.outcome = "ok" => k.ran
  /\ a = "ok" => k.ran
  /\ k.pc \in {"answered", "cut", "lost"} /\ a = "none" => f > 0
Audited == \A i \in Commands : Trail(cmds[i], audit[i], faults)

SupervisorInv ==
  /\ Types /\ Versions /\ Snapshots /\ Told /\ Owners /\ Offline /\ Streams
  /\ Audited

-----------------------------------------------------------------------------
(* What most steps leave alone.                                             *)

(* The bounds of a behaviour are numbers.                                   *)
LEMMA BudgetTypes ==
  ASSUME Types
  PROVE  /\ budget.requests \in Nat /\ budget.markings \in Nat
         /\ budget.commands \in Nat /\ budget.faults \in Nat
BY SupervisorAssumption DEF Types

(* The row, but for its connection state.                                   *)
Conns == {"online", "stale", "offline"}
Rows ==
  [status: Statuses, deleted: BOOLEAN, cfg: Configs, dir: Directions, conn: Conns,
   version: 1..(budget.requests + 1)]
RowKept ==
  /\ row' \in Rows /\ budget' = budget
  /\ row'.status = row.status /\ row'.deleted = row.deleted /\ row'.cfg = row.cfg
  /\ row'.dir = row.dir /\ row'.version = row.version

(* A connection state is written, or nothing.                               *)
LEMMA Shown ==
  ASSUME Types, budget' = budget,
         (\E v \in Conns : row' = [row EXCEPT !.conn = v]) \/ row' = row
  PROVE  RowKept
<1>1. row \in Rows BY DEF Types, TypeOK, Rows, Statuses, Conns
<1>2. CASE row' = row BY <1>1, <1>2 DEF RowKept
<1>3. ASSUME NEW v \in Conns, row' = [row EXCEPT !.conn = v] PROVE RowKept
  BY <1>1, <1>3 DEF RowKept, Rows
<1> QED BY <1>2, <1>3

(* Everything of requests, supervisor and commands stays.                   *)
Rest ==
  /\ UNCHANGED <<mode, reqs, asked, chan, sup, handle, shutdown, cmds, audit, lost>>
  /\ RowKept
  /\ faults' \in Nat /\ faults' >= faults /\ faults' <= budget.faults

(* Faults are counted up.                                                   *)
LEMMA FaultsGrow ==
  ASSUME Types, faults' = faults \/ Fault
  PROVE  /\ faults \in Nat /\ faults' \in Nat /\ faults' >= faults
         /\ faults' \in 0..budget.faults /\ (faults' = 0 => faults = 0)
<1>1. faults \in 0..budget.faults /\ budget.faults \in Nat
  BY BudgetTypes DEF Types, TypeOK
<1> QED BY <1>1 DEF Fault

(* A fault more is no harm to what the log says.                            *)
LEMMA TrailLasts ==
  ASSUME NEW k, NEW a, NEW f \in Nat, NEW g \in Nat, g >= f, Trail(k, a, f)
  PROVE  Trail(k, a, g)
BY DEF Trail

(* Versions, snapshots and the audit log do not read the rest.               *)
LEMMA RestKeeps ==
  ASSUME SupervisorInv, Rest
  PROVE  Versions' /\ Snapshots' /\ Audited'
<1>1. /\ UNCHANGED <<reqs, asked, cmds, audit, budget>> /\ row'.status = row.status
      /\ row'.cfg = row.cfg /\ row'.version = row.version
  BY DEF Rest, RowKept
<1>2. Versions' BY <1>1 DEF SupervisorInv, Versions, Asked
<1>3. Snapshots' BY <1>1 DEF SupervisorInv, Snapshots, Snapshot
<1>4. faults \in Nat /\ faults' \in Nat /\ faults' >= faults
  BY BudgetTypes DEF SupervisorInv, Types, TypeOK, Rest
<1>5. Audited' BY <1>1, <1>4, TrailLasts DEF SupervisorInv, Audited, Commands
<1> QED BY <1>2, <1>3, <1>5

(* A step of the reader or of the watchdog.                                 *)
LEMMA ReaderKeeps ==
  ASSUME SupervisorInv, Rest, UNCHANGED <<tasks, stored>>, sent' >= sent,
         sent' \in 0..budget.markings,
         mode = "stream" /\ row.conn = "offline" => row'.conn = "offline" \/ faults' # 0
  PROVE  SupervisorInv'
<1>0. Types BY DEF SupervisorInv
<1>1. /\ UNCHANGED <<mode, reqs, asked, chan, sup, handle, shutdown, cmds, audit, lost,
                     budget, tasks, stored>>
      /\ row'.status = row.status /\ row'.cfg = row.cfg /\ row'.version = row.version
      /\ faults' \in Nat /\ faults' >= faults /\ faults' <= budget.faults
  BY DEF Rest, RowKept
<1>2. Versions' /\ Snapshots' /\ Audited' BY RestKeeps
<1>3. Types'
  <2>1. row' \in Rows /\ sent \in Nat BY <1>0 DEF Rest, RowKept, Types, TypeOK
  <2>2. \A s \in Slots : tasks[s].got \in 0..sent' /\ tasks[s].pending \in 0..sent'
    BY <1>0, <2>1, BudgetTypes DEF Types, TypeOK
  <2>3. faults' \in 0..budget.faults BY <1>1, <1>0, BudgetTypes
  <2>4. TypeOK'
    BY <1>0, <1>1, <2>1, <2>2, <2>3 DEF Types, TypeOK, Rows, Statuses, Conns
  <2> QED BY <1>0, <1>1, <2>4 DEF Types, Commands
<1>4. Told' BY <1>1 DEF SupervisorInv, Told, Outdated, Signalled, Signals
<1>5. Owners' BY <1>1 DEF SupervisorInv, Owners, Running
<1>6. Offline' BY <1>0, <1>1 DEF SupervisorInv, Offline, Running, Types, TypeOK
<1>7. Streams'
  <2>1. sent \in Nat /\ sent' \in Nat BY <1>0, BudgetTypes DEF Types, TypeOK
  <2> QED BY <1>1, <2>1 DEF SupervisorInv, Streams, StoredOnceWithOwnPhoto, Ahead
<1> QED BY <1>2, <1>3, <1>4, <1>5, <1>6, <1>7 DEF SupervisorInv

-----------------------------------------------------------------------------
(* The tasks.                                                               *)

(* A task goes on for the same configuration, or ends because it has been   *)
(* cancelled, after it has shown its reader offline.                        *)
GoesOn(u, t) == Running(t) /\ t.cfg = u.cfg /\ t.cancelled = u.cancelled
Ends(u, t) ==
  /\ ~Running(t) /\ ~t.cancelled /\ u.cancelled
  /\ mode = "stream" => row'.conn = "offline" \/ faults' # 0
Moves(s, t) ==
  /\ Rest /\ s \in Slots /\ t \in Tasks
  /\ \A x \in Slots : tasks'[x] = IF x = s THEN t ELSE tasks[x]
  /\ tasks' \in [Slots -> Tasks]
  /\ Running(tasks[s]) /\ (GoesOn(tasks[s], t) \/ Ends(tasks[s], t))
  /\ sent' = sent /\ t.got <= sent /\ t.pending <= sent
  /\ mode = "stream" => t.pc \notin Pushing

(* An EXCEPT on the tasks, point by point.                                  *)
LEMMA TaskWritten ==
  ASSUME Types, NEW s \in Slots, NEW t \in Tasks, tasks' = [tasks EXCEPT ![s] = t]
  PROVE  /\ \A x \in Slots : tasks'[x] = IF x = s THEN t ELSE tasks[x]
         /\ tasks' \in [Slots -> Tasks]
<1>1. tasks \in [Slots -> Tasks] BY DEF Types
<1> QED BY <1>1

(* What a move leaves to show: what it has done to the stored markings.     *)
LEMMA MoveKeeps ==
  ASSUME SupervisorInv, NEW s, NEW t, Moves(s, t), stored' \in Seq(Stored), Streams'
  PROVE  SupervisorInv'
<1>0. Types BY DEF SupervisorInv
<1>1. /\ UNCHANGED <<mode, reqs, asked, chan, sup, handle, shutdown, cmds, audit, lost,
                     budget, sent>>
      /\ row'.status = row.status /\ row'.cfg = row.cfg /\ row'.version = row.version
      /\ faults' \in Nat /\ faults' >= faults /\ faults' <= budget.faults
      /\ s \in Slots /\ t \in Tasks /\ tasks' \in [Slots -> Tasks]
  BY DEF Moves, Rest, RowKept
<1>2. Versions' /\ Snapshots' /\ Audited' BY RestKeeps DEF Moves
<1>3. \A x \in Slots : tasks'[x] = IF x = s THEN t ELSE tasks[x] BY DEF Moves
<1>4. Running(tasks[s]) /\ (GoesOn(tasks[s], t) \/ Ends(tasks[s], t)) BY DEF Moves
<1>5. Types'
  <2>1. row' \in Rows /\ sent \in Nat BY <1>0 DEF Moves, Rest, RowKept, Types, TypeOK
  <2>2. t.got \in 0..sent /\ t.pending \in 0..sent BY <1>1, <2>1 DEF Moves, Tasks
  <2>3. \A x \in Slots : tasks'[x].got \in 0..sent' /\ tasks'[x].pending \in 0..sent'
    BY <1>0, <1>1, <1>3, <2>2 DEF Types, TypeOK
  <2>4. \A x \in Slots : tasks'[x].pc \in TaskPcs /\ tasks'[x].cancelled \in BOOLEAN
    BY <1>1 DEF Tasks
  <2>5. faults' \in 0..budget.faults BY <1>1, <1>0, BudgetTypes
  <2>6. TypeOK'
    BY <1>0, <1>1, <2>1, <2>3, <2>4, <2>5 DEF Types, TypeOK, Rows, Statuses, Conns
  <2> QED BY <1>0, <1>1, <2>6 DEF Types, Commands
<1>6. handle # 0 /\ ~shutdown => tasks'[handle].cfg = tasks[handle].cfg
  <2>1. handle \in Slots \cup {0} BY <1>0 DEF Types, TypeOK
  <2>2. tasks[s].cancelled => shutdown \/ handle = 0 BY <1>1 DEF SupervisorInv, Owners
  <2> QED BY <1>3, <1>4, <2>1, <2>2 DEF GoesOn, Ends
<1>7. Told' BY <1>1, <1>6 DEF SupervisorInv, Told, Outdated, Signalled, Signals
<1>8. Owners'
  <2>1. \A x \in Slots : Running(tasks'[x]) => Running(tasks[x]) BY <1>3, <1>4
  <2>2. \A x \in Slots : tasks'[x].cancelled => tasks[x].cancelled /\ Running(tasks'[x])
    BY <1>3, <1>4 DEF GoesOn, Ends, SupervisorInv, Owners
  <2>3. \A x \in Slots : Running(tasks'[x]) => tasks'[x].cancelled = tasks[x].cancelled
    BY <1>3, <1>4 DEF GoesOn, Ends
  <2>4. handle # 0 /\ ~shutdown => Running(tasks'[handle])
    BY <1>0, <1>1, <1>3, <1>4 DEF GoesOn, Ends, SupervisorInv, Owners, Types, TypeOK
  <2>5. \A x, y \in Slots : Running(tasks'[x]) /\ Running(tasks'[y]) => x = y
    BY <2>1 DEF SupervisorInv, Owners
  <2>6. \A x \in Slots : Running(tasks'[x]) /\ ~tasks'[x].cancelled => handle = x
    BY <2>1, <2>3 DEF SupervisorInv, Owners
  <2>7. sup.pc \in {"boot", "done"} => \A x \in Slots : ~Running(tasks'[x])
    BY <2>1 DEF SupervisorInv, Owners
  <2> QED BY <1>1, <2>2, <2>4, <2>5, <2>6, <2>7 DEF SupervisorInv, Owners, Running
<1>9. Offline'
  <2>1. mode = "stream" => \A x \in Slots : tasks'[x].pc \notin Pushing
    BY <1>3 DEF SupervisorInv, Offline, Moves
  <2>2. mode = "stream" /\ (\A x \in Slots : ~Running(tasks'[x]))
          => row'.conn = "offline" \/ faults' # 0
    BY <1>1, <1>3, <1>4 DEF GoesOn, Ends
  <2> QED BY <1>1, <2>1, <2>2 DEF Offline, Running
<1> QED BY <1>2, <1>5, <1>7, <1>8, <1>9 DEF SupervisorInv

(* Every marking the connection has read is stored, but the last one while  *)
(* it waits.                                                                *)
ReadSoFar(t) ==
  t.pc = "stream" => \A a \in (t.base + 1)..t.got :
    (\E i \in DOMAIN stored : stored[i].alert = a) \/ (a = t.got /\ t.pending = a)

(* A move that stores nothing.                                              *)
LEMMA MoveStoresNothing ==
  ASSUME SupervisorInv, NEW s, NEW t, Moves(s, t), stored' = stored, Ahead(t), ReadSoFar(t)
  PROVE  SupervisorInv'
<1>1. Streams'
  <2>1. sent' = sent /\ \A x \in Slots : tasks'[x] = IF x = s THEN t ELSE tasks[x]
    BY DEF Moves
  <2>2. \A x \in Slots : Ahead(tasks[x])' BY <2>1 DEF SupervisorInv, Streams, Ahead
  <2>3. \A x \in Slots : tasks'[x].pc = "stream" =>
          \A a \in (tasks'[x].base + 1)..tasks'[x].got :
            \/ \E i \in DOMAIN stored : stored[i].alert = a
            \/ a = tasks'[x].got /\ tasks'[x].pending = a
    BY <2>1 DEF SupervisorInv, Streams, StoredOnceWithOwnPhoto, ReadSoFar
  <2> QED BY <2>1, <2>2, <2>3 DEF SupervisorInv, Streams, StoredOnceWithOwnPhoto
<1>2. stored' \in Seq(Stored) BY DEF SupervisorInv, Types
<1> QED BY <1>1, <1>2, MoveKeeps

(* A task with another place in its loop.                                   *)
LEMMA PcWritten ==
  ASSUME NEW u \in Tasks, NEW v \in TaskPcs, NEW t, t = [u EXCEPT !.pc = v]
  PROVE  /\ t \in Tasks /\ t.pc = v /\ t.cfg = u.cfg /\ t.cancelled = u.cancelled
         /\ t.base = u.base /\ t.got = u.got /\ t.pending = u.pending
BY DEF Tasks

(* A step outside the supervisor, with a fault or without.                  *)
LEMMA Outsiders ==
  ASSUME SupervisorInv, UNCHANGED <<budget, mode, http, super, command, lost>>,
         faults' = faults \/ Fault,
         (\E v \in Conns : row' = [row EXCEPT !.conn = v]) \/ row' = row
  PROVE  Rest
<1>0. Types BY DEF SupervisorInv
<1>1. RowKept BY <1>0, Shown
<1>2. faults \in 0..budget.faults /\ budget.faults \in Nat
  BY <1>0, BudgetTypes DEF Types, TypeOK
<1>3. faults' \in Nat /\ faults' >= faults /\ faults' <= budget.faults
  BY <1>2 DEF Fault
<1> QED BY <1>1, <1>3 DEF Rest, http, super, command

(* The hypotheses of a move, from the frame of an action of a task.         *)
LEMMA MoveFrame ==
  ASSUME SupervisorInv, Rest, NEW s \in Slots, NEW t \in Tasks,
         tasks' = [tasks EXCEPT ![s] = t], sent' = sent,
         Running(tasks[s]), GoesOn(tasks[s], t) \/ Ends(tasks[s], t),
         t.got <= sent, t.pending <= sent, mode = "stream" => t.pc \notin Pushing
  PROVE  Moves(s, t)
<1>1. Types BY DEF SupervisorInv
<1> QED BY <1>1, TaskWritten DEF Moves

(* What is known of a task before its step.                                 *)
LEMMA TaskFacts ==
  ASSUME SupervisorInv, NEW s \in Slots
  PROVE  /\ tasks[s] \in Tasks /\ Ahead(tasks[s]) /\ ReadSoFar(tasks[s])
         /\ tasks[s].got \in Nat /\ tasks[s].pending \in Nat /\ tasks[s].base \in Nat
         /\ sent \in Nat /\ tasks[s].got <= sent /\ tasks[s].pending <= sent
         /\ mode = "stream" => tasks[s].pc \notin Pushing
         /\ tasks[s].pc = "none" => ~tasks[s].cancelled
<1>1. tasks[s] \in Tasks BY DEF SupervisorInv, Types
<1>2. Ahead(tasks[s]) /\ ReadSoFar(tasks[s])
  BY DEF SupervisorInv, Streams, StoredOnceWithOwnPhoto, ReadSoFar
<1>3. sent \in Nat BY BudgetTypes DEF SupervisorInv, Types, TypeOK
<1>4. tasks[s].got \in 0..sent /\ tasks[s].pending \in 0..sent
  BY DEF SupervisorInv, Types, TypeOK
<1>5. tasks[s].base \in Nat BY <1>1 DEF Tasks
<1>6. mode = "stream" => tasks[s].pc \notin Pushing BY DEF SupervisorInv, Offline
<1>7. tasks[s].pc = "none" => ~tasks[s].cancelled BY DEF SupervisorInv, Owners, Running
<1> QED BY <1>1, <1>2, <1>3, <1>4, <1>5, <1>6, <1>7

(* A new connection starts behind what the reader has taken so far.         *)
LEMMA ConnectKeeps ==
  ASSUME SupervisorInv, NEW s \in Slots, Connect(s)
  PROVE  SupervisorInv'
<1>u. PICK u : u = tasks[s] OBVIOUS
<1>0. u \in Tasks /\ u.pc = "connect" /\ sent \in Nat
  BY <1>u, TaskFacts DEF Connect, At
<1>1. PICK t : t = [u EXCEPT !.pc = "opened", !.base = sent, !.got = sent] OBVIOUS
<1>2. /\ t \in Tasks /\ t.pc = "opened" /\ t.cfg = u.cfg /\ t.cancelled = u.cancelled
      /\ t.base = sent /\ t.got = sent /\ t.pending = u.pending
  BY <1>0, <1>1 DEF Tasks, TaskPcs
<1>3. tasks' = [tasks EXCEPT ![s] = t] BY <1>u, <1>1 DEF Connect
<1>4. u.pending = 0 BY <1>u, <1>0, TaskFacts DEF Ahead, NoAlert
<1>5. Moves(s, t)
  <2>1. sent' = sent /\ Rest BY Outsiders DEF Connect, Elsewhere, Untouched, device
  <2>2. Running(tasks[s]) /\ GoesOn(tasks[s], t) BY <1>u, <1>0, <1>2 DEF Running, GoesOn
  <2>3. t.got <= sent /\ t.pending <= sent /\ t.pc \notin Pushing
    BY <1>0, <1>2, <1>4 DEF Pushing
  <2> QED BY <1>2, <1>3, <2>1, <2>2, <2>3, MoveFrame
<1>6. \A i \in DOMAIN stored : stored[i].alert <= sent
  BY <1>0 DEF SupervisorInv, Streams
<1>7. Ahead(t) /\ ReadSoFar(t) BY <1>2, <1>4, <1>6 DEF Ahead, ReadSoFar, NoAlert
<1> QED BY <1>5, <1>7, MoveStoresNothing DEF Connect

(* A step that only takes a task to its next place.                         *)
LEMMA PcMoves ==
  ASSUME SupervisorInv, Rest, NEW s \in Slots, NEW v \in TaskPcs, Goes(s, v),
         sent' = sent, stored' = stored, tasks[s].pc \notin {"none", "stream"},
         v \notin {"none", "opened"}, v = "seen" => tasks[s].pc = "opened",
         v = "provision" => tasks[s].pc = "seen",
         v = "stream" => tasks[s].pc = "provision", mode = "stream" => v \notin Pushing
  PROVE  SupervisorInv'
<1>u. PICK u : u = tasks[s] OBVIOUS
<1>0. /\ u \in Tasks /\ Ahead(u) /\ u.got \in Nat /\ u.pending \in Nat /\ u.base \in Nat
      /\ u.got <= sent /\ u.pending <= sent /\ u.pc \notin {"none", "stream"}
  BY <1>u, TaskFacts
<1>1. PICK t : t = [u EXCEPT !.pc = v] OBVIOUS
<1>2. /\ t \in Tasks /\ t.pc = v /\ t.cfg = u.cfg /\ t.cancelled = u.cancelled
      /\ t.base = u.base /\ t.got = u.got /\ t.pending = u.pending
  BY <1>0, <1>1, PcWritten
<1>3. tasks' = [tasks EXCEPT ![s] = t] BY <1>u, <1>1 DEF Goes
<1>4. Running(tasks[s]) /\ GoesOn(tasks[s], t) BY <1>u, <1>0, <1>2 DEF Running, GoesOn
<1>5. Moves(s, t) BY <1>0, <1>2, <1>3, <1>4, MoveFrame
<1>6. u.pending = NoAlert BY <1>0 DEF Ahead
<1>7. /\ v = "seen" => u.pc = "opened" /\ u.base = u.got
      /\ v = "provision" => u.pc = "seen" /\ u.base = u.got
  BY <1>u, <1>0 DEF Ahead
<1>8. v = "stream" => u.pc = "provision" /\ u.base = u.got BY <1>u, <1>0 DEF Ahead
<1>9. Ahead(t)
  <2>1. t.pc \in {"seen", "provision", "stream"} =>
          \A i \in DOMAIN stored : stored[i].alert <= t.got
    BY <1>0, <1>2, <1>7, <1>8 DEF Ahead
  <2> QED BY <1>2, <1>6, <1>7, <2>1 DEF Ahead
<1>10. ReadSoFar(t)
  <2>1. ASSUME v = "stream" PROVE (t.base + 1)..t.got = {}
    BY <1>0, <1>2, <1>8, <2>1
  <2> QED BY <1>2, <2>1 DEF ReadSoFar
<1> QED BY <1>5, <1>9, <1>10, MoveStoresNothing

(* An answered stream is shown online.                                      *)
LEMMA OpenedKeeps ==
  ASSUME SupervisorInv, NEW s \in Slots, Opened(s)
  PROVE  SupervisorInv'
<1>1. Rest
  BY Outsiders DEF Opened, Elsewhere, Untouched, Conns, update_connection_state
<1>2. tasks[s].pc = "opened" /\ Goes(s, "seen") /\ sent' = sent /\ stored' = stored
  BY DEF Opened, At, device
<1> QED BY <1>1, <1>2, PcMoves DEF TaskPcs, Pushing

(* Then it is seen.                                                         *)
LEMMA SeenKeeps ==
  ASSUME SupervisorInv, NEW s \in Slots, Seen(s)
  PROVE  SupervisorInv'
<1>1. Rest
  <2>1. row' = [row EXCEPT !.conn = IF row.conn = "stale" THEN "online" ELSE row.conn]
    BY DEF Seen, touch_last_seen
  <2>2. row.conn \in Conns BY DEF SupervisorInv, Types, TypeOK, Conns
  <2>3. row' = row \/ \E v \in Conns : row' = [row EXCEPT !.conn = v]
    BY <2>1, <2>2 DEF Conns
  <2> QED BY <2>3, Outsiders DEF Seen, Elsewhere, Untouched
<1>2. tasks[s].pc = "seen" /\ Goes(s, "provision") /\ sent' = sent /\ stored' = stored
  BY DEF Seen, At, device
<1> QED BY <1>1, <1>2, PcMoves DEF TaskPcs, Pushing

(* The settings are tried before the stream is read.                        *)
LEMMA ProvisionKeeps ==
  ASSUME SupervisorInv, NEW s \in Slots, Provision(s)
  PROVE  SupervisorInv'
<1>1. Rest
  BY Outsiders DEF Provision, Elsewhere, Untouched, Conns
<1>2. tasks[s].pc = "provision" /\ Goes(s, "stream") /\ sent' = sent /\ stored' = stored
  BY DEF Provision, At, device
<1> QED BY <1>1, <1>2, PcMoves DEF TaskPcs, Pushing

(* After an error the reader is shown offline.                              *)
LEMMA FailedKeeps ==
  ASSUME SupervisorInv, NEW s \in Slots, Failed(s)
  PROVE  SupervisorInv'
<1>1. Rest
  BY Outsiders DEF Failed, WriteOffline, Untouched, Conns, update_connection_state
<1>2. tasks[s].pc = "failed" /\ Goes(s, "backoff") /\ sent' = sent /\ stored' = stored
  BY DEF Failed, At, device
<1> QED BY <1>1, <1>2, PcMoves DEF TaskPcs, Pushing

(* The task tries again.                                                    *)
LEMMA BackoffKeeps ==
  ASSUME SupervisorInv, NEW s \in Slots, Backoff(s)
  PROVE  SupervisorInv'
<1>1. Rest
  BY Outsiders DEF Backoff, Elsewhere, Untouched, Conns
<1>2. tasks[s].pc = "backoff" /\ Goes(s, "connect") /\ sent' = sent /\ stored' = stored
  BY DEF Backoff, At, device
<1> QED BY <1>1, <1>2, PcMoves DEF TaskPcs, Pushing

(* The webhook slot is cleared before it is written.                        *)
LEMMA PushClearKeeps ==
  ASSUME SupervisorInv, NEW s \in Slots, PushClear(s)
  PROVE  SupervisorInv'
<1>1. Rest
  BY Outsiders DEF PushClear, Elsewhere, Untouched, Conns
<1>2. tasks[s].pc = "configure" /\ Goes(s, "write") /\ sent' = sent /\ stored' = stored
  BY DEF PushClear, At, device
<1>3. mode # "stream" BY <1>2, TaskFacts DEF Pushing
<1> QED BY <1>1, <1>2, <1>3, PcMoves DEF TaskPcs

(* The webhook is written, and the task sleeps.                             *)
LEMMA PushWriteKeeps ==
  ASSUME SupervisorInv, NEW s \in Slots, PushWrite(s)
  PROVE  SupervisorInv'
<1>1. Rest
  BY Outsiders DEF PushWrite, Elsewhere, Untouched, Conns
<1>2. tasks[s].pc = "write" /\ Goes(s, "asleep") /\ sent' = sent /\ stored' = stored
  BY DEF PushWrite, At, device
<1>3. mode # "stream" BY <1>2, TaskFacts DEF Pushing
<1> QED BY <1>1, <1>2, <1>3, PcMoves DEF TaskPcs

(* A failed write is tried again after the sleep.                           *)
LEMMA PushWriteFailsKeeps ==
  ASSUME SupervisorInv, NEW s \in Slots, PushWriteFails(s)
  PROVE  SupervisorInv'
<1>1. Rest
  BY Outsiders DEF PushWriteFails, Elsewhere, Untouched, Conns, db, Fault
<1>2. tasks[s].pc = "write" /\ Goes(s, "asleep") /\ sent' = sent /\ stored' = stored
  BY DEF PushWriteFails, At, device
<1>3. mode # "stream" BY <1>2, TaskFacts DEF Pushing
<1> QED BY <1>1, <1>2, <1>3, PcMoves DEF TaskPcs

(* A connection that is over: nothing of it is remembered.                  *)
LEMMA Forgotten ==
  ASSUME NEW u \in Tasks, NEW pc \in TaskPcs, NEW t, t = Disconnected(u, pc)
  PROVE  /\ t \in Tasks /\ t.pc = pc /\ t.cfg = u.cfg /\ t.cancelled = u.cancelled
         /\ t.base = 0 /\ t.got = 0 /\ t.pending = 0
<1>1. PICK d : d = [u EXCEPT !.pc = pc, !.base = 0, !.got = 0] OBVIOUS
<1>2. /\ d \in Tasks /\ d.pc = pc /\ d.cfg = u.cfg /\ d.cancelled = u.cancelled
      /\ d.base = 0 /\ d.got = 0
  BY <1>1 DEF Tasks
<1>3. t = [d EXCEPT !.pending = 0] BY <1>1 DEF Disconnected, DisconnectedKeeping, NoAlert
<1> QED BY <1>2, <1>3 DEF Tasks

(* An error ends the connection and drops the marking that waits.           *)
LEMMA FailsKeeps ==
  ASSUME SupervisorInv, NEW s \in Slots, Fails(s)
  PROVE  SupervisorInv'
<1>u. PICK u : u = tasks[s] OBVIOUS
<1>0. u \in Tasks /\ u.pc \in {"connect", "opened", "seen", "stream"} /\ sent \in Nat
  BY <1>u, TaskFacts DEF Fails
<1>1. PICK t : t = Disconnected(u, "failed") OBVIOUS
<1>2. /\ t \in Tasks /\ t.pc = "failed" /\ t.cfg = u.cfg /\ t.cancelled = u.cancelled
      /\ t.base = 0 /\ t.got = 0 /\ t.pending = 0
  BY <1>0, <1>1, Forgotten DEF TaskPcs
<1>3. tasks' = [tasks EXCEPT ![s] = t] BY <1>u, <1>1 DEF Fails
<1>4. Rest /\ sent' = sent BY Outsiders DEF Fails, Elsewhere, Untouched, device
<1>5. Running(tasks[s]) /\ GoesOn(tasks[s], t) BY <1>u, <1>0, <1>2 DEF Running, GoesOn
<1>6. t.pc \notin Pushing /\ t.got <= sent /\ t.pending <= sent BY <1>0, <1>2 DEF Pushing
<1>7. Moves(s, t) BY <1>2, <1>3, <1>4, <1>5, <1>6, MoveFrame
<1>8. Ahead(t) /\ ReadSoFar(t) BY <1>2 DEF Ahead, ReadSoFar, NoAlert
<1> QED BY <1>7, <1>8, MoveStoresNothing DEF Fails

(* A task that has ended leaves no trace in the map of tasks.               *)
LEMMA EndKeeps ==
  ASSUME SupervisorInv, Rest, NEW s \in Slots, tasks' = [tasks EXCEPT ![s] = NoTask],
         tasks[s].cancelled, mode = "stream" => row'.conn = "offline" \/ faults' # 0,
         sent' = sent, stored' = stored, "in" \in Directions
  PROVE  SupervisorInv'
<1>1. PICK t : t = NoTask OBVIOUS
<1>2. /\ t \in Tasks /\ t.pc = "none" /\ ~t.cancelled /\ t.got = 0 /\ t.pending = 0
  BY <1>1 DEF NoTask, Tasks, TaskPcs, Configs, NoAlert
<1>3. Running(tasks[s]) /\ sent \in Nat BY TaskFacts DEF Running
<1>4. Ends(tasks[s], t) BY <1>2 DEF Ends, Running
<1>5. t.pc \notin Pushing /\ t.got <= sent /\ t.pending <= sent BY <1>2, <1>3 DEF Pushing
<1>6. tasks' = [tasks EXCEPT ![s] = t] BY <1>1
<1>7. Moves(s, t) BY <1>2, <1>3, <1>4, <1>5, <1>6, MoveFrame
<1>8. Ahead(t) /\ ReadSoFar(t) BY <1>2 DEF Ahead, ReadSoFar, NoAlert
<1> QED BY <1>7, <1>8, MoveStoresNothing

(* A cancelled stream shows its reader offline and ends.                    *)
LEMMA CancelledKeeps ==
  ASSUME SupervisorInv, NEW s \in Slots, Cancelled(s)
  PROVE  SupervisorInv'
<1>1. Rest
  BY Outsiders
  DEF Cancelled, EndOffline, WriteOffline, update_connection_state, Untouched, Conns
<1>2. /\ tasks' = [tasks EXCEPT ![s] = NoTask] /\ tasks[s].cancelled
      /\ sent' = sent /\ stored' = stored
  BY DEF Cancelled, EndOffline, device
<1>3. row'.conn = "offline" \/ faults' # 0
  <2>1. row \in Rows BY DEF SupervisorInv, Types, TypeOK, Rows, Statuses, Conns
  <2>2. CASE row' = [row EXCEPT !.conn = "offline"] BY <2>1, <2>2 DEF Rows
  <2>3. CASE Fault
    BY <2>3, BudgetTypes DEF SupervisorInv, Types, TypeOK, Fault
  <2> QED
    BY <2>2, <2>3 DEF Cancelled, EndOffline, WriteOffline, update_connection_state
<1> QED BY <1>1, <1>2, <1>3, EndKeeps, SupervisorAssumption

(* A pushing task that wakes up tries again, or ends.                       *)
LEMMA PushAsleepKeeps ==
  ASSUME SupervisorInv, NEW s \in Slots, PushAsleep(s)
  PROVE  SupervisorInv'
<1>1. Rest /\ sent' = sent /\ stored' = stored
  BY Outsiders DEF PushAsleep, Elsewhere, Untouched, device
<1>2. tasks[s].pc = "asleep" BY DEF PushAsleep, At
<1>3. mode # "stream" BY <1>2, TaskFacts DEF Pushing
<1>4. CASE tasks[s].cancelled
  <2>1. tasks' = [tasks EXCEPT ![s] = NoTask] BY <1>4 DEF PushAsleep
  <2> QED BY <1>1, <1>3, <1>4, <2>1, EndKeeps, SupervisorAssumption
<1>5. CASE ~tasks[s].cancelled
  <2>1. PICK v : v = FirstStep OBVIOUS
  <2>2. v \in {"connect", "configure"} BY <2>1 DEF FirstStep
  <2>3. Goes(s, v) BY <1>5, <2>1 DEF PushAsleep, Goes
  <2>4. v \in TaskPcs BY <2>2 DEF TaskPcs
  <2> QED BY <1>1, <1>2, <1>3, <2>2, <2>3, <2>4, PcMoves
<1> QED BY <1>4, <1>5

(* What the sequence of stored markings is after one connection added to    *)
(* it: each marking once, with its own photo or none, none lost.            *)
Grown(u) ==
  /\ stored' \in Seq(Stored)
  /\ \A i, j \in DOMAIN stored' : stored'[i].alert = stored'[j].alert => i = j
  /\ \A i \in DOMAIN stored' : stored'[i].photo \in {NoAlert, stored'[i].alert}
  /\ \A i \in DOMAIN stored' : stored'[i].alert \in 1..sent /\ stored'[i].alert <= u.got
  /\ \A i \in DOMAIN stored : \E j \in DOMAIN stored' : stored'[j].alert = stored[i].alert
  /\ u.pending # NoAlert => \E j \in DOMAIN stored' : stored'[j].alert = u.pending

(* The marking that waits is stored with the photo read last, or with none. *)
LEMMA PairGrows ==
  ASSUME SupervisorInv, NEW s \in Slots, NEW u, u = tasks[s], u.pc = "stream",
         NEW photo \in {NoAlert, u.got}, stored' = ingest_pair(u, photo)
  PROVE  Grown(u)
<1>1. /\ u \in Tasks /\ Ahead(u) /\ u.got \in Nat /\ u.pending \in Nat /\ sent \in Nat
      /\ u.got <= sent
  BY TaskFacts
<1>2. /\ stored \in Seq(Stored)
      /\ \A i, j \in DOMAIN stored : stored[i].alert = stored[j].alert => i = j
      /\ \A i \in DOMAIN stored : stored[i].photo \in {NoAlert, stored[i].alert}
      /\ \A i \in DOMAIN stored : stored[i].alert \in 1..sent
  BY DEF SupervisorInv, Types, Streams, StoredOnceWithOwnPhoto
<1>3. \A i \in DOMAIN stored : stored[i].alert <= u.got BY <1>1 DEF Ahead
<1>4. CASE u.pending = NoAlert
  <2>1. stored' = stored BY <1>4 DEF ingest_pair
  <2> QED BY <1>2, <1>3, <1>4, <2>1 DEF Grown
<1>5. CASE u.pending # NoAlert
  <2>1. PICK x : x = [alert |-> u.pending, photo |-> photo, dir |-> u.dir] OBVIOUS
  <2>2. /\ u.pending = u.got /\ u.got \in 1..sent
        /\ \A i \in DOMAIN stored : stored[i].alert < u.pending
    BY <1>1, <1>5 DEF Ahead, NoAlert
  <2>3. photo \in Nat /\ u.dir \in Directions BY <1>1 DEF Tasks, NoAlert
  <2>4. x \in Stored BY <1>1, <2>1, <2>3 DEF Stored
  <2>5. x.alert = u.pending /\ x.photo \in {NoAlert, x.alert} BY <2>1, <2>2
  <2>6. stored' = Append(stored, x) BY <1>5, <2>1 DEF ingest_pair
  <2>7. /\ stored' \in Seq(Stored) /\ Len(stored) \in Nat /\ DOMAIN stored = 1..Len(stored)
        /\ DOMAIN stored' = 1..(Len(stored) + 1) /\ stored'[Len(stored) + 1] = x
        /\ \A i \in 1..Len(stored) : stored'[i] = stored[i]
    BY <1>2, <2>4, <2>6
  <2>8. /\ \A i \in DOMAIN stored : i \in DOMAIN stored' /\ stored'[i] = stored[i]
        /\ \A i \in DOMAIN stored' : i \in DOMAIN stored \/ i = Len(stored) + 1
        /\ Len(stored) + 1 \in DOMAIN stored'
    BY <2>7
  <2>9. \A i \in DOMAIN stored' :
          stored'[i].alert \in 1..sent /\ stored'[i].alert <= u.got
    BY <1>2, <1>3, <2>2, <2>5, <2>7, <2>8
  <2>10. \A i \in DOMAIN stored : stored[i].alert # x.alert
    BY <1>1, <1>2, <2>2, <2>5
  <2>11. \A i, j \in DOMAIN stored' : stored'[i].alert = stored'[j].alert => i = j
    BY <1>2, <2>7, <2>8, <2>10
  <2>12. \A i \in DOMAIN stored' : stored'[i].photo \in {NoAlert, stored'[i].alert}
    BY <1>2, <2>5, <2>7, <2>8
  <2> QED BY <2>5, <2>7, <2>8, <2>9, <2>11, <2>12 DEF Grown
<1> QED BY <1>4, <1>5

(* A move that stores what the connection has read.                         *)
LEMMA MoveStores ==
  ASSUME SupervisorInv, NEW s, NEW t, Moves(s, t), Grown(tasks[s]), Ahead(t)', ReadSoFar(t)'
  PROVE  SupervisorInv'
<1>1. /\ sent' = sent /\ \A x \in Slots : tasks'[x] = IF x = s THEN t ELSE tasks[x]
      /\ s \in Slots /\ Running(tasks[s])
  BY DEF Moves
<1>2. \A x \in Slots : x # s => tasks'[x].pc = "none" /\ tasks'[x].pending = NoAlert
  <2> SUFFICES ASSUME NEW x \in Slots, x # s
               PROVE  tasks[x].pc = "none" /\ tasks[x].pending = NoAlert
    BY <1>1
  <2>1. tasks[x].pc = "none" BY <1>1 DEF SupervisorInv, Owners, Running
  <2> QED BY <2>1, TaskFacts DEF Ahead
<1>3. Streams'
  <2>1. Ahead(t)' /\ \A u : u.pc = "none" /\ u.pending = NoAlert => Ahead(u)'
    BY DEF Ahead
  <2>2. ASSUME NEW x \in Slots PROVE Ahead(tasks[x])'
    <3>1. CASE x = s BY <1>1, <2>1, <3>1 DEF Ahead
    <3>2. CASE x # s BY <1>2, <2>2, <3>2 DEF Ahead
    <3> QED BY <3>1, <3>2
  <2>3. \A x \in Slots : tasks'[x].pc = "stream" =>
          \A a \in (tasks'[x].base + 1)..tasks'[x].got :
            \/ \E i \in DOMAIN stored' : stored'[i].alert = a
            \/ a = tasks'[x].got /\ tasks'[x].pending = a
    BY <1>1, <1>2 DEF ReadSoFar
  <2>4. StoredOnceWithOwnPhoto' BY <2>3 DEF Grown, StoredOnceWithOwnPhoto
  <2>5. \A i \in DOMAIN stored' : stored'[i].alert \in 1..sent' BY <1>1 DEF Grown
  <2> QED BY <2>2, <2>4, <2>5 DEF Streams
<1> QED BY <1>3, MoveKeeps DEF Grown

(* The next marking waits; the one before it is stored without a photo.     *)
LEMMA ReadAlertKeeps ==
  ASSUME SupervisorInv, NEW s \in Slots, ReadAlert(s)
  PROVE  SupervisorInv'
<1>u. PICK u : u = tasks[s] OBVIOUS
<1>0. /\ u \in Tasks /\ u.pc = "stream" /\ u.got < sent /\ sent \in Nat /\ u.got \in Nat
      /\ ReadSoFar(u) /\ u.base \in Nat
  BY <1>u, TaskFacts DEF ReadAlert
<1>1. PICK t : t = [u EXCEPT !.got = u.got + 1, !.pending = u.got + 1] OBVIOUS
<1>2. /\ t \in Tasks /\ t.pc = "stream" /\ t.cfg = u.cfg /\ t.cancelled = u.cancelled
      /\ t.base = u.base /\ t.got = u.got + 1 /\ t.pending = u.got + 1
  <2>1. PICK n : n = u.got + 1 OBVIOUS
  <2>2. n \in Nat BY <1>0, <2>1
  <2>3. t = [u EXCEPT !.got = n, !.pending = n] BY <1>1, <2>1
  <2> QED BY <1>0, <2>1, <2>2, <2>3 DEF Tasks
<1>3. tasks' = [tasks EXCEPT ![s] = t] BY <1>u, <1>1 DEF ReadAlert
<1>4. Rest /\ sent' = sent
  <2>1. row' = row \/ \E v \in Conns : row' = [row EXCEPT !.conn = v]
    <3>1. row' = [row EXCEPT !.conn = IF row.conn = "stale" THEN "online" ELSE row.conn]
      BY DEF ReadAlert, touch_last_seen
    <3>2. row.conn \in Conns BY DEF SupervisorInv, Types, TypeOK, Conns
    <3> QED BY <3>1, <3>2 DEF Conns
  <2> QED BY <2>1, Outsiders DEF ReadAlert, Elsewhere, Untouched, device
<1>5. Running(tasks[s]) /\ GoesOn(tasks[s], t) BY <1>u, <1>0, <1>2 DEF Running, GoesOn
<1>6. t.pc \notin Pushing /\ t.got <= sent /\ t.pending <= sent BY <1>0, <1>2 DEF Pushing
<1>7. Moves(s, t) BY <1>2, <1>3, <1>4, <1>5, <1>6, MoveFrame
<1>8. Grown(u) BY <1>u, <1>0, PairGrows DEF ReadAlert
<1>9. Ahead(t)'
  <2>1. \A i \in DOMAIN stored' : stored'[i].alert \in Nat /\ stored'[i].alert <= u.got
    BY <1>8 DEF Grown
  <2>2. \A i \in DOMAIN stored' : stored'[i].alert < t.got BY <1>0, <1>2, <2>1
  <2> QED BY <1>0, <1>2, <2>1, <2>2 DEF Ahead
<1>10. ReadSoFar(t)'
  <2>1. ASSUME NEW a \in (t.base + 1)..t.got, a # t.got
        PROVE  \E i \in DOMAIN stored' : stored'[i].alert = a
    <3>1. a \in (u.base + 1)..u.got BY <1>0, <1>2, <2>1
    <3>2. (\E i \in DOMAIN stored : stored[i].alert = a) \/ (a = u.got /\ u.pending = a)
      BY <1>0, <3>1 DEF ReadSoFar
    <3>3. a # NoAlert BY <1>0, <3>1 DEF NoAlert
    <3> QED BY <1>8, <3>2, <3>3 DEF Grown
  <2> QED BY <1>2, <2>1 DEF ReadSoFar
<1> QED BY <1>u, <1>7, <1>8, <1>9, <1>10, MoveStores

(* A photo goes to the marking that waits for it, and to no other.          *)
LEMMA ReadPhotoKeeps ==
  ASSUME SupervisorInv, NEW s \in Slots, ReadPhoto(s)
  PROVE  SupervisorInv'
<1>u. PICK u : u = tasks[s] OBVIOUS
<1>0. /\ u \in Tasks /\ u.pc = "stream" /\ u.got <= sent /\ sent \in Nat /\ u.got \in Nat
      /\ ReadSoFar(u) /\ u.base \in Nat
  BY <1>u, TaskFacts DEF ReadPhoto
<1>1. PICK t : t = [u EXCEPT !.pending = 0] OBVIOUS
<1>2. /\ t \in Tasks /\ t.pc = "stream" /\ t.cfg = u.cfg /\ t.cancelled = u.cancelled
      /\ t.base = u.base /\ t.got = u.got /\ t.pending = 0
  BY <1>0, <1>1 DEF Tasks
<1>3. tasks' = [tasks EXCEPT ![s] = t] BY <1>u, <1>1 DEF ReadPhoto, NoAlert
<1>4. Rest /\ sent' = sent
  <2>1. row' = row \/ \E v \in Conns : row' = [row EXCEPT !.conn = v]
    <3>1. row' = [row EXCEPT !.conn = IF row.conn = "stale" THEN "online" ELSE row.conn]
      BY DEF ReadPhoto, touch_last_seen
    <3>2. row.conn \in Conns BY DEF SupervisorInv, Types, TypeOK, Conns
    <3> QED BY <3>1, <3>2 DEF Conns
  <2> QED BY <2>1, Outsiders DEF ReadPhoto, Elsewhere, Untouched, device
<1>5. Running(tasks[s]) /\ GoesOn(tasks[s], t) BY <1>u, <1>0, <1>2 DEF Running, GoesOn
<1>6. t.pc \notin Pushing /\ t.got <= sent /\ t.pending <= sent BY <1>0, <1>2 DEF Pushing
<1>7. Moves(s, t) BY <1>2, <1>3, <1>4, <1>5, <1>6, MoveFrame
<1>8. Grown(u) BY <1>u, <1>0, PairGrows DEF ReadPhoto
<1>9. Ahead(t)' BY <1>2, <1>8 DEF Ahead, Grown, NoAlert
<1>10. ReadSoFar(t)'
  <2>1. ASSUME NEW a \in (t.base + 1)..t.got
        PROVE  \E i \in DOMAIN stored' : stored'[i].alert = a
    <3>1. a \in (u.base + 1)..u.got BY <1>0, <1>2, <2>1
    <3>2. (\E i \in DOMAIN stored : stored[i].alert = a) \/ (a = u.got /\ u.pending = a)
      BY <1>0, <3>1 DEF ReadSoFar
    <3>3. a # NoAlert BY <1>0, <3>1 DEF NoAlert
    <3> QED BY <1>8, <3>2, <3>3 DEF Grown
  <2> QED BY <1>2, <2>1 DEF ReadSoFar
<1> QED BY <1>u, <1>7, <1>8, <1>9, <1>10, MoveStores

(* A clean end of the stream keeps the marking that waits.                  *)
LEMMA EndsWellKeeps ==
  ASSUME SupervisorInv, NEW s \in Slots, EndsWell(s)
  PROVE  SupervisorInv'
<1>u. PICK u : u = tasks[s] OBVIOUS
<1>0. u \in Tasks /\ u.pc = "stream" /\ sent \in Nat BY <1>u, TaskFacts DEF EndsWell, At
<1>1. PICK t : t = Disconnected(u, "backoff") OBVIOUS
<1>2. /\ t \in Tasks /\ t.pc = "backoff" /\ t.cfg = u.cfg /\ t.cancelled = u.cancelled
      /\ t.base = 0 /\ t.got = 0 /\ t.pending = 0
  BY <1>0, <1>1, Forgotten DEF TaskPcs
<1>3. tasks' = [tasks EXCEPT ![s] = t] BY <1>u, <1>1 DEF EndsWell
<1>4. Rest /\ sent' = sent BY Outsiders DEF EndsWell, Elsewhere, Untouched, device
<1>5. Running(tasks[s]) /\ GoesOn(tasks[s], t) BY <1>u, <1>0, <1>2 DEF Running, GoesOn
<1>6. t.pc \notin Pushing /\ t.got <= sent /\ t.pending <= sent BY <1>0, <1>2 DEF Pushing
<1>7. Moves(s, t) BY <1>2, <1>3, <1>4, <1>5, <1>6, MoveFrame
<1>8. Grown(u) BY <1>u, <1>0, PairGrows DEF EndsWell
<1>9. Ahead(t)' /\ ReadSoFar(t)' BY <1>2 DEF Ahead, ReadSoFar, NoAlert
<1> QED BY <1>u, <1>7, <1>8, <1>9, MoveStores

-----------------------------------------------------------------------------
(* The handlers.                                                            *)

(* What a handler of the device leaves to show.                             *)
LEMMA HandlerKeeps ==
  ASSUME SupervisorInv,
         UNCHANGED <<budget, mode, sup, handle, shutdown, tasks, device, stored, command>>,
         row' \in [status: Statuses, deleted: BOOLEAN, cfg: Configs, dir: Directions,
                   conn: Conns, version: Nat \ {0}],
         row'.conn = row.conn, chan' \in Seq(Events), sup.pc # "boot",
         reqs' \in [Clients -> Requests], asked' \in 0..budget.requests,
         lost' \in BOOLEAN, faults' = faults \/ Fault,
         Versions', Snapshots', Told'
  PROVE  SupervisorInv'
<1>0. Types BY DEF SupervisorInv
<1> USE DEF device, command
<1>1. faults \in 0..budget.faults /\ budget.faults \in Nat
  BY <1>0, BudgetTypes DEF Types, TypeOK
<1>2. faults' \in 0..budget.faults /\ (faults' = 0 => faults = 0) BY <1>1 DEF Fault
<1>3. row'.version \in 1..(budget.requests + 1)
  <2>1. row'.version \in Nat \ {0} OBVIOUS
  <2>2. IsFiniteSet(Asked') /\ row'.version + Cardinality(Asked') <= asked' + 1
    BY DEF Versions
  <2>3. Cardinality(Asked') \in Nat BY <2>2, FS_CardinalityType
  <2>4. budget.requests \in Nat BY <1>0, BudgetTypes
  <2> QED BY <2>1, <2>2, <2>3, <2>4
<1>4. Types'
  <2>1. row' \in Rows BY <1>3 DEF Rows
  <2>2. \A c \in Clients : reqs'[c].pc \in {"idle", "asked", "committed"}
    BY DEF Requests, Pcs
  <2>3. TypeOK'
    BY <1>0, <1>2, <2>1, <2>2 DEF Types, TypeOK, Rows, Statuses, Conns, Events
  <2> QED BY <1>0, <2>3 DEF Types, Commands
<1>5. Owners' BY DEF SupervisorInv, Owners, Running
<1>6. Offline' BY <1>2 DEF SupervisorInv, Offline, Running
<1>7. Streams' BY DEF SupervisorInv, Streams, StoredOnceWithOwnPhoto, Ahead
<1>8. Audited'
  BY <1>0, FaultsGrow, TrailLasts DEF SupervisorInv, Audited, Commands
<1> QED BY <1>4, <1>5, <1>6, <1>7, <1>8 DEF SupervisorInv

(* The request of one client changes.                                       *)
Writes(c, q) ==
  /\ c \in Clients /\ q \in Requests /\ reqs' \in [Clients -> Requests]
  /\ \A x \in Clients : reqs'[x] = IF x = c THEN q ELSE reqs[x]

(* An EXCEPT on the requests, point by point.                               *)
LEMMA RequestWritten ==
  ASSUME Types, NEW c \in Clients, NEW q \in Requests, reqs' = [reqs EXCEPT ![c] = q]
  PROVE  Writes(c, q)
<1>1. reqs \in [Clients -> Requests] BY DEF Types
<1> QED BY <1>1 DEF Writes

(* An idle request, and one whose statement has committed.                  *)
LEMMA RequestForms ==
  /\ NoRequest \in Requests /\ NoRequest.pc = "idle"
  /\ \A r \in Requests : \A q : q = [r EXCEPT !.pc = "committed"] =>
       /\ q \in Requests /\ q.pc = "committed" /\ q.op = r.op /\ q.cfg = r.cfg
       /\ q.status = r.status
<1>1. NoRequest \in Requests /\ NoRequest.pc = "idle"
  BY DEF NoRequest, Requests, Pcs, Configs, Statuses
<1>2. ASSUME NEW r \in Requests, NEW q, q = [r EXCEPT !.pc = "committed"]
      PROVE  /\ q \in Requests /\ q.pc = "committed" /\ q.op = r.op /\ q.cfg = r.cfg
             /\ q.status = r.status
  BY <1>2 DEF Requests, Pcs
<1> QED BY <1>1, <1>2

(* Requests that ask are counted: one more, one less.                       *)
LEMMA OneMoreAsks ==
  ASSUME SupervisorInv, NEW c, NEW q, Writes(c, q), reqs[c].pc # "asked", q.pc = "asked",
         row'.version = row.version, asked' = asked + 1
  PROVE  Versions'
<1>1. IsFiniteSet(Asked) /\ row.version + Cardinality(Asked) <= asked + 1
  BY DEF SupervisorInv, Versions
<1>2. Asked' = Asked \cup {c} /\ c \notin Asked BY DEF Writes, Asked
<1>3. Cardinality(Asked) \in Nat BY <1>1, FS_CardinalityType
<1>4. IsFiniteSet(Asked \cup {c}) /\ Cardinality(Asked \cup {c}) = Cardinality(Asked) + 1
  BY <1>1, <1>2, FS_AddElement
<1>5. row.version \in Nat /\ asked \in Nat
  BY BudgetTypes DEF SupervisorInv, Types, TypeOK
<1>6. PICK n : n = Cardinality(Asked) OBVIOUS
<1>7. Cardinality(Asked') = n + 1 /\ IsFiniteSet(Asked') BY <1>2, <1>4, <1>6
<1>8. row.version + (n + 1) <= (asked + 1) + 1 BY <1>1, <1>3, <1>5, <1>6
<1> QED BY <1>7, <1>8 DEF Versions

(* A request that is answered gives its place to the version it commits.    *)
LEMMA OneLessAsks ==
  ASSUME SupervisorInv, NEW c, NEW q, Writes(c, q), reqs[c].pc = "asked", q.pc # "asked",
         row'.version \in {row.version, row.version + 1}, asked' = asked
  PROVE  Versions'
<1>1. IsFiniteSet(Asked) /\ row.version + Cardinality(Asked) <= asked + 1
  BY DEF SupervisorInv, Versions
<1>2. Asked' = Asked \ {c} /\ c \in Asked BY DEF Writes, Asked
<1>3. Cardinality(Asked) \in Nat BY <1>1, FS_CardinalityType
<1>4. IsFiniteSet(Asked \ {c}) /\ Cardinality(Asked \ {c}) = Cardinality(Asked) - 1
  BY <1>1, <1>2, FS_RemoveElement
<1>5. row.version \in Nat /\ asked \in Nat
  BY BudgetTypes DEF SupervisorInv, Types, TypeOK
<1>6. PICK n : n = Cardinality(Asked) OBVIOUS
<1>7. Cardinality(Asked') = n - 1 /\ IsFiniteSet(Asked') BY <1>2, <1>4, <1>6
<1>8. row'.version + (n - 1) <= asked + 1 BY <1>1, <1>3, <1>5, <1>6
<1> QED BY <1>7, <1>8 DEF Versions

(* A step of a request that does not ask.                                   *)
LEMMA AsManyAsk ==
  ASSUME SupervisorInv, NEW c, NEW q, Writes(c, q), reqs[c].pc # "asked", q.pc # "asked",
         row' = row, asked' = asked
  PROVE  Versions'
<1>1. Asked' = Asked BY DEF Writes, Asked
<1> QED BY <1>1 DEF SupervisorInv, Versions

(* A request is read, with the row it was read against.                     *)
LEMMA AskKeeps ==
  ASSUME SupervisorInv, NEW c \in Clients, NEW op, NEW value, Ask(c, op, value),
         \/ op = "create" /\ value \in Configs
         \/ op = "cfg" /\ value \in Configs /\ row.status # "absent"
         \/ op = "direction" /\ value \in Directions /\ row.status # "absent"
         \/ op = "status" /\ value \in {"active", "inactive"} /\ row.status # "absent"
         \/ op = "delete" /\ value = 0 /\ row.status # "absent"
  PROVE  SupervisorInv'
<1>0. Types BY DEF SupervisorInv
<1>1. PICK q : q = [pc |-> "asked", op |-> op, value |-> value, version |-> row.version,
                    cfg |-> row.cfg, status |-> row.status]
  OBVIOUS
<1>2. row \in Rows /\ row.version \in Nat \ {0}
  BY <1>0, BudgetTypes DEF Types, TypeOK, Rows, Statuses, Conns
<1>3. q \in Requests BY <1>1, <1>2 DEF Requests, Pcs, Rows
<1>4. /\ q.pc = "asked" /\ q.op = op /\ q.value = value /\ q.version = row.version
      /\ q.cfg = row.cfg /\ q.status = row.status
  BY <1>1
<1>5. /\ reqs' = [reqs EXCEPT ![c] = q] /\ asked' = asked + 1 /\ reqs[c].pc = "idle"
      /\ sup.pc # "boot" /\ asked < budget.requests
      /\ UNCHANGED <<db, super, tasks, device, stored, command, lost, faults>>
  BY <1>1 DEF Ask, Serving
<1>6. Writes(c, q) BY <1>0, <1>3, <1>5, RequestWritten
<1>7. Versions' BY <1>4, <1>5, <1>6, OneMoreAsks DEF db
<1>8. Snapshots'
  <2>1. Snapshot(q)' BY <1>2, <1>4, <1>5 DEF Snapshot, db, Rows
  <2>2. \A x \in Clients : x # c /\ reqs[x].pc = "asked" => Snapshot(reqs[x])'
    BY <1>5, <1>6 DEF SupervisorInv, Snapshots, Snapshot, db, Writes
  <2> QED BY <1>6, <2>1, <2>2 DEF Snapshots, Writes, Snapshot
<1>9. Told'
  <2>1. Signalled => Signalled' BY <1>5, <1>6 DEF Signalled, Signals, Writes, db, super
  <2> QED BY <1>5, <2>1 DEF SupervisorInv, Told, Outdated, db, super
<1>10. asked' \in 0..budget.requests BY <1>0, <1>5, BudgetTypes DEF Types, TypeOK
<1>11. row' \in [status: Statuses, deleted: BOOLEAN, cfg: Configs, dir: Directions,
                 conn: Conns, version: Nat \ {0}]
  BY <1>2, <1>5 DEF Rows, db
<1> QED
  BY <1>0, <1>5, <1>6, <1>7, <1>8, <1>9, <1>10, <1>11, HandlerKeeps
  DEF db, super, Types, TypeOK, Events, Writes

(* A refused request changes nothing.                                       *)
LEMMA RefuseKeeps ==
  ASSUME SupervisorInv, NEW c \in Clients, reqs[c].pc = "asked", Refuse(c)
  PROVE  SupervisorInv'
<1>0. Types BY DEF SupervisorInv
<1>1. PICK q : q = NoRequest OBVIOUS
<1>2. q \in Requests /\ q.pc = "idle" BY <1>1, RequestForms
<1>3. /\ reqs' = [reqs EXCEPT ![c] = q] /\ asked' = asked
      /\ UNCHANGED <<db, super, tasks, device, stored, command, lost, faults>>
  BY <1>1 DEF Refuse
<1>4. Writes(c, q) BY <1>0, <1>2, <1>3, RequestWritten
<1>5. row \in Rows /\ row.version \in Nat \ {0} /\ row' = row
  BY <1>0, <1>3, BudgetTypes DEF Types, TypeOK, Rows, Statuses, Conns, db
<1>6. Versions' BY <1>2, <1>3, <1>4, <1>5, OneLessAsks
<1>7. Snapshots'
  BY <1>2, <1>4, <1>5 DEF SupervisorInv, Snapshots, Snapshot, Writes
<1>8. Told'
  <2>1. Signalled => Signalled'
    BY <1>3, <1>4, <1>5 DEF Signalled, Signals, Writes, super
  <2> QED BY <1>3, <1>5, <2>1 DEF SupervisorInv, Told, Outdated, super
<1>9. sup.pc # "boot" BY DEF SupervisorInv, Owners
<1>10. row' \in [status: Statuses, deleted: BOOLEAN, cfg: Configs, dir: Directions,
                 conn: Conns, version: Nat \ {0}]
  BY <1>5 DEF Rows
<1> QED
  BY <1>0, <1>3, <1>4, <1>5, <1>6, <1>7, <1>8, <1>9, <1>10, HandlerKeeps
  DEF db, super, Types, TypeOK, Events, Writes

(* A committed statement: a task that is no longer the row's has a handler  *)
(* that will say so.                                                        *)
Reports(c, r) ==
  handle # 0 /\ (r.status # row.status \/ r.cfg # row.cfg) =>
    \/ reqs[c].op = "delete"
    \/ reqs[c].op \in {"cfg", "status"} /\ (reqs[c].cfg # r.cfg \/ reqs[c].status # r.status)
(* A statement that commits keeps what the other requests have read.        *)
LEMMA ReplyKeeps ==
  ASSUME SupervisorInv, NEW c \in Clients, reqs[c].pc = "asked",
         NEW r \in [status: Statuses, deleted: BOOLEAN, cfg: Configs, dir: Directions,
                    conn: Conns, version: Nat \ {0}],
         Reply(c, r), r.conn = row.conn, r.version \in {row.version, row.version + 1},
         r.status # "absent", Reports(c, r),
         \A x \in Clients : x # c /\ reqs[x].pc = "asked" => Snapshot(reqs[x])'
  PROVE  SupervisorInv'
<1>0. Types /\ reqs[c] \in Requests BY DEF SupervisorInv, Types
<1>1. PICK q : q = [reqs[c] EXCEPT !.pc = "committed"] OBVIOUS
<1>2. /\ q \in Requests /\ q.pc = "committed" /\ q.op = reqs[c].op /\ q.cfg = reqs[c].cfg
      /\ q.status = reqs[c].status
  BY <1>0, <1>1, RequestForms
<1>3. /\ row' = r /\ reqs' = [reqs EXCEPT ![c] = q] /\ asked' = asked
      /\ UNCHANGED <<budget, mode, super, tasks, device, stored, command, lost, faults>>
  BY <1>1 DEF Reply
<1>4. Writes(c, q) BY <1>0, <1>2, <1>3, RequestWritten
<1>6. Versions' BY <1>2, <1>3, <1>4, OneLessAsks
<1>7. Snapshots' BY <1>2, <1>4 DEF Snapshots, Snapshot, Writes
<1>8. Told'
  <2>1. CASE r.status = row.status /\ r.cfg = row.cfg
    <3>1. Signalled => Signalled'
      BY <1>3, <1>4, <2>1 DEF Signalled, Signals, Writes, super
    <3> QED BY <1>3, <2>1, <3>1 DEF SupervisorInv, Told, Outdated, super
  <2>2. CASE handle = 0 BY <1>3, <2>2 DEF Told, Outdated, super
  <2>3. CASE handle # 0 /\ (r.status # row.status \/ r.cfg # row.cfg)
    <3>1. Signals(q)' BY <1>2, <1>3, <2>3 DEF Reports, Signals
    <3>2. reqs'[c] = q BY <1>4 DEF Writes
    <3>3. Signalled' BY <3>1, <3>2 DEF Signalled, Signals
    <3> QED BY <1>3, <3>3 DEF Told
  <2> QED BY <2>1, <2>2, <2>3
<1>9. sup.pc # "boot" BY DEF SupervisorInv, Owners
<1> QED
  BY <1>0, <1>3, <1>4, <1>6, <1>7, <1>8, <1>9, HandlerKeeps
  DEF super, Types, TypeOK, Events, Writes

(* A row as a record of its fields.                                         *)
LEMMA RowFacts ==
  ASSUME SupervisorInv
  PROVE  /\ row \in [status: Statuses, deleted: BOOLEAN, cfg: Configs, dir: Directions,
                     conn: Conns, version: Nat \ {0}]
         /\ row.version \in Nat
         /\ row.version + 1 \in Nat \ {0}
         /\ row.status = "absent" => handle = 0
<1>1. row \in Rows BY DEF SupervisorInv, Types, TypeOK, Rows, Statuses, Conns
<1>2. row.version \in Nat \ {0} BY <1>1, BudgetTypes DEF Rows, SupervisorInv
<1>3. row.status = "absent" => handle = 0 BY DEF SupervisorInv, Told
<1> QED BY <1>1, <1>2, <1>3 DEF Rows

(* The first registration; of two requests the second is refused.           *)
LEMMA CreateKeeps ==
  ASSUME SupervisorInv, NEW c \in Clients, create_queued(c)
  PROVE  SupervisorInv'
<1>0. PICK r : r = [row EXCEPT !.status = "active", !.cfg = reqs[c].value] OBVIOUS
<1>1. reqs[c].pc = "asked" /\ reqs[c].op = "create" BY DEF create_queued
<1>2. CASE row.status # "absent" BY <1>1, <1>2, RefuseKeeps DEF create_queued
<1>3. CASE row.status = "absent"
  <2>1. Reply(c, r) BY <1>0, <1>3 DEF create_queued
  <2>2. reqs[c].value \in Configs BY <1>1 DEF SupervisorInv, Snapshots, Snapshot
  <2>3. /\ r \in [status: Statuses, deleted: BOOLEAN, cfg: Configs, dir: Directions,
                  conn: Conns, version: Nat \ {0}]
        /\ r.conn = row.conn /\ r.version = row.version /\ r.status = "active"
    BY <1>0, <2>2, RowFacts DEF Statuses
  <2>4. Reports(c, r) BY <1>3, RowFacts DEF Reports
  <2>5. \A x \in Clients : x # c /\ reqs[x].pc = "asked" => Snapshot(reqs[x])'
    <3>1. reqs' = [reqs EXCEPT ![c].pc = "committed"] BY <2>1 DEF Reply
    <3>2. \A x \in Clients : x # c => reqs'[x] = reqs[x] BY <3>1 DEF SupervisorInv, Types
    <3> QED BY <1>3, <3>2 DEF SupervisorInv, Snapshots, Snapshot
  <2> QED BY <1>1, <2>1, <2>3, <2>4, <2>5, ReplyKeeps
<1> QED BY <1>2, <1>3

(* After a commit the snapshots of the others are older than the row.       *)
LEMMA OthersAreOlder ==
  ASSUME SupervisorInv, NEW c \in Clients, NEW r, Reply(c, r),
         r.version = row.version + 1, r.status # "absent"
  PROVE  \A x \in Clients : x # c /\ reqs[x].pc = "asked" => Snapshot(reqs[x])'
<1>1. reqs' = [reqs EXCEPT ![c].pc = "committed"] /\ row' = r BY DEF Reply
<1>2. \A x \in Clients : x # c => reqs'[x] = reqs[x] BY <1>1 DEF SupervisorInv, Types
<1> SUFFICES ASSUME NEW x \in Clients, x # c, reqs[x].pc = "asked" PROVE Snapshot(reqs[x])'
  OBVIOUS
<1>3. reqs'[x] = reqs[x] /\ Snapshot(reqs[x]) BY <1>2 DEF SupervisorInv, Snapshots
<1>4. reqs[x] \in Requests BY DEF SupervisorInv, Types
<1>5. reqs[x].version \in Nat BY <1>4 DEF Requests
<1>6. reqs[x].version <= row.version =>
        reqs[x].version <= r.version /\ reqs[x].version # r.version
  BY <1>5, RowFacts
<1> QED BY <1>1, <1>3, <1>6 DEF Snapshot

(* An update made against the row as it is.                                 *)
LEMMA UpdateKeeps ==
  ASSUME SupervisorInv, NEW c \in Clients, update_queued(c)
  PROVE  SupervisorInv'
<1>p. PICK p : p = CASE reqs[c].op = "cfg"       -> [row EXCEPT !.cfg = reqs[c].value]
                     [] reqs[c].op = "direction" -> [row EXCEPT !.dir = reqs[c].value]
                     [] reqs[c].op = "status"    -> [row EXCEPT !.status = reqs[c].value]
  OBVIOUS
<1>r. PICK r : r = [p EXCEPT !.version = row.version + 1] OBVIOUS
<1>1. reqs[c].pc = "asked" /\ reqs[c].op \in {"cfg", "direction", "status"}
  BY DEF update_queued
<1>2. \/ VersionMatches(reqs[c]) /\ Reply(c, r)
      \/ ~VersionMatches(reqs[c]) /\ Refuse(c)
  BY <1>p, <1>r DEF update_queued
<1>3. CASE ~VersionMatches(reqs[c]) BY <1>1, <1>2, <1>3, RefuseKeeps
<1>4. CASE VersionMatches(reqs[c])
  <2>1. Reply(c, r) BY <1>2, <1>4
  <2>2. reqs[c] \in Requests BY DEF SupervisorInv, Types
  <2>3. Snapshot(reqs[c]) BY <1>1 DEF SupervisorInv, Snapshots
  <2>4. row.status # "absent" /\ reqs[c].cfg = row.cfg /\ reqs[c].status = row.status
    BY <1>1, <1>4, <2>3 DEF Snapshot, VersionMatches
  <2>5. /\ p \in [status: Statuses, deleted: BOOLEAN, cfg: Configs, dir: Directions,
                  conn: Conns, version: Nat \ {0}]
        /\ p.conn = row.conn /\ p.version = row.version /\ p.status # "absent"
        /\ reqs[c].op = "direction" => p.status = row.status /\ p.cfg = row.cfg
    <3>1. CASE reqs[c].op = "cfg"
      <4>1. reqs[c].value \in Configs BY <2>3, <3>1 DEF Snapshot
      <4>2. p = [row EXCEPT !.cfg = reqs[c].value] BY <1>p, <3>1
      <4> QED BY <2>4, <3>1, <4>1, <4>2, RowFacts
    <3>2. CASE reqs[c].op = "direction"
      <4>1. reqs[c].value \in Directions BY <2>2, <3>2 DEF Requests
      <4>2. p = [row EXCEPT !.dir = reqs[c].value] BY <1>p, <3>2
      <4> QED BY <2>4, <3>2, <4>1, <4>2, RowFacts
    <3>3. CASE reqs[c].op = "status"
      <4>1. reqs[c].value \in {"active", "inactive"} BY <2>2, <3>3 DEF Requests
      <4>2. p = [row EXCEPT !.status = reqs[c].value] BY <1>p, <3>3
      <4> QED BY <2>4, <3>3, <4>1, <4>2, RowFacts DEF Statuses
    <3> QED BY <1>1, <3>1, <3>2, <3>3
  <2>6. /\ r \in [status: Statuses, deleted: BOOLEAN, cfg: Configs, dir: Directions,
                  conn: Conns, version: Nat \ {0}]
        /\ r.conn = row.conn /\ r.version = row.version + 1 /\ r.status # "absent"
        /\ r.status = p.status /\ r.cfg = p.cfg
    BY <1>r, <2>5, RowFacts
  <2>7. Reports(c, r) BY <1>1, <2>4, <2>5, <2>6 DEF Reports
  <2>8. \A x \in Clients : x # c /\ reqs[x].pc = "asked" => Snapshot(reqs[x])'
    BY <2>1, <2>6, OthersAreOlder
  <2> QED BY <1>1, <2>1, <2>6, <2>7, <2>8, ReplyKeeps
<1> QED BY <1>3, <1>4

(* The deactivation names the id only, and always reports.                  *)
LEMMA DeactivateKeeps ==
  ASSUME SupervisorInv, NEW c \in Clients, deactivate_queued(c)
  PROVE  SupervisorInv'
<1>r. PICK r : r = [row EXCEPT !.status = "inactive", !.deleted = TRUE,
                               !.version = row.version + 1]
  OBVIOUS
<1>1. reqs[c].pc = "asked" /\ reqs[c].op = "delete" BY DEF deactivate_queued
<1>2. CASE row.status # "active" BY <1>1, <1>2, RefuseKeeps DEF deactivate_queued
<1>3. CASE row.status = "active"
  <2>1. Reply(c, r) BY <1>r, <1>3 DEF deactivate_queued
  <2>2. PICK n \in Nat \ {0} : n = row.version + 1 BY RowFacts
  <2>3. r = [row EXCEPT !.status = "inactive", !.deleted = TRUE, !.version = n]
    BY <1>r, <2>2
  <2>4. /\ r \in [status: Statuses, deleted: BOOLEAN, cfg: Configs, dir: Directions,
                  conn: Conns, version: Nat \ {0}]
        /\ r.conn = row.conn /\ r.version = n /\ r.status = "inactive"
    BY <2>3, RowFacts DEF Statuses
  <2>5. Reports(c, r) BY <1>1 DEF Reports
  <2>6. \A x \in Clients : x # c /\ reqs[x].pc = "asked" => Snapshot(reqs[x])'
    BY <2>1, <2>2, <2>4, OthersAreOlder
  <2> QED BY <1>1, <2>1, <2>2, <2>4, <2>5, <2>6, ReplyKeeps
<1> QED BY <1>2, <1>3

(* A report reaches the channel after the commit.                           *)
LEMMA EmitKeeps ==
  ASSUME SupervisorInv, NEW c \in Clients, emit_lifecycle(c)
  PROVE  SupervisorInv'
<1>0. Types BY DEF SupervisorInv
<1>e. PICK e : e = LifecycleEvent(reqs[c]) OBVIOUS
<1>1. PICK q : q = NoRequest OBVIOUS
<1>2. q \in Requests /\ q.pc = "idle" BY <1>1, RequestForms
<1>3. /\ reqs[c].pc = "committed" /\ reqs' = [reqs EXCEPT ![c] = q] /\ chan' = chan \o e
      /\ asked' = asked
      /\ UNCHANGED <<db, sup, handle, shutdown, tasks, device, stored, command, lost, faults>>
  BY <1>1, <1>e DEF emit_lifecycle
<1>4. Writes(c, q) BY <1>0, <1>2, <1>3, RequestWritten
<1>5. row' = row /\ row'.version = row.version BY <1>3 DEF db
<1>6. Versions' BY <1>2, <1>3, <1>4, <1>5, AsManyAsk
<1>7. Snapshots'
  BY <1>2, <1>4, <1>5 DEF SupervisorInv, Snapshots, Snapshot, Writes
<1>8. /\ e \in {<<>>, <<"Start">>, <<"Stop">>, <<"Restart">>}
      /\ Signals(reqs[c]) => e \in {<<"Stop">>, <<"Restart">>}
  BY <1>e DEF LifecycleEvent, Signals
<1>9. chan \in Seq(Events) /\ e \in Seq(Events)
  <2>1. chan \in Seq(Events) BY <1>0 DEF Types, TypeOK, Events
  <2>2. "Start" \in Events /\ "Stop" \in Events /\ "Restart" \in Events BY DEF Events
  <2>3. \A v \in Events : <<v>> \in Seq(Events) OBVIOUS
  <2>4. <<>> \in Seq(Events) OBVIOUS
  <2>5. e \in Seq(Events)
    <3>1. CASE e = <<>> BY <2>4, <3>1
    <3>2. CASE e = <<"Start">> BY <2>2, <2>3, <3>2
    <3>3. CASE e = <<"Stop">> BY <2>2, <2>3, <3>3
    <3>4. CASE e = <<"Restart">> BY <2>2, <2>3, <3>4
    <3> QED BY <1>8, <3>1, <3>2, <3>3, <3>4
  <2> QED BY <2>1, <2>5
<1>10. /\ chan' \in Seq(Events) /\ Len(chan) \in Nat /\ DOMAIN chan = 1..Len(chan)
       /\ DOMAIN chan' = 1..(Len(chan) + Len(e))
       /\ \A i \in 1..Len(chan) : chan'[i] = chan[i]
       /\ \A i \in 1..Len(e) : chan'[Len(chan) + i] = e[i]
  BY <1>3, <1>9
<1>11. Signalled => Signalled'
  <2>1. Len(e) \in Nat BY <1>9
  <2>2. ASSUME NEW i \in DOMAIN chan, chan[i] # "Start" PROVE Signalled'
    BY <1>10, <2>1, <2>2 DEF Signalled
  <2>3. ASSUME Signals(reqs[c]) PROVE Signalled'
    <3>1. Len(e) = 1 /\ e[1] # "Start" BY <1>8, <2>3
    <3>2. Len(chan) + 1 \in DOMAIN chan' /\ chan'[Len(chan) + 1] = e[1] BY <1>10, <3>1
    <3> QED BY <3>1, <3>2 DEF Signalled
  <2>4. ASSUME NEW x \in Clients, x # c, Signals(reqs[x]) PROVE Signalled'
    BY <1>4, <1>5, <2>4 DEF Signalled, Signals, Writes
  <2> QED BY <2>2, <2>3, <2>4 DEF Signalled
<1>12. Told' BY <1>3, <1>5, <1>11 DEF SupervisorInv, Told, Outdated
<1>13. sup.pc # "boot" BY <1>3 DEF SupervisorInv, Owners
<1> QED
  BY <1>0, <1>3, <1>4, <1>5, <1>6, <1>7, <1>10, <1>12, <1>13, RowFacts, HandlerKeeps
  DEF db, Types, TypeOK, Events, Writes

(* A dropped handler: from here on the supervisor may have missed a report. *)
LEMMA DropKeeps ==
  ASSUME SupervisorInv, NEW c \in Clients, DropRequest(c)
  PROVE  SupervisorInv'
<1>0. Types BY DEF SupervisorInv
<1>1. PICK q : q = NoRequest OBVIOUS
<1>2. q \in Requests /\ q.pc = "idle" BY <1>1, RequestForms
<1>3. /\ reqs[c].pc = "committed" /\ reqs' = [reqs EXCEPT ![c] = q] /\ lost' = TRUE
      /\ asked' = asked /\ Fault
      /\ UNCHANGED <<db, super, tasks, device, stored, command>>
  BY <1>1 DEF DropRequest
<1>4. Writes(c, q) BY <1>0, <1>2, <1>3, RequestWritten
<1>5. row' = row /\ row'.version = row.version BY <1>3 DEF db
<1>6. Versions' BY <1>2, <1>3, <1>4, <1>5, AsManyAsk
<1>7. Snapshots'
  BY <1>2, <1>4, <1>5 DEF SupervisorInv, Snapshots, Snapshot, Writes
<1>8. Told' BY <1>3, <1>5 DEF SupervisorInv, Told, super
<1>9. sup.pc # "boot" BY <1>3 DEF SupervisorInv, Owners
<1> QED
  BY <1>0, <1>3, <1>4, <1>5, <1>6, <1>7, <1>8, <1>9, RowFacts, HandlerKeeps
  DEF db, super, Types, TypeOK, Events, Writes

-----------------------------------------------------------------------------
(* The supervisor.                                                          *)

(* What spawn_device does when the map has no task.                         *)
LEMMA Spawns ==
  ASSUME SupervisorInv, spawn_device, handle = 0,
         \A x \in Slots : ~Running(tasks[x])
  PROVE  \E s \in Slots : \E t \in Tasks :
           /\ handle' = s /\ tasks' = [tasks EXCEPT ![s] = t]
           /\ t.pc = FirstStep /\ t.cfg = row.cfg /\ t.cancelled = shutdown
           /\ t.base = 0 /\ t.got = 0 /\ t.pending = 0
<1>1. PICK s : s = CHOOSE i \in Slots : ~Running(tasks[i]) OBVIOUS
<1>2. s \in Slots
  <2>1. \E i \in Slots : ~Running(tasks[i]) BY DEF Slots
  <2> QED BY <1>1, <2>1
<1>3. PICK t : t = [NoTask EXCEPT !.pc = FirstStep, !.cfg = row.cfg, !.dir = row.dir,
                                  !.cancelled = shutdown]
  OBVIOUS
<1>4. /\ NoTask \in Tasks /\ NoTask.base = 0 /\ NoTask.got = 0 /\ NoTask.pending = 0
  BY SupervisorAssumption DEF NoTask, Tasks, TaskPcs, Configs, NoAlert
<1>5. row.cfg \in Configs /\ row.dir \in Directions /\ shutdown \in BOOLEAN
  BY RowFacts DEF SupervisorInv, Types, TypeOK
<1>6. FirstStep \in TaskPcs BY DEF FirstStep, TaskPcs
<1>7. /\ t \in Tasks /\ t.pc = FirstStep /\ t.cfg = row.cfg /\ t.cancelled = shutdown
      /\ t.base = 0 /\ t.got = 0 /\ t.pending = 0
  <2> HIDE DEF FirstStep
  <2> QED BY <1>3, <1>4, <1>5, <1>6 DEF Tasks
<1>8. handle' = s /\ tasks' = [tasks EXCEPT ![s] = t] BY <1>1, <1>3 DEF spawn_device
<1> QED BY <1>2, <1>7, <1>8

(* The supervisor goes back to its loop, with a new task or without.        *)
LEMMA LoopKeeps ==
  ASSUME SupervisorInv, sup.pc \in {"boot", "handle"},
         \A x \in Slots : ~tasks[x].cancelled,
         sup' \in [pc: {"loop"}, ev: Events \cup {"none"}],
         UNCHANGED <<db, http, chan, shutdown, device, stored, command>>,
         lost' \in BOOLEAN, faults' = faults \/ Fault, lost' \/ ~lost \/ handle = 0,
         UNCHANGED <<handle, tasks>> \/ (row.status = "active" /\ spawn_device)
  PROVE  SupervisorInv'
<1> USE DEF db, http, device, command
<1>0. Types BY DEF SupervisorInv
<1>1. /\ faults' \in 0..budget.faults /\ (faults' = 0 => faults = 0)
  BY <1>0, BudgetTypes DEF Fault, Types, TypeOK
<1>2. sup'.pc = "loop" OBVIOUS
<1>3. Versions' /\ Snapshots' /\ Audited'
  <2>1. Versions' /\ Snapshots'
    BY DEF SupervisorInv, Versions, Asked, Snapshots, Snapshot
  <2>2. Audited' BY <1>0, FaultsGrow, TrailLasts DEF SupervisorInv, Audited, Commands
  <2> QED BY <2>1, <2>2
<1>4. CASE UNCHANGED <<handle, tasks>>
  <2>1. Types'
    <3>1. TypeOK' BY <1>0, <1>1, <1>2, <1>4 DEF Types, TypeOK
    <3> QED BY <1>0, <1>4, <3>1 DEF Types, Commands
  <2>2. Told' BY <1>4 DEF SupervisorInv, Told, Outdated, Signalled, Signals
  <2>3. Owners' BY <1>2, <1>4 DEF SupervisorInv, Owners, Running
  <2>4. Offline' BY <1>1, <1>4 DEF SupervisorInv, Offline, Running
  <2>5. Streams' BY <1>4 DEF SupervisorInv, Streams, StoredOnceWithOwnPhoto, Ahead
  <2> QED BY <1>3, <2>1, <2>2, <2>3, <2>4, <2>5 DEF SupervisorInv
<1>5. CASE handle # 0 /\ spawn_device BY <1>4, <1>5 DEF spawn_device
<1>6. CASE handle = 0 /\ row.status = "active" /\ spawn_device
  <2>1. \A x \in Slots : ~Running(tasks[x])
    BY <1>6 DEF SupervisorInv, Owners, Slots
  <2>2. PICK s \in Slots, t \in Tasks :
          /\ handle' = s /\ tasks' = [tasks EXCEPT ![s] = t]
          /\ t.pc = FirstStep /\ t.cfg = row.cfg /\ t.cancelled = shutdown
          /\ t.base = 0 /\ t.got = 0 /\ t.pending = 0
    BY <1>6, <2>1, Spawns
  <2>3. /\ \A x \in Slots : tasks'[x] = IF x = s THEN t ELSE tasks[x]
        /\ tasks' \in [Slots -> Tasks]
    BY <1>0, <2>2, TaskWritten
  <2>4. t.pc \in {"connect", "configure"} /\ (mode = "stream" => t.pc = "connect")
    BY <2>2 DEF FirstStep
  <2>5. Types'
    <3>1. sent \in Nat BY <1>0, BudgetTypes DEF Types, TypeOK
    <3>2. \A x \in Slots : tasks'[x].got \in 0..sent' /\ tasks'[x].pending \in 0..sent'
      BY <1>0, <2>2, <2>3, <3>1 DEF Types, TypeOK
    <3>3. \A x \in Slots : tasks'[x].pc \in TaskPcs /\ tasks'[x].cancelled \in BOOLEAN
      BY <2>3 DEF Tasks
    <3>4. TypeOK' BY <1>0, <1>1, <1>2, <2>2, <3>2, <3>3 DEF Types, TypeOK
    <3> QED BY <1>0, <2>3, <3>4 DEF Types, Commands
  <2>6. handle' # 0 /\ tasks'[handle'] = t BY <2>2, <2>3 DEF Slots
  <2>7. Told' BY <1>6, <2>2, <2>6 DEF Told, Outdated
  <2>8. Owners'
    <3>1. \A x \in Slots : Running(tasks'[x]) => x = s BY <2>1, <2>3
    <3>2. Running(t) BY <2>4 DEF Running
    <3>3. \A x \in Slots : tasks'[x].cancelled => Running(tasks'[x]) /\ shutdown'
      BY <2>2, <2>3, <3>2
    <3>4. Running(tasks'[handle']) BY <2>6, <3>2
    <3>5. \A x, y \in Slots : Running(tasks'[x]) /\ Running(tasks'[y]) => x = y
      BY <3>1
    <3>6. \A x \in Slots : Running(tasks'[x]) => handle' = x BY <2>2, <3>1
    <3> QED BY <1>2, <3>3, <3>4, <3>5, <3>6 DEF Owners, Running
  <2>9. Offline'
    <3>1. mode = "stream" => \A x \in Slots : tasks'[x].pc \notin Pushing
      BY <2>3, <2>4 DEF SupervisorInv, Offline, Pushing
    <3>2. tasks'[s].pc # "none" BY <2>3, <2>4
    <3> QED BY <3>1, <3>2 DEF Offline, Running
  <2>10. Streams'
    <3>1. \A x \in Slots : x # s => tasks'[x] = tasks[x] BY <2>3
    <3>2. tasks'[s] = t BY <2>3
    <3>3. Ahead(t)' BY <2>2, <2>4 DEF Ahead, NoAlert
    <3>4. \A x \in Slots : x # s => Ahead(tasks[x])'
      BY <3>1 DEF SupervisorInv, Streams, Ahead
    <3>5. \A x \in Slots : Ahead(tasks[x])' BY <3>2, <3>3, <3>4 DEF Ahead
    <3>6. \A x \in Slots : tasks'[x].pc = "stream" => x # s /\ tasks'[x] = tasks[x]
      BY <2>4, <3>1, <3>2
    <3>7. StoredOnceWithOwnPhoto'
      BY <3>6 DEF SupervisorInv, Streams, StoredOnceWithOwnPhoto
    <3> QED BY <3>5, <3>7 DEF SupervisorInv, Streams
  <2> QED BY <1>3, <2>5, <2>7, <2>8, <2>9, <2>10 DEF SupervisorInv
<1> QED BY <1>4, <1>5, <1>6

(* The start of the process.                                                *)
LEMMA BootstrapKeeps ==
  ASSUME SupervisorInv, Bootstrap
  PROVE  SupervisorInv'
<1>1. sup.pc = "boot" /\ handle = 0 BY DEF Bootstrap, SupervisorInv, Owners
<1>2. \A x \in Slots : ~tasks[x].cancelled BY <1>1 DEF SupervisorInv, Owners
<1>3. sup' \in [pc: {"loop"}, ev: Events \cup {"none"}]
  BY DEF Bootstrap, SupervisorInv, Types
<1>4. faults' = faults \/ Fault BY DEF Bootstrap
<1>5. lost' \in BOOLEAN BY DEF Bootstrap
<1>6. UNCHANGED <<handle, tasks>> \/ (row.status = "active" /\ spawn_device)
  BY DEF Bootstrap, list_active
<1>7. UNCHANGED <<db, http, chan, shutdown, device, stored, command>> BY DEF Bootstrap
<1> QED BY <1>1, <1>2, <1>3, <1>4, <1>5, <1>6, <1>7, LoopKeeps

(* The event is handled once the old task has been joined.                  *)
LEMMA HandleKeeps ==
  ASSUME SupervisorInv, handle_event
  PROVE  SupervisorInv'
<1>1. sup.pc = "handle" BY DEF handle_event
<1>2. \A x \in Slots : ~tasks[x].cancelled
  BY DEF handle_event, Joined, SupervisorInv, Owners
<1>3. sup' \in [pc: {"loop"}, ev: Events \cup {"none"}] BY DEF handle_event
<1>4. faults' = faults \/ Fault BY DEF handle_event
<1>5. lost' \in BOOLEAN /\ (lost' \/ ~lost)
  <2>1. lost' = lost \/ lost' = TRUE BY DEF handle_event
  <2>2. lost \in BOOLEAN BY DEF SupervisorInv, Types, TypeOK
  <2>3. CASE lost' = TRUE BY <2>3
  <2>4. CASE lost' = lost
    <3>1. CASE lost = TRUE BY <2>4, <3>1
    <3>2. CASE lost = FALSE BY <2>4, <3>2
    <3> QED BY <2>2, <3>1, <3>2
  <2> QED BY <2>1, <2>3, <2>4
<1>6. UNCHANGED <<handle, tasks>> \/ (row.status = "active" /\ spawn_device)
  BY DEF handle_event, get_decrypted
<1>7. UNCHANGED <<db, http, chan, shutdown, device, stored, command>> BY DEF handle_event
<1> QED BY <1>1, <1>2, <1>3, <1>4, <1>5, <1>6, <1>7, LoopKeeps

(* An event is taken; for all but a Start the task leaves the map with its  *)
(* token cancelled.                                                         *)
LEMMA ReceiveKeeps ==
  ASSUME SupervisorInv, Receive
  PROVE  SupervisorInv'
<1> USE DEF db, http, device, command
<1>0. Types BY DEF SupervisorInv
<1>1. /\ sup.pc = "loop" /\ ~shutdown /\ chan # <<>> /\ chan' = Tail(chan)
      /\ sup' = [pc |-> "handle", ev |-> Head(chan)]
      /\ UNCHANGED <<db, http, shutdown, device, stored, command, lost, faults>>
  BY DEF Receive
<1>2. Versions' /\ Snapshots' /\ Audited'
  BY <1>1 DEF SupervisorInv, Versions, Asked, Snapshots, Snapshot, Audited, Commands
<1>3. /\ chan \in Seq(Events) /\ chan' \in Seq(Events) /\ Head(chan) \in Events
      /\ Head(chan) = chan[1] /\ Len(chan) \in Nat
      /\ \A i \in DOMAIN chan : i # 1 => i - 1 \in DOMAIN chan' /\ chan'[i - 1] = chan[i]
  <2>1. chan \in Seq(Events) BY <1>0 DEF Types, TypeOK, Events
  <2>2. /\ Len(chan) \in Nat /\ Len(chan) >= 1 /\ DOMAIN chan = 1..Len(chan)
        /\ chan' \in Seq(Events) /\ DOMAIN chan' = 1..(Len(chan) - 1)
        /\ Head(chan) = chan[1] /\ Head(chan) \in Events
    BY <1>1, <2>1
  <2>3. \A i \in 1..(Len(chan) - 1) : chan'[i] = chan[i + 1] BY <1>1, <2>1
  <2> QED BY <2>1, <2>2, <2>3
<1>4. sup' \in [pc: {"boot", "loop", "handle", "done"}, ev: Events \cup {"none"}]
  BY <1>1, <1>3
<1>5. sup'.pc = "handle" BY <1>1
<1>6. \A x \in Slots : ~tasks[x].cancelled BY <1>1 DEF SupervisorInv, Owners
<1>7. CASE UNCHANGED <<handle, tasks>> /\ (Head(chan) = "Start" \/ handle = 0)
  <2>1. Types'
    <3>1. TypeOK' BY <1>0, <1>1, <1>3, <1>5, <1>7 DEF Types, TypeOK, Events
    <3> QED BY <1>0, <1>1, <1>4, <1>7, <3>1 DEF Types, Commands
  <2>2. handle # 0 => (Signalled => Signalled')
    <3>1. ASSUME Head(chan) = "Start", NEW i \in DOMAIN chan, chan[i] # "Start"
          PROVE  Signalled'
      BY <1>3, <3>1 DEF Signalled
    <3>2. ASSUME NEW c \in Clients, Signals(reqs[c]) PROVE Signalled'
      BY <1>1, <3>2 DEF Signalled, Signals
    <3> QED BY <1>7, <3>1, <3>2 DEF Signalled
  <2>3. Told' BY <1>1, <1>7, <2>2 DEF SupervisorInv, Told, Outdated
  <2>4. Owners' BY <1>1, <1>5, <1>6, <1>7 DEF SupervisorInv, Owners, Running
  <2>5. Offline' BY <1>1, <1>7 DEF SupervisorInv, Offline, Running
  <2>6. Streams' BY <1>1, <1>7 DEF SupervisorInv, Streams, StoredOnceWithOwnPhoto, Ahead
  <2> QED BY <1>2, <2>1, <2>3, <2>4, <2>5, <2>6 DEF SupervisorInv
<1>8. CASE handle # 0 /\ stop_device
  <2>h. PICK h : h = handle OBVIOUS
  <2>1. h \in Slots BY <1>0, <1>8, <2>h DEF Types, TypeOK
  <2>u. PICK u : u = tasks[h] OBVIOUS
  <2>2. u \in Tasks /\ Running(u) BY <1>0, <1>1, <1>8, <2>1, <2>h, <2>u
                                  DEF Types, SupervisorInv, Owners
  <2>t. PICK t : t = [u EXCEPT !.cancelled = TRUE] OBVIOUS
  <2>3. /\ t \in Tasks /\ t.pc = u.pc /\ t.cancelled = TRUE /\ t.base = u.base
        /\ t.got = u.got /\ t.pending = u.pending
    BY <2>2, <2>t DEF Tasks
  <2>4. handle' = 0 /\ tasks' = [tasks EXCEPT ![h] = t]
    BY <1>8, <2>h, <2>u, <2>t DEF stop_device
  <2>5. /\ \A x \in Slots : tasks'[x] = IF x = h THEN t ELSE tasks[x]
        /\ tasks' \in [Slots -> Tasks]
    BY <1>0, <2>1, <2>3, <2>4, TaskWritten
  <2>6. \A x \in Slots : /\ tasks'[x].pc = tasks[x].pc /\ tasks'[x].base = tasks[x].base
                         /\ tasks'[x].got = tasks[x].got
                         /\ tasks'[x].pending = tasks[x].pending
                         /\ (tasks'[x].cancelled <=> x = h)
    BY <1>6, <2>u, <2>3, <2>5
  <2>7. Types'
    <3>1. \A x \in Slots : tasks'[x].pc \in TaskPcs /\ tasks'[x].cancelled \in BOOLEAN
      BY <2>5 DEF Tasks
    <3>2. TypeOK' BY <1>0, <1>1, <1>3, <1>5, <2>4, <2>6, <3>1 DEF Types, TypeOK, Events
    <3> QED BY <1>0, <1>1, <1>4, <2>5, <3>2 DEF Types, Commands
  <2>8. Told' BY <2>4 DEF Told, Outdated
  <2>9. Owners'
    <3>1. \A x \in Slots : Running(tasks'[x]) <=> Running(tasks[x]) BY <2>6 DEF Running
    <3>2. \A x \in Slots : Running(tasks[x]) /\ ~tasks[x].cancelled => x = h
      BY <2>h DEF SupervisorInv, Owners
    <3>3. \A x \in Slots : Running(tasks'[x]) => tasks'[x].cancelled
      BY <1>6, <2>6, <3>1, <3>2
    <3>4. \A x \in Slots : tasks'[x].cancelled => Running(tasks'[x])
      BY <2>2, <2>6, <2>u, <3>1
    <3>5. \A x, y \in Slots : Running(tasks'[x]) /\ Running(tasks'[y]) => x = y
      BY <3>1 DEF SupervisorInv, Owners
    <3> QED BY <1>5, <2>4, <3>3, <3>4, <3>5 DEF Owners, Running
  <2>10. Offline' BY <1>1, <2>6 DEF SupervisorInv, Offline, Running
  <2>11. Streams' BY <1>1, <2>6 DEF SupervisorInv, Streams, StoredOnceWithOwnPhoto, Ahead
  <2> QED BY <1>2, <2>7, <2>8, <2>9, <2>10, <2>11 DEF SupervisorInv
<1> QED BY <1>7, <1>8 DEF Receive, stop_device

(* The shutdown token cancels the tasks that run.                           *)
LEMMA ShutdownKeeps ==
  ASSUME SupervisorInv, Shutdown
  PROVE  SupervisorInv'
<1> USE DEF db, http, device, command
<1>0. Types BY DEF SupervisorInv
<1>1. /\ shutdown' = TRUE
      /\ tasks' = [s \in Slots |->
           [tasks[s] EXCEPT !.cancelled = tasks[s].cancelled \/ Running(tasks[s])]]
      /\ UNCHANGED <<db, http, chan, sup, handle, device, stored, command, lost, faults>>
  BY DEF Shutdown
<1>2. ASSUME NEW x \in Slots
      PROVE  /\ tasks'[x] \in Tasks
             /\ tasks'[x].pc = tasks[x].pc /\ tasks'[x].base = tasks[x].base
             /\ tasks'[x].got = tasks[x].got /\ tasks'[x].pending = tasks[x].pending
             /\ (tasks'[x].cancelled <=> Running(tasks[x]))
  <2>1. PICK u : u = tasks[x] OBVIOUS
  <2>2. u \in Tasks BY <1>0, <2>1 DEF Types
  <2>3. PICK b \in BOOLEAN : b = (u.cancelled \/ Running(u)) OBVIOUS
  <2>4. tasks'[x] = [u EXCEPT !.cancelled = b] BY <1>1, <2>1, <2>3
  <2>5. /\ tasks'[x] \in Tasks /\ tasks'[x].pc = u.pc /\ tasks'[x].base = u.base
        /\ tasks'[x].got = u.got /\ tasks'[x].pending = u.pending /\ tasks'[x].cancelled = b
    BY <2>2, <2>4 DEF Tasks
  <2>6. b <=> Running(u) BY <2>1, <2>3 DEF SupervisorInv, Owners
  <2> QED BY <2>1, <2>5, <2>6
<1>3. tasks' \in [Slots -> Tasks] BY <1>1, <1>2
<1>4. Versions' /\ Snapshots' /\ Audited'
  BY <1>1 DEF SupervisorInv, Versions, Asked, Snapshots, Snapshot, Audited, Commands
<1>5. Types'
  <2>1. \A x \in Slots : tasks'[x].cancelled \in BOOLEAN BY <1>2 DEF Tasks
  <2>2. TypeOK' BY <1>0, <1>1, <1>2, <2>1 DEF Types, TypeOK
  <2> QED BY <1>0, <1>1, <1>3, <2>2 DEF Types, Commands
<1>6. Told' BY <1>1 DEF SupervisorInv, Told
<1>7. Owners'
  <2>1. \A x \in Slots : Running(tasks'[x]) <=> Running(tasks[x]) BY <1>2 DEF Running
  <2>2. \A x \in Slots : tasks'[x].cancelled <=> Running(tasks'[x]) BY <1>2, <2>1
  <2>3. \A x, y \in Slots : Running(tasks'[x]) /\ Running(tasks'[y]) => x = y
    BY <2>1 DEF SupervisorInv, Owners
  <2>4. sup.pc \in {"boot", "done"} => \A x \in Slots : ~Running(tasks'[x])
    BY <2>1 DEF SupervisorInv, Owners
  <2>5. sup.pc = "boot" =>
          handle = 0 /\ chan = <<>> /\ \A c \in Clients : reqs[c].pc = "idle"
    BY DEF SupervisorInv, Owners
  <2> QED BY <1>1, <2>2, <2>3, <2>4, <2>5 DEF Owners, Running
<1>8. Offline' BY <1>1, <1>2 DEF SupervisorInv, Offline, Running
<1>9. Streams' BY <1>1, <1>2 DEF SupervisorInv, Streams, StoredOnceWithOwnPhoto, Ahead
<1> QED BY <1>4, <1>5, <1>6, <1>7, <1>8, <1>9 DEF SupervisorInv

(* The drain ends when every task has been joined.                          *)
LEMMA DrainKeeps ==
  ASSUME SupervisorInv, Drain
  PROVE  SupervisorInv'
<1> USE DEF db, http, device, command
<1>0. Types BY DEF SupervisorInv
<1>1. /\ shutdown /\ handle' = 0 /\ sup' = [pc |-> "done", ev |-> "none"]
      /\ \A s \in Slots : ~Running(tasks[s])
      /\ UNCHANGED <<db, http, chan, shutdown, tasks, device, stored, command, lost, faults>>
  BY DEF Drain
<1>2. sup'.pc = "done" BY <1>1
<1>3. Versions' /\ Snapshots' /\ Audited'
  BY <1>1 DEF SupervisorInv, Versions, Asked, Snapshots, Snapshot, Audited, Commands
<1>4. Types'
  <2>1. TypeOK' BY <1>0, <1>1, <1>2 DEF Types, TypeOK
  <2> QED BY <1>0, <1>1, <2>1 DEF Types, Commands
<1>5. Told' BY <1>1 DEF Told, Outdated
<1>6. Owners' BY <1>1, <1>2 DEF SupervisorInv, Owners, Running
<1>7. Offline' BY <1>1 DEF SupervisorInv, Offline, Running
<1>8. Streams' BY <1>1 DEF SupervisorInv, Streams, StoredOnceWithOwnPhoto, Ahead
<1> QED BY <1>3, <1>4, <1>5, <1>6, <1>7, <1>8 DEF SupervisorInv

(* The end of the process: what is in memory is gone, a call to the reader  *)
(* is cut.                                                                  *)
LEMMA ResetKeeps ==
  ASSUME SupervisorInv, Reset, faults' \in 0..budget.faults,
         \/ faults' = faults + 1
         \/ /\ faults' = faults /\ sup.pc = "done"
            /\ \A i \in Commands : Over(cmds[i])
  PROVE  SupervisorInv'
<1> USE DEF db, device
<1>0. Types BY DEF SupervisorInv
<1>1. /\ sup' = [pc |-> "boot", ev |-> "none"] /\ shutdown' = FALSE /\ chan' = <<>>
      /\ handle' = 0 /\ tasks' = [s \in Slots |-> NoTask]
      /\ reqs' = [c \in Clients |-> NoRequest]
      /\ cmds' = [i \in Commands |->
           IF Over(cmds[i]) THEN cmds[i] ELSE [cmds[i] EXCEPT !.pc = "lost"]]
      /\ UNCHANGED <<db, asked, device, stored, audit, lost>>
  BY DEF Reset
<1>2. /\ NoTask \in Tasks /\ NoTask.pc = "none" /\ NoTask.cancelled = FALSE
      /\ NoTask.got = 0 /\ NoTask.pending = 0
  BY SupervisorAssumption DEF NoTask, Tasks, TaskPcs, Configs, NoAlert
<1>3. \A s \in Slots : tasks'[s] = NoTask BY <1>1
<1>4. \A c \in Clients : reqs'[c] = NoRequest /\ reqs'[c].pc = "idle"
  BY <1>1, RequestForms
<1>5. tasks' \in [Slots -> Tasks] /\ reqs' \in [Clients -> Requests]
  BY <1>1, <1>2, RequestForms
<1>6. Commands' = Commands BY <1>1 DEF Commands
<1>f. faults \in Nat /\ faults' \in Nat /\ faults' >= faults
  BY <1>0, BudgetTypes DEF Types, TypeOK
<1>7. ASSUME NEW i \in Commands
      PROVE  cmds'[i] \in Calls /\ Trail(cmds'[i], audit[i], faults')
  <2>1. PICK k : k = cmds[i] OBVIOUS
  <2>2. k \in Calls /\ Trail(k, audit[i], faults)
    BY <1>0, <2>1 DEF Types, SupervisorInv, Audited
  <2>3. cmds'[i] = IF Over(k) THEN k ELSE [k EXCEPT !.pc = "lost"] BY <1>1, <2>1
  <2>4. CASE Over(k) BY <1>f, <2>2, <2>3, <2>4, TrailLasts
  <2>5. CASE ~Over(k)
    <3>1. PICK n : n = [k EXCEPT !.pc = "lost"] OBVIOUS
    <3>2. /\ n \in Calls /\ n.pc = "lost" /\ n.told = k.told /\ n.ran = k.ran
          /\ n.outcome = k.outcome
      BY <2>2, <3>1 DEF Calls
    <3>3. faults' > 0 BY <1>f, <2>1, <2>5
    <3>4. k.pc # "answered" BY <2>5 DEF Over
    <3>5. Trail(n, audit[i], faults') BY <2>2, <3>2, <3>3, <3>4 DEF Trail
    <3> QED BY <2>3, <2>5, <3>1, <3>2, <3>5
  <2> QED BY <2>4, <2>5
<1>8. Audited' BY <1>1, <1>6, <1>7 DEF Audited
<1>9. Versions'
  <2>1. Asked' = {} BY <1>4 DEF Asked
  <2>2. IsFiniteSet(Asked') /\ Cardinality(Asked') = 0 BY <2>1, FS_EmptySet
  <2>3. IsFiniteSet(Asked) /\ row.version + Cardinality(Asked) <= asked + 1
    BY DEF SupervisorInv, Versions
  <2>4. Cardinality(Asked) \in Nat BY <2>3, FS_CardinalityType
  <2>5. row.version \in Nat /\ asked \in Nat
    BY <1>0, BudgetTypes DEF Types, TypeOK
  <2>6. row.version + 0 <= asked + 1 BY <2>3, <2>4, <2>5
  <2> QED BY <1>1, <2>2, <2>6 DEF Versions
<1>10. Snapshots' BY <1>4 DEF Snapshots
<1>11. Types'
  <2>1. cmds' \in [Commands -> Calls] BY <1>1, <1>7
  <2>2. chan' \in Seq(Events) BY <1>1
  <2>3. sent \in Nat BY <1>0, BudgetTypes DEF Types, TypeOK
  <2>n. 0 \in 0..sent BY <2>3
  <2>m. "none" \in TaskPcs BY DEF TaskPcs
  <2>4. ASSUME NEW s \in Slots
        PROVE  /\ tasks'[s].pc \in TaskPcs /\ tasks'[s].cancelled \in BOOLEAN
               /\ tasks'[s].got \in 0..sent /\ tasks'[s].pending \in 0..sent
    <3>1. /\ tasks'[s].pc = "none" /\ tasks'[s].cancelled = FALSE
          /\ tasks'[s].got = 0 /\ tasks'[s].pending = 0
      BY <1>2, <1>3
    <3> QED BY <2>n, <2>m, <3>1
  <2>5. TypeOK' BY <1>0, <1>1, <1>4, <2>2, <2>4 DEF Types, TypeOK, Events
  <2> QED BY <1>0, <1>1, <1>5, <1>6, <2>1, <2>5 DEF Types
<1>12. Told' BY <1>1 DEF Told, Outdated
<1>13. Owners' BY <1>1, <1>2, <1>3, <1>4 DEF Owners, Running
<1>14. Offline'
  <2>1. mode = "stream" => \A s \in Slots : tasks'[s].pc \notin Pushing
    BY <1>2, <1>3 DEF Pushing
  <2>2. mode = "stream" /\ faults' = 0 => row.conn = "offline"
    BY <1>f DEF SupervisorInv, Offline, Owners
  <2> QED BY <1>1, <2>1, <2>2 DEF Offline
<1>15. Streams'
  <2>1. Ahead(NoTask)' BY <1>2 DEF Ahead, NoAlert
  <2>2. \A s \in Slots : Ahead(tasks[s])' BY <1>3, <2>1 DEF Ahead
  <2>3. \A s \in Slots : tasks'[s].pc # "stream" BY <1>2, <1>3
  <2> QED BY <1>1, <2>2, <2>3 DEF SupervisorInv, Streams, StoredOnceWithOwnPhoto
<1> QED BY <1>8, <1>9, <1>10, <1>11, <1>12, <1>13, <1>14, <1>15 DEF SupervisorInv

-----------------------------------------------------------------------------
(* The watchdog, the reader and its commands.                               *)

(* A reader of the other mode, a watchdog's write or a silence: none of it  *)
(* touches a task.                                                          *)
LEMMA ReaderSteps ==
  ASSUME SupervisorInv, PushArrives \/ run_once \/ Silence \/ Mark \/ FactoryReset
  PROVE  SupervisorInv'
<1>0. sent \in 0..budget.markings /\ budget.markings \in Nat
  BY BudgetTypes DEF SupervisorInv, Types, TypeOK
<1>1. CASE PushArrives
  <2>1. Rest BY <1>1, Outsiders
    DEF PushArrives, Elsewhere, Untouched, Conns, update_connection_state
  <2>2. UNCHANGED <<tasks, stored>> /\ sent' = sent /\ mode = "push"
    BY <1>1 DEF PushArrives, device
  <2> QED BY <1>0, <2>1, <2>2, ReaderKeeps
<1>2. CASE run_once
  <2>1. Rest BY <1>2, Outsiders
    DEF run_once, Elsewhere, Untouched, Conns, update_connection_state
  <2>2. UNCHANGED <<tasks, stored>> /\ sent' = sent /\ row.conn = "stale"
    BY <1>2 DEF run_once, device
  <2> QED BY <1>0, <2>1, <2>2, ReaderKeeps
<1>3. CASE Silence
  <2>1. Rest BY <1>3, Outsiders DEF Silence, Elsewhere, Untouched, Conns
  <2>2. UNCHANGED <<tasks, stored>> /\ sent' = sent /\ row.conn = "online"
    BY <1>3 DEF Silence, device
  <2> QED BY <1>0, <2>1, <2>2, ReaderKeeps
<1>4. CASE Mark
  <2>1. Rest BY <1>4, Outsiders DEF Mark, Elsewhere, Untouched
  <2>2. UNCHANGED <<tasks, stored>> /\ row' = row /\ sent' = sent + 1
        /\ sent < budget.markings
    BY <1>4 DEF Mark
  <2>3. sent' >= sent /\ sent' \in 0..budget.markings BY <1>0, <2>2
  <2> QED BY <2>1, <2>2, <2>3, ReaderKeeps
<1>5. CASE FactoryReset
  <2>1. Rest BY <1>5, Outsiders DEF FactoryReset, db, Fault
  <2>2. UNCHANGED <<tasks, stored>> /\ row' = row /\ sent' = sent
    BY <1>5 DEF FactoryReset, db
  <2> QED BY <1>0, <2>1, <2>2, ReaderKeeps
<1> QED BY <1>1, <1>2, <1>3, <1>4, <1>5

(* What a step of a command leaves to show.                                 *)
LEMMA CommandsKeep ==
  ASSUME SupervisorInv, UNCHANGED <<db, http, super, tasks, device, stored, lost>>,
         faults' = faults \/ Fault,
         cmds' \in [Commands -> Calls], audit' \in [Commands -> Outcomes],
         \A i \in Commands : Trail(cmds'[i], audit'[i], faults')
  PROVE  SupervisorInv'
<1> USE DEF db, http, super, device
<1>0. Types BY DEF SupervisorInv
<1>1. faults' \in 0..budget.faults /\ (faults' = 0 => faults = 0)
  BY <1>0, BudgetTypes DEF Fault, Types, TypeOK
<1>2. Versions' /\ Snapshots'
  BY DEF SupervisorInv, Versions, Asked, Snapshots, Snapshot
<1>3. Types'
  <2>1. TypeOK' BY <1>0, <1>1 DEF Types, TypeOK
  <2> QED BY <1>0, <2>1 DEF Types, Commands
<1>4. Told' BY DEF SupervisorInv, Told, Outdated, Signalled, Signals
<1>5. Owners' BY DEF SupervisorInv, Owners, Running
<1>6. Offline' BY <1>1 DEF SupervisorInv, Offline, Running
<1>7. Streams' BY DEF SupervisorInv, Streams, StoredOnceWithOwnPhoto, Ahead
<1>8. Audited' BY DEF Audited, Commands
<1> QED BY <1>2, <1>3, <1>4, <1>5, <1>6, <1>7, <1>8 DEF SupervisorInv

(* One command and its row change, and what they become is in order.        *)
LEMMA CommandKeeps ==
  ASSUME SupervisorInv, UNCHANGED <<db, http, super, tasks, device, stored, lost>>,
         faults' = faults \/ Fault, NEW i \in Commands, NEW k \in Calls, NEW a \in Outcomes,
         cmds' = [cmds EXCEPT ![i] = k], audit' = [audit EXCEPT ![i] = a],
         Trail(k, a, faults')
  PROVE  SupervisorInv'
<1>1. cmds \in [Commands -> Calls] /\ audit \in [Commands -> Outcomes]
  BY DEF SupervisorInv, Types
<1>2. \A x \in Commands : /\ cmds'[x] = IF x = i THEN k ELSE cmds[x]
                          /\ audit'[x] = IF x = i THEN a ELSE audit[x]
  BY <1>1
<1>3. cmds' \in [Commands -> Calls] /\ audit' \in [Commands -> Outcomes] BY <1>1
<1>4. \A x \in Commands : Trail(cmds[x], audit[x], faults')
  BY FaultsGrow, TrailLasts DEF SupervisorInv, Audited
<1>5. \A x \in Commands : Trail(cmds'[x], audit'[x], faults')
  BY <1>2, <1>4
<1> QED BY <1>3, <1>5, CommandsKeep

(* A command is sent, carried out, answered by the reader or cut; its       *)
(* outcome is recorded, or refused, before anything is answered.            *)
LEMMA CommandStepKeeps ==
  ASSUME SupervisorInv, NEW i \in Commands, CommandSteps(i)
  PROVE  SupervisorInv'
<1>k. PICK k : k = cmds[i] OBVIOUS
<1>a. PICK a : a = audit[i] OBVIOUS
<1>0. k \in Calls /\ a \in Outcomes /\ Trail(k, a, faults)
  BY <1>k, <1>a DEF SupervisorInv, Types, Audited
<1>f. faults \in Nat BY BudgetTypes DEF SupervisorInv, Types, TypeOK
<1>b. audit' = audit => audit' = [audit EXCEPT ![i] = a]
  BY <1>a DEF SupervisorInv, Types
<1>1. CASE Dispatch(i)
  <2>1. PICK n : n = [k EXCEPT !.pc = "calling"] OBVIOUS
  <2>2. /\ n \in Calls /\ n.pc = "calling" /\ n.ran = k.ran /\ n.outcome = k.outcome
        /\ n.told = k.told
    BY <1>0, <2>1 DEF Calls
  <2>3. /\ cmds' = [cmds EXCEPT ![i] = n] /\ audit' = audit /\ faults' = faults
        /\ UNCHANGED <<db, http, super, tasks, device, stored, lost>> /\ k.pc = "new"
    BY <1>1, <1>k, <2>1 DEF Dispatch, Outside
  <2>4. Trail(n, a, faults') BY <1>0, <2>2, <2>3 DEF Trail
  <2> QED BY <1>0, <1>b, <2>2, <2>3, <2>4, CommandKeeps
<1>2. CASE Execute(i)
  <2>1. PICK n : n = [k EXCEPT !.ran = TRUE] OBVIOUS
  <2>2. /\ n \in Calls /\ n.pc = k.pc /\ n.outcome = k.outcome /\ n.told = k.told
        /\ n.ran = TRUE
    BY <1>0, <2>1 DEF Calls
  <2>3. /\ cmds' = [cmds EXCEPT ![i] = n] /\ audit' = audit /\ faults' = faults
        /\ UNCHANGED <<db, http, super, tasks, device, stored, lost>>
    BY <1>2, <1>k, <2>1 DEF Execute, Outside
  <2>4. Trail(n, a, faults') BY <1>0, <2>2, <2>3 DEF Trail
  <2> QED BY <1>0, <1>b, <2>2, <2>3, <2>4, CommandKeeps
<1>3. CASE CallEnds(i)
  <2>1. PICK o \in {"ok", "error", "timeout"} :
          /\ o = "ok" => k.ran
          /\ cmds' = [cmds EXCEPT ![i].pc = "called", ![i].outcome = o]
    BY <1>3, <1>k DEF CallEnds
  <2>2. PICK n : n = [k EXCEPT !.pc = "called", !.outcome = o] OBVIOUS
  <2>3. /\ n \in Calls /\ n.pc = "called" /\ n.outcome = o /\ n.ran = k.ran
        /\ n.told = k.told
    BY <1>0, <2>1, <2>2 DEF Calls, Outcomes
  <2>4. /\ cmds' = [cmds EXCEPT ![i] = n] /\ audit' = audit /\ faults' = faults
        /\ UNCHANGED <<db, http, super, tasks, device, stored, lost>>
        /\ k.pc = "calling"
    BY <1>3, <1>k, <2>1, <2>2 DEF CallEnds, Outside
  <2>5. Trail(n, a, faults') BY <1>0, <2>1, <2>3, <2>4 DEF Trail
  <2> QED BY <1>0, <1>b, <2>3, <2>4, <2>5, CommandKeeps
<1>4. CASE CutCommand(i)
  <2>1. PICK n : n = [k EXCEPT !.pc = "cut"] OBVIOUS
  <2>2. /\ n \in Calls /\ n.pc = "cut" /\ n.ran = k.ran /\ n.outcome = k.outcome
        /\ n.told = k.told
    BY <1>0, <2>1 DEF Calls
  <2>3. /\ cmds' = [cmds EXCEPT ![i] = n] /\ audit' = audit /\ Fault
        /\ UNCHANGED <<db, http, super, tasks, device, stored, lost>>
        /\ k.pc # "answered"
    BY <1>4, <1>k, <2>1 DEF CutCommand
  <2>4. faults' > 0 BY <1>f, <2>3 DEF Fault
  <2>5. Trail(n, a, faults') BY <1>0, <2>2, <2>3, <2>4 DEF Trail
  <2> QED BY <1>0, <1>b, <2>2, <2>3, <2>5, CommandKeeps
<1>5. CASE write_command_audit_queued(i)
  <2>1. k.pc = "called" /\ UNCHANGED <<db, http, super, tasks, device, stored, lost>>
    BY <1>5, <1>k DEF write_command_audit_queued
  <2>2. k.outcome \in Outcomes BY <1>0 DEF Calls
  <2>3. CASE /\ audit' = [audit EXCEPT ![i] = k.outcome] /\ faults' = faults
             /\ cmds' = [cmds EXCEPT ![i].pc = "recorded"]
    <3>1. PICK n : n = [k EXCEPT !.pc = "recorded"] OBVIOUS
    <3>2. /\ n \in Calls /\ n.pc = "recorded" /\ n.ran = k.ran /\ n.outcome = k.outcome
          /\ n.told = k.told
      BY <1>0, <3>1 DEF Calls
    <3>3. cmds' = [cmds EXCEPT ![i] = n] BY <1>k, <2>3, <3>1
    <3>4. Trail(n, k.outcome, faults') BY <1>0, <2>1, <2>3, <3>2 DEF Trail
    <3> QED BY <2>1, <2>2, <2>3, <3>2, <3>3, <3>4, CommandKeeps
  <2>4. CASE /\ Fault /\ audit' = audit
             /\ cmds' = [cmds EXCEPT ![i].pc = "answered", ![i].told = "internal"]
    <3>1. PICK n : n = [k EXCEPT !.pc = "answered", !.told = "internal"] OBVIOUS
    <3>2. /\ n \in Calls /\ n.pc = "answered" /\ n.ran = k.ran /\ n.outcome = k.outcome
          /\ n.told = "internal"
      BY <1>0, <3>1 DEF Calls
    <3>3. cmds' = [cmds EXCEPT ![i] = n] BY <1>k, <2>4, <3>1
    <3>4. faults' > 0 BY <1>f, <2>4 DEF Fault
    <3>5. Trail(n, a, faults') BY <1>0, <2>1, <3>2, <3>4 DEF Trail
    <3> QED BY <1>0, <1>b, <2>1, <2>4, <3>2, <3>3, <3>5, CommandKeeps
  <2> QED BY <1>5, <1>k, <2>3, <2>4 DEF write_command_audit_queued, Recorded
<1>6. CASE AnswerCommand(i)
  <2>1. PICK n : n = [k EXCEPT !.pc = "answered", !.told = k.outcome] OBVIOUS
  <2>2. /\ n \in Calls /\ n.pc = "answered" /\ n.ran = k.ran /\ n.outcome = k.outcome
        /\ n.told = k.outcome
    BY <1>0, <2>1 DEF Calls
  <2>3. /\ cmds' = [cmds EXCEPT ![i] = n] /\ audit' = audit /\ faults' = faults
        /\ UNCHANGED <<db, http, super, tasks, device, stored, lost>>
        /\ k.pc = "recorded"
    BY <1>6, <1>k, <2>1 DEF AnswerCommand, AnswersFrom, Outside
  <2>4. Trail(n, a, faults') BY <1>0, <2>2, <2>3 DEF Trail
  <2> QED BY <1>0, <1>b, <2>2, <2>3, <2>4, CommandKeeps
<1> QED BY <1>1, <1>2, <1>3, <1>4, <1>5, <1>6 DEF CommandSteps

-----------------------------------------------------------------------------
(* The invariant holds.                                                     *)

(* It holds at the start: nothing runs and nobody asks.                     *)
LEMMA SupervisorStarts ==
  ASSUME Init
  PROVE  SupervisorInv
<1>0. /\ budget \in Budgets /\ budget.requests \in Nat /\ budget.markings \in Nat
      /\ budget.commands \in Nat /\ budget.faults \in Nat
  BY SupervisorAssumption DEF Init
<1>1. /\ mode \in Modes /\ asked = 0 /\ chan = <<>> /\ handle = 0 /\ shutdown = FALSE
      /\ sup = [pc |-> "boot", ev |-> "none"] /\ sent = 0 /\ stored = <<>>
      /\ lost = FALSE /\ faults = 0 /\ audit = [i \in Commands |-> "none"]
      /\ reqs = [c \in Clients |-> NoRequest] /\ tasks = [s \in Slots |-> NoTask]
      /\ cmds = [i \in Commands |->
           [pc |-> "new", ran |-> FALSE, outcome |-> "none", told |-> "none"]]
  BY DEF Init
<1>2. PICK st \in {"absent", "active"} :
        row = [status |-> st, deleted |-> FALSE, cfg |-> 1, dir |-> "in",
               conn |-> "offline", version |-> 1]
  BY DEF Init
<1>3. row \in Rows /\ row.version = 1 /\ row.conn = "offline"
  <2>1. 1 \in 1..(budget.requests + 1) BY <1>0
  <2> QED BY <1>2, <2>1, SupervisorAssumption DEF Rows, Statuses, Configs, Conns
<1>4. /\ NoTask \in Tasks /\ NoTask.pc = "none" /\ NoTask.cancelled = FALSE
      /\ NoTask.got = 0 /\ NoTask.pending = 0
  BY SupervisorAssumption DEF NoTask, Tasks, TaskPcs, Configs, NoAlert
<1>5. \A s \in Slots : tasks[s] = NoTask BY <1>1
<1>6. \A c \in Clients : reqs[c] = NoRequest /\ reqs[c].pc = "idle"
  BY <1>1, RequestForms
<1>7. \A i \in Commands :
        /\ cmds[i] = [pc |-> "new", ran |-> FALSE, outcome |-> "none", told |-> "none"]
        /\ audit[i] = "none"
  BY <1>1
<1>8. Types
  <2>1. cmds \in [Commands -> Calls] BY <1>1 DEF Calls, Outcomes
  <2>2. audit \in [Commands -> Outcomes] BY <1>1 DEF Outcomes
  <2>3. reqs \in [Clients -> Requests] /\ tasks \in [Slots -> Tasks]
    BY <1>1, <1>4, RequestForms
  <2>4. chan \in Seq(Events) /\ stored \in Seq(Stored) BY <1>1
  <2>5. /\ sup \in [pc: {"boot", "loop", "handle", "done"}, ev: Events \cup {"none"}]
        /\ sup.pc = "boot"
    BY <1>1
  <2>6. 0 \in 0..sent /\ 0 \in 0..budget.requests /\ 0 \in 0..budget.markings
        /\ 0 \in 0..budget.faults
    BY <1>0, <1>1
  <2>7. ASSUME NEW s \in Slots
        PROVE  /\ tasks[s].pc \in TaskPcs /\ tasks[s].cancelled \in BOOLEAN
               /\ tasks[s].got \in 0..sent /\ tasks[s].pending \in 0..sent
    <3>1. /\ tasks[s].pc = "none" /\ tasks[s].cancelled = FALSE
          /\ tasks[s].got = 0 /\ tasks[s].pending = 0
      BY <1>4, <1>5
    <3>2. "none" \in TaskPcs BY DEF TaskPcs
    <3> QED BY <2>6, <3>1, <3>2
  <2>8. TypeOK
    BY <1>1, <1>3, <1>6, <2>4, <2>5, <2>6, <2>7
    DEF TypeOK, Rows, Statuses, Conns, Events
  <2> QED BY <1>0, <2>1, <2>2, <2>3, <2>4, <2>5, <2>8 DEF Types
<1>9. Versions
  <2>1. Asked = {} BY <1>6 DEF Asked
  <2> QED BY <1>1, <1>3, <2>1, FS_EmptySet DEF Versions
<1>10. Snapshots BY <1>6 DEF Snapshots
<1>11. Told BY <1>1 DEF Told, Outdated
<1>12. Owners BY <1>1, <1>4, <1>5, <1>6 DEF Owners, Running
<1>13. Offline BY <1>3, <1>4, <1>5 DEF Offline, Pushing
<1>14. Streams
  <2>1. Ahead(NoTask) BY <1>4 DEF Ahead, NoAlert
  <2>2. \A s \in Slots : Ahead(tasks[s]) /\ tasks[s].pc # "stream" BY <1>4, <1>5, <2>1
  <2>3. DOMAIN stored = {} BY <1>1
  <2> QED BY <2>2, <2>3 DEF Streams, StoredOnceWithOwnPhoto
<1>15. Audited BY <1>7 DEF Audited, Trail
<1> QED BY <1>8, <1>9, <1>10, <1>11, <1>12, <1>13, <1>14, <1>15 DEF SupervisorInv

(* It does not read anything outside the variables of the module.           *)
LEMMA SupervisorStutters ==
  ASSUME SupervisorInv, UNCHANGED vars
  PROVE  SupervisorInv'
<1> USE DEF vars, db, http, super, device, command
<1>1. Types' BY DEF SupervisorInv, Types, TypeOK, Commands
<1>2. Versions' /\ Snapshots' /\ Audited'
  BY DEF SupervisorInv, Versions, Asked, Snapshots, Snapshot, Audited, Commands
<1>3. Told' BY DEF SupervisorInv, Told, Outdated, Signalled, Signals
<1>4. Owners' /\ Offline' BY DEF SupervisorInv, Owners, Offline, Running
<1>5. Streams' BY DEF SupervisorInv, Streams, StoredOnceWithOwnPhoto, Ahead
<1> QED BY <1>1, <1>2, <1>3, <1>4, <1>5 DEF SupervisorInv

(* Every handler keeps it.                                                  *)
LEMMA HandlersKeep ==
  ASSUME SupervisorInv, NEW c \in Clients, Handlers(c)
  PROVE  SupervisorInv'
<1>1. CASE CreateRequest(c)
  <2>1. PICK k \in Configs : Ask(c, "create", k) BY <1>1 DEF CreateRequest
  <2> QED BY <2>1, AskKeeps
<1>2. CASE UpdateRequest(c)
  <2>1. row.status # "absent" BY <1>2 DEF UpdateRequest
  <2>2. ASSUME NEW k \in Configs, Ask(c, "cfg", k) PROVE SupervisorInv'
    BY <2>1, <2>2, AskKeeps
  <2>3. ASSUME NEW d \in Directions, Ask(c, "direction", d) PROVE SupervisorInv'
    BY <2>1, <2>3, AskKeeps
  <2>4. ASSUME NEW s \in {"active", "inactive"}, Ask(c, "status", s) PROVE SupervisorInv'
    BY <2>1, <2>4, AskKeeps
  <2> QED BY <1>2, <2>2, <2>3, <2>4 DEF UpdateRequest
<1>3. CASE DeactivateRequest(c) BY <1>3, AskKeeps DEF DeactivateRequest
<1>4. CASE create_queued(c) BY <1>4, CreateKeeps
<1>5. CASE update_queued(c) BY <1>5, UpdateKeeps
<1>6. CASE deactivate_queued(c) BY <1>6, DeactivateKeeps
<1>7. CASE emit_lifecycle(c) BY <1>7, EmitKeeps
<1>8. CASE DropRequest(c) BY <1>8, DropKeeps
<1> QED BY <1>1, <1>2, <1>3, <1>4, <1>5, <1>6, <1>7, <1>8 DEF Handlers

(* Every step of a task keeps it.                                           *)
LEMMA TasksKeep ==
  ASSUME SupervisorInv, NEW s \in Slots, StreamTask(s) \/ PushTask(s)
  PROVE  SupervisorInv'
<1>1. CASE StreamTask(s)
  BY <1>1, ConnectKeeps, OpenedKeeps, SeenKeeps, ProvisionKeeps, ReadAlertKeeps,
     ReadPhotoKeeps, EndsWellKeeps, FailsKeeps, FailedKeeps, BackoffKeeps, CancelledKeeps
  DEF StreamTask
<1>2. CASE PushTask(s)
  BY <1>2, PushClearKeeps, PushWriteKeeps, PushWriteFailsKeeps, PushAsleepKeeps
  DEF PushTask
<1> QED BY <1>1, <1>2

(* A restart follows the end of the service, a crash is a fault.            *)
LEMMA StartsAgain ==
  ASSUME SupervisorInv, Restart \/ Crash
  PROVE  SupervisorInv'
<1>1. faults \in 0..budget.faults /\ budget.faults \in Nat
  BY BudgetTypes DEF SupervisorInv, Types, TypeOK
<1>2. CASE Restart BY <1>1, <1>2, ResetKeeps DEF Restart
<1>3. CASE Crash
  <2>1. faults' = faults + 1 /\ faults < budget.faults /\ Reset BY <1>3 DEF Crash, Fault
  <2>2. faults' \in 0..budget.faults BY <1>1, <2>1
  <2> QED BY <2>1, <2>2, ResetKeeps
<1> QED BY <1>2, <1>3

(* Every step keeps it.                                                     *)
LEMMA SupervisorStep ==
  ASSUME SupervisorInv, [Next]_vars
  PROVE  SupervisorInv'
<1>1. CASE \E c \in Clients : Handlers(c) BY <1>1, HandlersKeep
<1>2. CASE Loop BY <1>2, BootstrapKeeps, ReceiveKeeps, HandleKeeps, DrainKeeps DEF Loop
<1>3. CASE Shutdown BY <1>3, ShutdownKeeps
<1>4. CASE Restart \/ Crash BY <1>4, StartsAgain
<1>5. CASE \E s \in Slots : StreamTask(s) \/ PushTask(s) BY <1>5, TasksKeep
<1>6. CASE PushArrives \/ run_once \/ Silence \/ Mark \/ FactoryReset
  BY <1>6, ReaderSteps
<1>7. CASE \E i \in Commands : CommandSteps(i) BY <1>7, CommandStepKeeps
<1>8. CASE UNCHANGED vars BY <1>8, SupervisorStutters
<1> QED BY <1>1, <1>2, <1>3, <1>4, <1>5, <1>6, <1>7, <1>8 DEF Next

(* Versions, snapshots, tasks, streams and the audit log fit together in    *)
(* every reachable state (handlers.rs, service.rs, supervisor/mod.rs,       *)
(* task.rs, stream.rs).                                                     *)
THEOREM SupervisorIsInvariant == Spec => []SupervisorInv
<1>1. Init => SupervisorInv BY SupervisorStarts
<1>2. SupervisorInv /\ [Next]_vars => SupervisorInv' BY SupervisorStep
<1> QED BY <1>1, <1>2, PTL DEF Spec

(* The invariant gives what the supervisor promises of its tasks.           *)
LEMMA InvariantReconciles ==
  ASSUME SupervisorInv
  PROVE  Reconciled
<1>1. TypeOK BY DEF SupervisorInv, Types
<1>2. Cardinality({s \in Slots : Running(tasks[s])}) <= 1
  <2>1. PICK R : R = {s \in Slots : Running(tasks[s])} OBVIOUS
  <2>2. \A s, t \in R : s = t BY <2>1 DEF SupervisorInv, Owners
  <2>3. CASE R = {}
    <3>1. Cardinality(R) = 0 BY <2>3, FS_EmptySet
    <3> QED BY <2>1, <3>1
  <2>4. CASE R # {}
    <3>1. PICK r : r \in R BY <2>4
    <3>2. R = {r} BY <2>2, <3>1
    <3>3. Cardinality(R) = 1 BY <3>2, FS_Singleton
    <3> QED BY <2>1, <3>3
  <2> QED BY <2>3, <2>4
<1>3. ASSUME Quiet
      PROVE  /\ row.status # "active" => \A s \in Slots : ~Running(tasks[s])
             /\ handle # 0 => tasks[handle].cfg = row.cfg
  <2>1. /\ sup.pc = "loop" /\ chan = <<>> /\ ~lost /\ ~shutdown
        /\ \A c \in Clients : reqs[c].pc # "committed"
    BY <1>3 DEF Quiet
  <2>2. DOMAIN chan = {} BY <2>1
  <2>3. ~Signalled BY <2>1, <2>2 DEF Signalled, Signals
  <2>4. ~Outdated BY <2>1, <2>3 DEF SupervisorInv, Told
  <2>5. \A s \in Slots : Running(tasks[s]) => handle = s /\ s # 0
    BY <2>1 DEF SupervisorInv, Owners, Slots
  <2> QED BY <2>4, <2>5 DEF Outdated
<1>4. mode = "stream" /\ faults = 0 /\ (\A s \in Slots : ~Running(tasks[s]))
        => row.conn = "offline"
  BY DEF SupervisorInv, Offline
<1> QED BY <1>1, <1>2, <1>3, <1>4 DEF Reconciled

(* At most one task runs; once the events are handled it is the row's; a    *)
(* streaming reader without a task is offline (Supervisor::handle_event,    *)
(* device_task).                                                            *)
THEOREM ReconciledHolds == Spec => []Reconciled
BY SupervisorIsInvariant, InvariantReconciles, PTL

(* A marking is stored once, with its own photo or none, and what a         *)
(* connection has read is stored (connect_and_stream).                      *)
THEOREM StoredOnceHolds == Spec => []StoredOnceWithOwnPhoto
<1>1. SupervisorInv => StoredOnceWithOwnPhoto BY DEF SupervisorInv, Streams
<1> QED BY <1>1, SupervisorIsInvariant, PTL

(* What a client is told of a command is in the audit log, which calls      *)
(* nothing executed that was not; only a fault costs the trace of a command *)
(* that was carried out, and then nobody is told an outcome                 *)
(* (dispatch_command, write_command_audit_queued).                          *)
THEOREM CommandIsAuditedHolds == Spec => []CommandIsAudited
<1>1. ASSUME SupervisorInv PROVE CommandIsAudited
  <2>1. SUFFICES ASSUME NEW i \in Commands, NEW k, k = cmds[i]
                 PROVE  /\ k.told \in {"ok", "error", "timeout"} => audit[i] = k.told
                        /\ audit[i] = "ok" => k.ran
                        /\ k.ran /\ k.pc \in {"answered", "cut", "lost"} /\ audit[i] = "none"
                             => faults > 0 /\ k.told \in {"none", "internal"}
    BY DEF CommandIsAudited
  <2>2. k \in Calls /\ Trail(k, audit[i], faults)
    BY <1>1, <2>1 DEF SupervisorInv, Types, Audited
  <2>3. k.told \in {"none", "ok", "error", "timeout", "internal"}
    BY <2>2 DEF Calls, Outcomes
  <2> QED BY <2>2, <2>3 DEF Trail
<1> QED BY <1>1, SupervisorIsInvariant, PTL
=============================================================================
