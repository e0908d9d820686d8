--------------------------- MODULE DbWriteQueue ---------------------------
(***************************************************************************)
(* The bounded single-writer queue every SQLite mutation of the backend    *)
(* goes through (backend/src/db/write_queue.rs).                           *)
(*                                                                         *)
(* A task is one call of job / transact / flush / close_and_flush.  It     *)
(* takes the FIFO admission mutex, checks the closed flag, reserves a slot *)
(* of the bounded channel, sends its command and awaits a one-shot reply.  *)
(* One worker receives the commands in order and owns the only writer      *)
(* connection.  Futures may be dropped at any await (a client that         *)
(* disconnects drops its handler), jobs may fail or panic.                 *)
(*                                                                         *)
(* A command is represented by the task that sent it: its kind is the set  *)
(* the task belongs to.                                                    *)
(***************************************************************************)
EXTENDS Integers, Sequences, FiniteSets, SequencesExt

CONSTANTS
  Jobs,          \* calls of job / statement (no transaction around the body)
  Transactions,  \* calls of transact (commit and rollback owned by the worker)
  Flushes,       \* calls of flush
  Shutdowns,     \* calls of close_and_flush
  Background,    \* the Jobs and Transactions submitted with background = true
  Capacity,      \* DbWriteQueueConfig::capacity
  MaxRetries,    \* length of background_retry_delays (3 in the code)
  MayDie,        \* whether the worker can fail to start or a job can panic
  NoTask         \* nobody: free mutex, idle worker

Data  == Jobs \cup Transactions
Tasks == Data \cup Flushes \cup Shutdowns

ASSUME QueueAssumption ==
  /\ Capacity \in Nat \ {0}
  /\ MaxRetries \in Nat
  /\ MayDie \in BOOLEAN
  /\ Background \subseteq Data
  /\ NoTask \notin Tasks
  /\ Jobs \cap Transactions = {}
  /\ Data \cap (Flushes \cup Shutdowns) = {}
  /\ Flushes \cap Shutdowns = {}

VARIABLES
  pc,        \* pc[t]: where the caller's future is suspended
  attempt,   \* attempt[t]: background retries already slept for
  outcome,   \* outcome[t]: what the call returned
  waiters,   \* FIFO wait list of the admission mutex
  holder,    \* the task inside the admission mutex
  closed,    \* QueueInner::closed
  chan,      \* the bounded mpsc channel
  worker,    \* the state of run_write_worker
  current,   \* the command the worker is executing
  result,    \* result of the command, before it is replied
  reply,     \* reply[t]: the content of t's one-shot channel
  log,       \* writes whose whole effect is committed, in commit order
  partial,   \* failed Jobs that left part of their statements committed
  callbacks, \* transactions whose after_commit callbacks ran
  admitted,  \* history: commands in the order they entered the channel
  stats      \* the telemetry counters

callerVars == <<pc, attempt, outcome>>
lockVars   == <<waiters, holder, closed>>
workerVars == <<worker, current, result>>
dbVars     == <<log, partial, callbacks>>
vars == <<pc, attempt, outcome, waiters, holder, closed, chan, worker, current,
          result, reply, log, partial, callbacks, admitted, stats>>

PcStates == {"new", "lock", "reserve", "send", "sleep", "reply", "done"}
Outcomes == {"none", "ok", "failed", "busy", "closed", "stopped", "cancelled"}
WorkerStates == {"starting", "idle", "running", "finish", "stopped", "dead"}
Counters == [depth: Int, accepted: Int, completed: Int, failed: Int, busy: Int,
             closed: Int]

TypeOK ==
  /\ pc \in [Tasks -> PcStates]
  /\ attempt \in [Tasks -> 0..MaxRetries]
  /\ outcome \in [Tasks -> Outcomes]
  /\ waiters \in Seq(Tasks)
  /\ holder \in Tasks \cup {NoTask}
  /\ closed \in BOOLEAN
  /\ chan \in Seq(Tasks)
  /\ worker \in WorkerStates
  /\ current \in Data \cup {NoTask}
  /\ result \in {"none", "ok", "failed"}
  /\ reply \in [Tasks -> {"none", "ok", "failed"}]
  /\ log \in Seq(Data)
  /\ partial \in SUBSET Jobs
  /\ callbacks \in SUBSET Transactions
  /\ admitted \in Seq(Tasks)
  /\ stats \in Counters

Init ==
  /\ pc = [t \in Tasks |-> "new"]
  /\ attempt = [t \in Tasks |-> 0]
  /\ outcome = [t \in Tasks |-> "none"]
  /\ waiters = <<>>
  /\ holder = NoTask
  /\ closed = FALSE
  /\ chan = <<>>
  /\ worker = "starting"
  /\ current = NoTask
  /\ result = "none"
  /\ reply = [t \in Tasks |-> "none"]
  /\ log = <<>>
  /\ partial = {}
  /\ callbacks = {}
  /\ admitted = <<>>
  /\ stats = [depth |-> 0, accepted |-> 0, completed |-> 0, failed |-> 0, busy |-> 0,
              closed |-> 0]

-----------------------------------------------------------------------------
(* The caller's side.                                                      *)

Alive == worker \notin {"stopped", "dead"}

(* The receiver is dropped with the worker: reserve_owned then fails.      *)
HasSlot == Alive /\ Len(chan) < Capacity

Return(t, o) ==
  /\ pc' = [pc EXCEPT ![t] = "done"]
  /\ outcome' = [outcome EXCEPT ![t] = o]

(* The mutex hands itself to its first waiter, so a waiter that could take *)
(* it now does not time out: timeout_at polls the lock before the clock.   *)
CanLockNoMutex(t) == pc[t] = "lock" /\ waiters # <<>> /\ Head(waiters) = t

CanLock(t) ==
  /\ pc[t] = "lock"
  /\ holder = NoTask
  /\ waiters # <<>>
  /\ Head(waiters) = t

(* A waiter that gives up leaves the wait list of the mutex.               *)
LeaveWaitersForgotten(t) == UNCHANGED waiters

LeaveWaiters(t) ==
  IF pc[t] = "lock"
    THEN \E i \in DOMAIN waiters :
           waiters[i] = t /\ waiters' = RemoveAt(waiters, i)
    ELSE UNCHANGED waiters

(* Bug: the closed flag is raised before the mutex is taken.               *)
SubmitClosing(t) ==
  /\ pc[t] = "new"
  /\ pc' = [pc EXCEPT ![t] = "lock"]
  /\ waiters' = Append(waiters, t)
  /\ closed' = (closed \/ t \in Shutdowns)
  /\ UNCHANGED <<attempt, outcome, holder, chan, workerVars, reply, dbVars,
                 admitted, stats>>

Submit(t) ==
  /\ pc[t] = "new"
  /\ pc' = [pc EXCEPT ![t] = "lock"]
  /\ waiters' = Append(waiters, t)
  /\ UNCHANGED <<attempt, outcome, holder, closed, chan, workerVars, reply,
                 dbVars, admitted, stats>>

(* The lock is taken on an open queue.  A closing call swaps the flag in   *)
(* the same critical section.                                              *)
Acquire(t) ==
  /\ CanLock(t)
  /\ ~closed
  /\ waiters' = Tail(waiters)
  /\ holder' = t
  /\ closed' = (t \in Shutdowns)
  /\ pc' = [pc EXCEPT ![t] = "reserve"]
  /\ UNCHANGED <<attempt, outcome, chan, workerVars, reply, dbVars, admitted,
                 stats>>

(* The lock is taken on a closed queue and released at once.  Only a       *)
(* second close_and_flush leaves the closed_rejections counter alone.      *)
AcquireClosed(t) ==
  /\ CanLock(t)
  /\ closed
  /\ waiters' = Tail(waiters)
  /\ Return(t, "closed")
  /\ stats' = IF t \in Shutdowns THEN stats
                                 ELSE [stats EXCEPT !.closed = @ + 1]
  /\ UNCHANGED <<attempt, holder, closed, chan, workerVars, reply, dbVars,
                 admitted>>

(* admit_once returned Busy: a background call sleeps and tries again      *)
(* while it has delays left, everybody else gets the error.                *)
BusyForever(t) ==
  /\ stats' = [stats EXCEPT !.busy = @ + 1]
  /\ IF t \in Background
       THEN pc' = [pc EXCEPT ![t] = "sleep"] /\ UNCHANGED outcome
       ELSE Return(t, "busy")

Busy(t) ==
  /\ stats' = [stats EXCEPT !.busy = @ + 1]
  /\ IF t \in Background /\ attempt[t] < MaxRetries
       THEN pc' = [pc EXCEPT ![t] = "sleep"] /\ UNCHANGED outcome
       ELSE Return(t, "busy")

LockTimeout(t) ==
  /\ pc[t] = "lock"
  /\ t \notin Shutdowns
  /\ ~CanLock(t)
  /\ LeaveWaiters(t)
  /\ Busy(t)
  /\ UNCHANGED <<attempt, holder, closed, chan, workerVars, reply, dbVars,
                 admitted>>

(* Bug: the timed out future keeps the mutex.                              *)
ReserveTimeoutLocked(t) ==
  /\ pc[t] = "reserve"
  /\ t \notin Shutdowns
  /\ Alive
  /\ ~HasSlot
  /\ Busy(t)
  /\ UNCHANGED <<attempt, lockVars, chan, workerVars, reply, dbVars, admitted>>

ReserveTimeout(t) ==
  /\ pc[t] = "reserve"
  /\ t \notin Shutdowns
  /\ Alive
  /\ ~HasSlot
  /\ holder' = NoTask
  /\ Busy(t)
  /\ UNCHANGED <<attempt, waiters, closed, chan, workerVars, reply, dbVars,
                 admitted>>

ReserveStopped(t) ==
  /\ pc[t] = "reserve"
  /\ ~Alive
  /\ holder' = NoTask
  /\ Return(t, "stopped")
  /\ UNCHANGED <<attempt, waiters, closed, chan, workerVars, reply, dbVars,
                 admitted, stats>>

(* A control command is not counted.                                       *)
CountAcceptedAll(t) ==
  stats' = [stats EXCEPT !.accepted = @ + 1, !.depth = @ + 1]

CountAccepted(t) ==
  stats' = IF t \in Data
             THEN [stats EXCEPT !.accepted = @ + 1, !.depth = @ + 1]
             ELSE stats

(* The slot is reserved and the counters of a data command are raised      *)
(* before the command becomes visible to the worker.                       *)
Reserve(t) ==
  /\ pc[t] = "reserve"
  /\ HasSlot
  /\ pc' = [pc EXCEPT ![t] = "send"]
  /\ CountAccepted(t)
  /\ UNCHANGED <<attempt, outcome, lockVars, chan, workerVars, reply, dbVars,
                 admitted>>

(* permit.send: it cannot fail, so a command sent after the worker died    *)
(* stays in a channel nobody reads.                                        *)
(* Bug: a foreground command overtakes the queued ones.                    *)
SendOvertaking(t) ==
  /\ pc[t] = "send"
  /\ chan' = <<t>> \o chan
  /\ admitted' = Append(admitted, t)
  /\ holder' = NoTask
  /\ pc' = [pc EXCEPT ![t] = "reply"]
  /\ UNCHANGED <<attempt, outcome, waiters, closed, workerVars, reply, dbVars,
                 stats>>

Send(t) ==
  /\ pc[t] = "send"
  /\ chan' = Append(chan, t)
  /\ admitted' = Append(admitted, t)
  /\ holder' = NoTask
  /\ pc' = [pc EXCEPT ![t] = "reply"]
  /\ UNCHANGED <<attempt, outcome, waiters, closed, workerVars, reply, dbVars,
                 stats>>

Wake(t) ==
  /\ pc[t] = "sleep"
  /\ pc' = [pc EXCEPT ![t] = "lock"]
  /\ attempt' = [attempt EXCEPT ![t] = @ + 1]
  /\ waiters' = Append(waiters, t)
  /\ UNCHANGED <<outcome, holder, closed, chan, workerVars, reply, dbVars,
                 admitted, stats>>

(* Bug: the admission deadline also covers the reply.                      *)
TakeReplyDeadline(t) ==
  /\ pc[t] = "reply"
  /\ Return(t, IF reply[t] = "none" THEN "busy" ELSE reply[t])
  /\ UNCHANGED <<attempt, lockVars, chan, workerVars, reply, dbVars, admitted,
                 stats>>

TakeReply(t) ==
  /\ pc[t] = "reply"
  /\ reply[t] # "none"
  /\ Return(t, reply[t])
  /\ UNCHANGED <<attempt, lockVars, chan, workerVars, reply, dbVars, admitted,
                 stats>>

(* The command was dropped with the receiver, and its one-shot with it.    *)
ReplyDroppedEarly(t) ==
  /\ pc[t] = "reply"
  /\ reply[t] = "none"
  /\ Return(t, "stopped")
  /\ UNCHANGED <<attempt, lockVars, chan, workerVars, reply, dbVars, admitted,
                 stats>>

ReplyDropped(t) ==
  /\ pc[t] = "reply"
  /\ reply[t] = "none"
  /\ ~Alive
  /\ t \notin Range(chan)
  /\ Return(t, "stopped")
  /\ UNCHANGED <<attempt, lockVars, chan, workerVars, reply, dbVars, admitted,
                 stats>>

(* The caller's future is dropped at one of its awaits.  What is already   *)
(* in the channel stays there.  main awaits close_and_flush to its end.    *)
Cancel(t) ==
  /\ pc[t] \in {"lock", "reserve", "sleep", "reply"}
  /\ t \notin Shutdowns
  /\ LeaveWaiters(t)
  /\ holder' = IF holder = t THEN NoTask ELSE holder
  /\ Return(t, "cancelled")
  /\ UNCHANGED <<attempt, closed, chan, workerVars, reply, dbVars, admitted,
                 stats>>

-----------------------------------------------------------------------------
(* The worker's side.                                                      *)

WorkerStart ==
  /\ worker = "starting"
  /\ worker' = "idle"
  /\ UNCHANGED <<callerVars, lockVars, chan, current, result, reply, dbVars,
                 admitted, stats>>

(* The receiver is dropped, and with it every command still in the channel *)
Die ==
  /\ worker' = "dead"
  /\ current' = NoTask
  /\ chan' = <<>>
  /\ UNCHANGED <<callerVars, lockVars, result, reply, admitted, stats>>

(* The writer connection cannot be opened or configured.                   *)
WorkerStartFails ==
  /\ MayDie
  /\ worker = "starting"
  /\ Die
  /\ UNCHANGED dbVars

(* The worker asks for the next command only when it is done with one.     *)
ReadyConcurrent == worker \in {"idle", "running"} /\ chan # <<>>

Ready == worker = "idle" /\ chan # <<>>

Recv ==
  /\ Ready
  /\ Head(chan) \in Data
  /\ worker' = "running"
  /\ current' = Head(chan)
  /\ chan' = Tail(chan)
  /\ stats' = [stats EXCEPT !.depth = @ - 1]
  /\ UNCHANGED <<callerVars, lockVars, result, reply, dbVars, admitted>>

RecvFlush ==
  /\ Ready
  /\ Head(chan) \in Flushes
  /\ reply' = [reply EXCEPT ![Head(chan)] = "ok"]
  /\ chan' = Tail(chan)
  /\ UNCHANGED <<callerVars, lockVars, workerVars, dbVars, admitted, stats>>

(* The worker answers and returns: the receiver is dropped with whatever   *)
(* is left behind the Shutdown command.                                    *)
RecvShutdown ==
  /\ Ready
  /\ Head(chan) \in Shutdowns
  /\ reply' = [reply EXCEPT ![Head(chan)] = "ok"]
  /\ worker' = "stopped"
  /\ chan' = <<>>
  /\ UNCHANGED <<callerVars, lockVars, current, result, dbVars, admitted, stats>>

(* The body succeeded and, for a transaction, so did the commit.           *)
RunOk ==
  /\ worker = "running"
  /\ worker' = "finish"
  /\ result' = "ok"
  /\ log' = Append(log, current)
  /\ UNCHANGED <<callerVars, lockVars, chan, current, reply, partial, callbacks,
                 admitted, stats>>

(* The transaction could not begin, its body failed and was rolled back,   *)
(* or its commit failed: nothing of it is visible.                         *)
TransactionFailsCommitted ==
  /\ worker = "running"
  /\ current \in Transactions
  /\ worker' = "finish"
  /\ result' = "failed"
  /\ log' = Append(log, current)
  /\ UNCHANGED <<callerVars, lockVars, chan, current, reply, partial, callbacks,
                 admitted, stats>>

TransactionFails ==
  /\ worker = "running"
  /\ current \in Transactions
  /\ worker' = "finish"
  /\ result' = "failed"
  /\ UNCHANGED <<callerVars, lockVars, chan, current, reply, dbVars, admitted,
                 stats>>

(* A job runs its statements in autocommit mode: those before the failing  *)
(* one stay.                                                               *)
JobFails ==
  /\ worker = "running"
  /\ current \in Jobs
  /\ worker' = "finish"
  /\ result' = "failed"
  /\ \E some \in BOOLEAN : partial' = IF some THEN partial \cup {current}
                                              ELSE partial
  /\ UNCHANGED <<callerVars, lockVars, chan, current, reply, log, callbacks,
                 admitted, stats>>

(* Only the after_commit callbacks are guarded by catch_unwind: a panic in *)
(* a body unwinds the worker and rolls an open transaction back.           *)
JobPanics ==
  /\ MayDie
  /\ worker = "running"
  /\ Die
  /\ \E some \in BOOLEAN : partial' = IF some /\ current \in Jobs
                                        THEN partial \cup {current}
                                        ELSE partial
  /\ UNCHANGED <<log, callbacks>>

RunsCallbacksAlways == current \in Transactions

RunsCallbacks == result = "ok" /\ current \in Transactions

(* Callbacks of a committed transaction, counters, reply: one synchronous  *)
(* block before the next recv.                                             *)
Finish ==
  /\ worker = "finish"
  /\ worker' = "idle"
  /\ current' = NoTask
  /\ result' = "none"
  /\ callbacks' = IF RunsCallbacks THEN callbacks \cup {current} ELSE callbacks
  /\ stats' = IF result = "ok" THEN [stats EXCEPT !.completed = @ + 1]
                               ELSE [stats EXCEPT !.failed = @ + 1]
  /\ reply' = [reply EXCEPT ![current] = result]
  /\ UNCHANGED <<callerVars, lockVars, chan, log, partial, admitted>>

-----------------------------------------------------------------------------
CallerStep(t) ==
  \/ Submit(t) \/ Acquire(t) \/ AcquireClosed(t)
  \/ LockTimeout(t) \/ ReserveTimeout(t) \/ ReserveStopped(t)
  \/ Reserve(t) \/ Send(t) \/ Wake(t)
  \/ TakeReply(t) \/ ReplyDropped(t) \/ Cancel(t)

WorkerStep ==
  \/ WorkerStart \/ WorkerStartFails
  \/ Recv \/ RecvFlush \/ RecvShutdown
  \/ RunOk \/ TransactionFails \/ JobFails \/ JobPanics
  \/ Finish

Next == (\E t \in Tasks : CallerStep(t)) \/ WorkerStep

Spec == Init /\ [][Next]_vars

(* Every suspended future is eventually polled once it is ready, timers    *)
(* fire, and the jobs return: the worker always makes its next step.       *)
(* Nothing forces a task to be submitted or cancelled.                     *)
Progress(t) ==
  \/ Acquire(t) \/ AcquireClosed(t) \/ LockTimeout(t) \/ ReserveTimeout(t)
  \/ ReserveStopped(t) \/ Reserve(t) \/ Send(t) \/ Wake(t) \/ TakeReply(t)
  \/ ReplyDropped(t)

FairSpec == Spec /\ WF_vars(WorkerStep) /\ \A t \in Tasks : WF_vars(Progress(t))

-----------------------------------------------------------------------------
(* Properties.                                                             *)

Applied(t)  == t \in Range(log)
Executed(t) == Applied(t) \/ reply[t] = "failed"

(* Graceful shutdown loses nothing: when the worker returned from a        *)
(* Shutdown command, every write that entered the channel before was run.  *)
(* It holds only if nothing can slip in behind the Shutdown command.       *)
ShutdownDrains ==
  worker = "stopped" => \A t \in Range(admitted) \cap Data : Executed(t)

(* Busy and Closed are promises to the caller that the write did not and   *)
(* will not happen: the command never reached the channel.                 *)
RefusedNeverApplied ==
  \A t \in Tasks : outcome[t] \in {"busy", "closed"} =>
    t \notin Range(admitted) \cup Range(log) \cup partial

(* The answer of a transaction tells whether it is in the database, a      *)
(* write answered with success is, and a refused one never will be.        *)
AnswerIsTruthful ==
  /\ RefusedNeverApplied
  /\ \A t \in Data : outcome[t] = "ok" => Applied(t)
  /\ \A t \in Transactions : outcome[t] \in {"failed", "stopped"} => ~Applied(t)

(* The contract written on QueuedTransaction::after_commit: callbacks run  *)
(* only after the commit, before the reply and before the next command.    *)
CallbacksFollowCommit ==
  /\ \A t \in callbacks : Applied(t)
  /\ \A t \in Transactions :
       Applied(t) /\ (reply[t] # "none" \/ current # t) => t \in callbacks

(* flush is a barrier: once it returns, every write admitted before it has *)
(* been executed.                                                          *)
FlushIsBarrier ==
  \A i \in DOMAIN admitted :
    admitted[i] \in Flushes /\ reply[admitted[i]] = "ok" =>
      \A j \in 1..(i - 1) : admitted[j] \in Data => Executed(admitted[j])

(* Writes take effect in the order they were admitted, each at most once.  *)
AppliedInAdmissionOrder ==
  \E f \in [DOMAIN log -> DOMAIN admitted] :
    /\ \A i \in DOMAIN log : log[i] = admitted[f[i]]
    /\ \A i, j \in DOMAIN log : i < j => f[i] < f[j]

(* run_write_worker executes one command at a time, in channel order, its  *)
(* callbacks included, up to the Shutdown: what flush, after_commit, the   *)
(* shutdown of main and their users rely on.                               *)
SerialExecution ==
  AppliedInAdmissionOrder /\ CallbacksFollowCommit /\ FlushIsBarrier /\ ShutdownDrains

(* The depth gauge is exactly the number of data commands accepted and not *)
(* yet received: in particular the unsigned counter never wraps below 0.   *)
(* Accepted commands are completed, failed, queued or running.             *)
CountersExact ==
  worker # "dead" =>
    /\ stats.depth = Cardinality({i \in DOMAIN chan : chan[i] \in Data})
                         + Cardinality({t \in Data : pc[t] = "send"})
    /\ stats.accepted = stats.completed + stats.failed + stats.depth
                            + (IF worker \in {"running", "finish"} THEN 1 ELSE 0)

(* Once closing has begun the only command that can still enter the        *)
(* channel is the Shutdown itself.                                         *)
NoAdmissionAfterClose ==
  [][closed /\ admitted' # admitted
       => admitted'[Len(admitted')] \in Shutdowns]_vars

(* Under fairness every call returns, whatever the others do: nobody       *)
(* leaves the admission mutex locked and no reply is forgotten.  A close,  *)
(* which has no timeout, ends with the worker stopped.  Only the death of  *)
(* the worker strands a caller: a command sent on a slot reserved before   *)
(* it, whose reply nobody drops.                                           *)
EveryCallReturns ==
  /\ \A t \in Tasks : pc[t] = "lock" ~> (pc[t] = "done" \/ worker = "dead")
  /\ (\E s \in Shutdowns : pc[s] = "lock") ~> worker \in {"stopped", "dead"}

Ledger == INSTANCE WriteLedger WITH
  Writes <- Data, Breakable <- Jobs, Controls <- Flushes \cup Shutdowns,
  log <- log, dirty <- partial, answer <- outcome

(* The queue implements the ledger: at most one commit per write and no    *)
(* answer that the database contradicts, then or later.                    *)
ImplementsLedger == Ledger!Spec
=============================================================================
