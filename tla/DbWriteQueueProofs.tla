------------------------- MODULE DbWriteQueueProofs -------------------------
(***************************************************************************)
(* Proofs about the write queue, for any number of calls, any capacity and *)
(* any number of retries.                                                  *)
(***************************************************************************)
EXTENDS DbWriteQueue, FiniteSetTheorems, TLAPS

(* Leaving the wait list, or not being in it, keeps it a list of calls.    *)
LEMMA LeaveWaitersType ==
  ASSUME waiters \in Seq(Tasks), NEW t, LeaveWaiters(t)
  PROVE  waiters' \in Seq(Tasks)
<1>1. CASE pc[t] = "lock"
  <2>1. PICK i \in DOMAIN waiters : waiters' = RemoveAt(waiters, i)
    BY <1>1 DEF LeaveWaiters
  <2>2. SubSeq(waiters, 1, i - 1) \in Seq(Tasks)
    BY <2>1
  <2>3. SubSeq(waiters, i + 1, Len(waiters)) \in Seq(Tasks)
    BY <2>1
  <2> QED BY <2>1, <2>2, <2>3 DEF RemoveAt
<1>2. CASE pc[t] # "lock"
  BY <1>2 DEF LeaveWaiters
<1> QED BY <1>1, <1>2

(* The updates of the telemetry counters keep them a record of integers.   *)
LEMMA CountersType ==
  ASSUME NEW s \in Counters
  PROVE  /\ [s EXCEPT !.busy = @ + 1] \in Counters
         /\ [s EXCEPT !.closed = @ + 1] \in Counters
         /\ [s EXCEPT !.accepted = @ + 1, !.depth = @ + 1] \in Counters
         /\ [s EXCEPT !.depth = @ - 1] \in Counters
         /\ [s EXCEPT !.completed = @ + 1] \in Counters
         /\ [s EXCEPT !.failed = @ + 1] \in Counters
<1>1. [s EXCEPT !.busy = @ + 1] \in Counters BY DEF Counters
<1>2. [s EXCEPT !.closed = @ + 1] \in Counters BY DEF Counters
<1>3. [s EXCEPT !.accepted = @ + 1, !.depth = @ + 1] \in Counters
  <2> DEFINE u == [s EXCEPT !.accepted = @ + 1]
  <2>1. u \in Counters BY DEF Counters
  <2>2. [u EXCEPT !.depth = @ + 1] \in Counters
    <3> HIDE DEF u
    <3> QED BY <2>1 DEF Counters
  <2> QED BY <2>2
<1>4. [s EXCEPT !.depth = @ - 1] \in Counters BY DEF Counters
<1>5. [s EXCEPT !.completed = @ + 1] \in Counters BY DEF Counters
<1>6. [s EXCEPT !.failed = @ + 1] \in Counters BY DEF Counters
<1> QED BY <1>1, <1>2, <1>3, <1>4, <1>5, <1>6

(* What TypeOK needs to be inductive: the worker holds a data command      *)
(* exactly while it executes one, and only a background call with delays   *)
(* left sleeps.                                                            *)
WorkerShape ==
  /\ worker \in {"running", "finish"} <=> current # NoTask
  /\ worker = "finish" <=> result # "none"

SleepBound == \A t \in Tasks : pc[t] = "sleep" => attempt[t] < MaxRetries

TypeInv == TypeOK /\ WorkerShape /\ SleepBound

(* Every variable keeps its type: in particular no call sleeps more often  *)
(* than it has retry delays (admit) and the worker only ever executes      *)
(* data commands.                                                          *)
THEOREM TypeInvariant == Spec => []TypeInv
<1>1. Init => TypeInv
  <2> SUFFICES ASSUME Init PROVE TypeInv
    OBVIOUS
  <2>1. stats \in Counters BY DEF Init, Counters
  <2>2. closed \in BOOLEAN BY DEF Init
  <2> QED BY <2>1, <2>2, QueueAssumption DEF Init, TypeInv, TypeOK, WorkerShape,
             SleepBound, Data, Tasks, PcStates, Outcomes, WorkerStates
<1>2. TypeInv /\ [Next]_vars => TypeInv'
  <2> SUFFICES ASSUME TypeInv, [Next]_vars PROVE TypeInv'
    OBVIOUS
  <2> USE QueueAssumption DEF TypeInv, TypeOK, WorkerShape, SleepBound, Data, Tasks,
          PcStates, Outcomes, WorkerStates, lockVars, callerVars, workerVars,
          dbVars
  <2>1. ASSUME NEW t \in Tasks, CallerStep(t) PROVE TypeInv'
    <3>1. CASE Submit(t) BY <3>1 DEF Submit
    <3>2. CASE Acquire(t) BY <3>2 DEF Acquire, CanLock
    <3>3. CASE AcquireClosed(t)
      <4>1. stats' \in Counters BY <3>3, CountersType DEF AcquireClosed
      <4> QED BY <3>3, <4>1 DEF AcquireClosed, CanLock, Return
    <3>4. CASE LockTimeout(t)
      <4>1. waiters' \in Seq(Tasks) BY <3>4, LeaveWaitersType DEF LockTimeout
      <4>2. stats' \in Counters BY <3>4, CountersType DEF LockTimeout, Busy
      <4> QED BY ZenonT(60), <3>4, <4>1, <4>2 DEF LockTimeout, Busy, Return
    <3>5. CASE ReserveTimeout(t)
      <4>1. stats' \in Counters BY <3>5, CountersType DEF ReserveTimeout, Busy
      <4> QED BY ZenonT(60), <3>5, <4>1 DEF ReserveTimeout, Busy, Return
    <3>6. CASE ReserveStopped(t) BY <3>6 DEF ReserveStopped, Return
    <3>7. CASE Reserve(t)
      <4>1. stats' \in Counters BY <3>7, CountersType DEF Reserve, CountAccepted
      <4> QED BY <3>7, <4>1 DEF Reserve
    <3>8. CASE Send(t) BY <3>8 DEF Send
    <3>9. CASE Wake(t) BY <3>9 DEF Wake
    <3>10. CASE TakeReply(t) BY <3>10 DEF TakeReply, Return
    <3>11. CASE ReplyDropped(t) BY <3>11 DEF ReplyDropped, Return
    <3>12. CASE Cancel(t)
      <4>1. waiters' \in Seq(Tasks) BY <3>12, LeaveWaitersType DEF Cancel
      <4> QED BY <3>12, <4>1 DEF Cancel, Return
    <3> QED BY <2>1, <3>1, <3>2, <3>3, <3>4, <3>5, <3>6, <3>7, <3>8, <3>9, <3>10, <3>11,
               <3>12 DEF CallerStep
  <2>2. ASSUME WorkerStep PROVE TypeInv'
    <3>1. CASE WorkerStart BY <3>1 DEF WorkerStart
    <3>2. CASE WorkerStartFails BY <3>2 DEF WorkerStartFails, Die
    <3>3. CASE Recv
      <4>1. stats' \in Counters BY <3>3, CountersType DEF Recv
      <4> QED BY <3>3, <4>1 DEF Recv, Ready
    <3>4. CASE RecvFlush BY <3>4 DEF RecvFlush, Ready
    <3>5. CASE RecvShutdown BY <3>5 DEF RecvShutdown, Ready
    <3>6. CASE RunOk BY <3>6 DEF RunOk
    <3>7. CASE TransactionFails BY <3>7 DEF TransactionFails
    <3>8. CASE JobFails BY <3>8 DEF JobFails
    <3>9. CASE JobPanics BY <3>9 DEF JobPanics, Die
    <3>10. CASE Finish
      <4>1. stats' \in Counters BY <3>10, CountersType DEF Finish
      <4> QED BY <3>10, <4>1 DEF Finish, RunsCallbacks
    <3> QED BY <2>2, <3>1, <3>2, <3>3, <3>4, <3>5, <3>6, <3>7, <3>8, <3>9, <3>10
            DEF WorkerStep
  <2>3. CASE UNCHANGED vars BY <2>3 DEF vars
  <2> QED BY <2>1, <2>2, <2>3 DEF Next
<1> QED BY <1>1, <1>2, PTL DEF Spec

-----------------------------------------------------------------------------
(* Sequences.                                                              *)

(* Appending an element to the channel or the log adds just that element.  *)
LEMMA RangeAppend ==
  ASSUME NEW S, NEW s \in Seq(S), NEW e \in S
  PROVE  Range(Append(s, e)) = Range(s) \cup {e}
<1>1. Range(Append(s, e)) \subseteq Range(s) \cup {e}
  BY DEF Range
<1>2. e \in Range(Append(s, e))
  <2>1. Append(s, e)[Len(s) + 1] = e OBVIOUS
  <2>2. Len(s) + 1 \in DOMAIN Append(s, e) OBVIOUS
  <2> QED BY <2>1, <2>2 DEF Range
<1>3. ASSUME NEW x \in Range(s) PROVE x \in Range(Append(s, e))
  <2>1. PICK i \in DOMAIN s : s[i] = x BY <1>3 DEF Range
  <2>2. i \in DOMAIN Append(s, e) /\ Append(s, e)[i] = x BY <2>1
  <2> QED BY <2>2 DEF Range
<1> QED BY <1>1, <1>2, <1>3

(* Receiving the head of the channel removes at most that element.          *)
LEMMA RangeTail ==
  ASSUME NEW S, NEW s \in Seq(S), s # <<>>
  PROVE  /\ Head(s) \in Range(s)
         /\ Range(Tail(s)) \subseteq Range(s)
<1>1. 1 \in DOMAIN s OBVIOUS
<1>2. Head(s) = s[1] OBVIOUS
<1>3. ASSUME NEW x \in Range(Tail(s)) PROVE x \in Range(s)
  <2>1. PICK i \in DOMAIN Tail(s) : Tail(s)[i] = x BY <1>3 DEF Range
  <2>2. i + 1 \in DOMAIN s /\ s[i + 1] = x BY <2>1
  <2> QED BY <2>2 DEF Range
<1> QED BY <1>1, <1>2, <1>3 DEF Range

(* An empty channel holds no command.                                      *)
LEMMA RangeEmpty == Range(<<>>) = {}
BY DEF Range

(* The elements of a sequence over S are in S.                             *)
LEMMA RangeSeq ==
  ASSUME NEW S, NEW s \in Seq(S)
  PROVE  Range(s) \subseteq S
BY DEF Range

NoRepeat(s) == \A i, j \in DOMAIN s : s[i] = s[j] => i = j

(* Sending a command that is not in the channel keeps it repetition free.  *)
LEMMA NoRepeatAppend ==
  ASSUME NEW S, NEW s \in Seq(S), NEW e \in S, NoRepeat(s), e \notin Range(s)
  PROVE  NoRepeat(Append(s, e))
<1> SUFFICES ASSUME NEW i \in 1..(Len(s) + 1), NEW j \in 1..(Len(s) + 1),
                    Append(s, e)[i] = Append(s, e)[j]
             PROVE  i = j
  BY DEF NoRepeat
<1>1. \A k \in 1..Len(s) : s[k] # e BY DEF Range
<1> QED BY <1>1 DEF NoRepeat

(* Receiving the head keeps the channel repetition free, and removes the   *)
(* command from it.                                                        *)
LEMMA NoRepeatTail ==
  ASSUME NEW S, NEW s \in Seq(S), s # <<>>, NoRepeat(s)
  PROVE  NoRepeat(Tail(s)) /\ Head(s) \notin Range(Tail(s))
<1>1. DOMAIN Tail(s) = 1..(Len(s) - 1)
  /\ \A k \in 1..(Len(s) - 1) : Tail(s)[k] = s[k + 1] /\ k + 1 \in DOMAIN s
  OBVIOUS
<1>2. NoRepeat(Tail(s)) 
  <2> SUFFICES ASSUME NEW i \in 1..(Len(s) - 1), NEW j \in 1..(Len(s) - 1),
                      Tail(s)[i] = Tail(s)[j]
               PROVE  i = j
    BY <1>1 DEF NoRepeat
  <2>1. s[i + 1] = s[j + 1] /\ i + 1 \in DOMAIN s /\ j + 1 \in DOMAIN s BY <1>1
  <2> QED BY <2>1 DEF NoRepeat
<1>3. ASSUME NEW i \in DOMAIN Tail(s) PROVE Tail(s)[i] # Head(s)
  <2>1. Tail(s)[i] = s[i + 1] /\ i + 1 \in DOMAIN s /\ i + 1 # 1 BY <1>1
  <2>2. Head(s) = s[1] /\ 1 \in DOMAIN s OBVIOUS
  <2> QED BY <2>1, <2>2 DEF NoRepeat
<1> QED BY <1>2, <1>3 DEF Range

-----------------------------------------------------------------------------
(* The inductive invariant behind the safety theorems.                     *)

(* A call that has not sent its command has left no trace of it.           *)
NotSent ==
  \A t \in Tasks : pc[t] \in {"new", "lock", "reserve", "send", "sleep"} =>
    /\ outcome[t] = "none" /\ reply[t] = "none"
    /\ t # current /\ t \notin Range(chan) /\ t \notin Range(admitted)
    /\ t \notin Range(log) /\ t \notin partial

(* The admission mutex: exactly its holder is between lock and send.       *)
Mutex == \A t \in Tasks : pc[t] \in {"reserve", "send"} <=> holder = t

(* A command is in one place only.                                         *)
OnePlace == NoRepeat(chan) /\ current \notin Range(chan)

(* A command that waits or runs has had no effect and no answer; its       *)
(* caller waits or is gone.                                                *)
Pending ==
  /\ \A t \in Range(chan) :
       /\ reply[t] = "none" /\ t \notin Range(log) /\ t \notin partial
       /\ outcome[t] \in {"none", "cancelled"}
  /\ current # NoTask =>
       /\ reply[current] = "none" /\ outcome[current] \in {"none", "cancelled"}
       /\ worker = "running" => current \notin Range(log) /\ current \notin partial
       /\ worker = "finish" => (result = "ok" <=> current \in Range(log))

(* The answers in the one-shot channels agree with the database.           *)
Replies ==
  /\ \A t \in Data : /\ reply[t] = "ok" => t \in Range(log)
                     /\ reply[t] = "failed" => t \notin Range(log)
  /\ \A t \in Range(log) : reply[t] = "ok" \/ t = current

(* So do the answers of the calls that returned.                           *)
Answers ==
  \A t \in Tasks :
    /\ pc[t] = "done" <=> outcome[t] # "none"
    /\ outcome[t] \in {"busy", "closed"} =>
         t \notin Range(admitted) /\ t \notin Range(log) /\ t \notin partial
    /\ outcome[t] \in {"ok", "failed"} => reply[t] = outcome[t]
    /\ outcome[t] = "stopped" => t \notin Range(log)

SafeInv == NotSent /\ Mutex /\ OnePlace /\ Pending /\ Replies /\ Answers

(* A new queue satisfies the invariant (DbWriteQueue::channel).            *)
LEMMA SafeInit == Init => SafeInv
BY QueueAssumption, RangeEmpty DEF Init, SafeInv, NotSent, Mutex, OnePlace, Pending, Replies, Answers, NoRepeat, Data, Tasks

(* Calls move between their awaits: what they sent, the database and the   *)
(* replies stay.                                                           *)
LEMMA SafeCaller ==
  ASSUME TypeInv, SafeInv, NEW t \in Tasks, CallerStep(t)
  PROVE  SafeInv'
<1> USE QueueAssumption DEF TypeInv, TypeOK, WorkerShape, SafeInv, NotSent, Mutex, OnePlace, Pending,
    Replies, Answers, PcStates, Outcomes, WorkerStates, lockVars, callerVars, workerVars, dbVars, Data, Tasks
<1>1. CASE Submit(t) BY SMTT(30), <1>1 DEF Submit
<1>2. CASE Acquire(t) BY <1>2 DEF Acquire, CanLock
<1>3. CASE AcquireClosed(t) BY <1>3 DEF AcquireClosed, CanLock, Return
<1>4. CASE LockTimeout(t)
  <2>1. \/ pc' = [pc EXCEPT ![t] = "sleep"] /\ UNCHANGED outcome
        \/ Return(t, "busy")
    BY <1>4 DEF LockTimeout, Busy
  <2>2. CASE Return(t, "busy") BY <1>4, <2>2 DEF LockTimeout, Return
  <2>3. CASE pc' = [pc EXCEPT ![t] = "sleep"] /\ UNCHANGED outcome
    BY ZenonT(60), <1>4, <2>3 DEF LockTimeout
  <2> QED BY <2>1, <2>2, <2>3
<1>5. CASE ReserveTimeout(t)
  <2>1. \/ pc' = [pc EXCEPT ![t] = "sleep"] /\ UNCHANGED outcome
        \/ Return(t, "busy")
    BY <1>5 DEF ReserveTimeout, Busy
  <2>2. CASE Return(t, "busy") BY <1>5, <2>2 DEF ReserveTimeout, Return
  <2>3. CASE pc' = [pc EXCEPT ![t] = "sleep"] /\ UNCHANGED outcome
    BY <1>5, <2>3 DEF ReserveTimeout
  <2> QED BY <2>1, <2>2, <2>3
<1>6. CASE ReserveStopped(t) BY <1>6 DEF ReserveStopped, Return
<1>7. CASE Reserve(t) BY <1>7 DEF Reserve
<1>8. CASE Send(t) BY <1>8, RangeAppend, NoRepeatAppend DEF Send
<1>9. CASE Wake(t) BY <1>9 DEF Wake
<1>10. CASE TakeReply(t) BY <1>10 DEF TakeReply, Return
<1>11. CASE ReplyDropped(t) BY <1>11 DEF ReplyDropped, Return, Alive
<1>12. CASE Cancel(t) BY <1>12 DEF Cancel, Return
<1> QED BY <1>1, <1>2, <1>3, <1>4, <1>5, <1>6, <1>7, <1>8, <1>9, <1>10, <1>11, <1>12
        DEF CallerStep

(* The worker moves a command from the channel into the database and its   *)
(* result into the one-shot.                                               *)
LEMMA SafeWorker ==
  ASSUME TypeInv, SafeInv, WorkerStep
  PROVE  SafeInv'
<1> USE QueueAssumption DEF TypeInv, TypeOK, WorkerShape, SafeInv, NotSent, Mutex, OnePlace, Pending,
    Replies, Answers, PcStates, Outcomes, WorkerStates, lockVars, callerVars, workerVars, dbVars, Data, Tasks
<1>1. CASE WorkerStart BY <1>1 DEF WorkerStart
<1>2. CASE WorkerStartFails BY <1>2, RangeEmpty DEF WorkerStartFails, Die, NoRepeat
<1>3. CASE Recv
  <2>1. current' \in Range(chan) /\ Range(chan') \subseteq Range(chan)
    BY <1>3, RangeTail DEF Recv, Ready
  <2>2. NoRepeat(chan') /\ current' \notin Range(chan')
    BY <1>3, NoRepeatTail DEF Recv, Ready
  <2>3. current' # NoTask /\ worker' = "running"
        /\ UNCHANGED <<callerVars, lockVars, reply, dbVars, admitted>>
    BY <1>3, RangeTail, RangeSeq DEF Recv, Ready
  <2>4. NotSent' /\ Mutex' /\ OnePlace' BY <2>1, <2>2, <2>3
  <2>5. Pending' BY <2>1, <2>2, <2>3
  <2>6. current = NoTask BY <1>3 DEF Recv, Ready
  <2>7. Replies' /\ Answers' BY <2>1, <2>2, <2>3, <2>6, RangeSeq
  <2> QED BY <2>4, <2>5, <2>7
<1>4. CASE RecvFlush BY <1>4, RangeTail, NoRepeatTail, RangeSeq DEF RecvFlush, Ready
<1>5. CASE RecvShutdown BY <1>5, RangeTail, RangeEmpty, RangeSeq DEF RecvShutdown, Ready, NoRepeat
<1>6. CASE RunOk
  <2>1. current \in Data BY <1>6 DEF RunOk
  <2>2. Range(Append(log, current)) = Range(log) \cup {current}
    <3> log \in Seq(Data) OBVIOUS
    <3> HIDE DEF Data
    <3> QED BY <2>1, RangeAppend
  <2> QED BY <1>6, <2>1, <2>2 DEF RunOk
<1>7. CASE TransactionFails BY <1>7 DEF TransactionFails
<1>8. CASE JobFails BY <1>8 DEF JobFails
<1>9. CASE JobPanics BY <1>9, RangeEmpty DEF JobPanics, Die, NoRepeat
<1>10. CASE Finish
  <2>1. result \in {"ok", "failed"} /\ current \in Data BY <1>10 DEF Finish
  <2>2. reply' = [reply EXCEPT ![current] = result] /\ current' = NoTask
        /\ worker' = "idle"
        /\ UNCHANGED <<callerVars, lockVars, chan, log, partial, admitted>>
    BY <1>10 DEF Finish
  <2>3. result = "ok" <=> current \in Range(log) BY <1>10 DEF Finish
  <2>4. NotSent' /\ Mutex' /\ OnePlace' BY <2>1, <2>2, RangeSeq
  <2>5. Pending' BY <2>1, <2>2
  <2>6. Replies' BY <2>1, <2>2, <2>3
  <2>7. Answers' BY <2>1, <2>2
  <2> QED BY <2>4, <2>5, <2>6, <2>7
<1> QED BY <1>1, <1>2, <1>3, <1>4, <1>5, <1>6, <1>7, <1>8, <1>9, <1>10 DEF WorkerStep

(* The invariant is preserved by every step of a caller or of the worker.  *)
LEMMA SafeStep == TypeInv /\ SafeInv /\ [Next]_vars => SafeInv'
<1> SUFFICES ASSUME TypeInv, SafeInv, [Next]_vars PROVE SafeInv'
  OBVIOUS
<1>1. CASE UNCHANGED vars
  BY <1>1 DEF vars, SafeInv, NotSent, Mutex, OnePlace, Pending, Replies, Answers, NoRepeat
<1> QED BY <1>1, SafeCaller, SafeWorker DEF Next

(* The inductive invariant holds in every reachable state.                 *)
THEOREM SafeInvariant == Spec => [](TypeInv /\ SafeInv)
<1>1. TypeInv /\ SafeInv /\ [Next]_vars => SafeInv' BY SafeStep
<1> QED BY <1>1, SafeInit, TypeInvariant, PTL DEF Spec

(* TypeOK, which the model checker verifies on a small instance.           *)
THEOREM TypeCorrect == Spec => []TypeOK
<1>1. TypeInv => TypeOK BY DEF TypeInv
<1> QED BY <1>1, TypeInvariant, PTL

(* A caller told Busy or Closed may try again: its write did not happen    *)
(* and never will (admit_once, admit_control).                             *)
THEOREM RefusalsAreFinal == Spec => []RefusedNeverApplied
<1>1. SafeInv => RefusedNeverApplied BY DEF SafeInv, Answers, RefusedNeverApplied
<1> QED BY <1>1, SafeInvariant, PTL

(* Success means the write is in the database; a failed or abandoned       *)
(* transaction is not (run_write_worker, submit_transaction).              *)
THEOREM AnswersAreTruthful == Spec => []AnswerIsTruthful
<1>1. SafeInv => RefusedNeverApplied BY DEF SafeInv, Answers, RefusedNeverApplied
<1>2. TypeInv /\ SafeInv => AnswerIsTruthful
  BY <1>1 DEF SafeInv, Answers, Replies, AnswerIsTruthful, Applied, Data, Tasks
<1> QED BY <1>2, SafeInvariant, PTL

-----------------------------------------------------------------------------
(* Closing.  Once the flag is up, only the call that raised it can be      *)
(* inside the mutex, because everybody else enters only on an open queue.  *)
CloserInside == closed /\ holder # NoTask => holder \in Shutdowns

(* The critical section that raises the flag lasts until Shutdown is in    *)
(* the channel, so nothing can be admitted behind it (admit_control).      *)
THEOREM NothingAfterClose == Spec => NoAdmissionAfterClose
<1>1. Init => CloserInside BY DEF Init, CloserInside
<1>2. TypeInv /\ SafeInv /\ CloserInside /\ [Next]_vars => CloserInside'
  <2> SUFFICES ASSUME TypeInv, SafeInv, CloserInside, [Next]_vars PROVE CloserInside'
    OBVIOUS
  <2> USE DEF CloserInside, lockVars
  <2>1. ASSUME NEW t \in Tasks, CallerStep(t) PROVE CloserInside'
    BY <2>1 DEF CallerStep, Submit, Acquire, AcquireClosed, LockTimeout, ReserveTimeout,
       ReserveStopped, Reserve, Send, Wake, TakeReply, ReplyDropped, Cancel
  <2>2. ASSUME WorkerStep PROVE CloserInside'
    BY <2>2 DEF WorkerStep, WorkerStart, WorkerStartFails, Die, Recv, RecvFlush,
       RecvShutdown, RunOk, TransactionFails, JobFails, JobPanics, Finish
  <2>3. CASE UNCHANGED vars BY <2>3 DEF vars
  <2> QED BY <2>1, <2>2, <2>3 DEF Next
<1>3. TypeInv /\ SafeInv /\ CloserInside /\ [Next]_vars
        => (closed /\ admitted' # admitted => admitted'[Len(admitted')] \in Shutdowns)
  <2> SUFFICES ASSUME TypeInv, SafeInv, CloserInside, [Next]_vars, closed, admitted' # admitted
               PROVE  admitted'[Len(admitted')] \in Shutdowns
    OBVIOUS
  <2>1. PICK t \in Tasks : Send(t)
    BY DEF Next, vars, CallerStep, Submit, Acquire, AcquireClosed, LockTimeout,
       ReserveTimeout, ReserveStopped, Reserve, Wake, TakeReply, ReplyDropped, Cancel,
       WorkerStep, WorkerStart, WorkerStartFails, Die, Recv, RecvFlush, RecvShutdown,
       RunOk, TransactionFails, JobFails, JobPanics, Finish
  <2>2. holder = t /\ t # NoTask
    BY <2>1, QueueAssumption DEF Send, SafeInv, Mutex
  <2>3. t \in Shutdowns BY <2>2 DEF CloserInside
  <2>4. admitted \in Seq(Tasks) /\ admitted' = Append(admitted, t)
    BY <2>1 DEF Send, TypeInv, TypeOK
  <2> QED BY <2>3, <2>4
<1> QED BY <1>1, <1>2, <1>3, SafeInvariant, PTL DEF Spec, NoAdmissionAfterClose

-----------------------------------------------------------------------------
(* Refinement.                                                             *)

(* A new queue is an empty ledger.                                         *)
LEMMA LedgerInit == Init => Ledger!Init
BY DEF Init, Ledger!Init, Tasks

(* A step of a caller is a stutter of the ledger or the answer of a call.  *)
LEMMA LedgerCaller ==
  ASSUME TypeInv, SafeInv, NEW t \in Tasks, CallerStep(t)
  PROVE  [Ledger!Next]_(Ledger!vars)
<1> DEFINE A == {"ok", "failed", "stopped", "busy", "closed", "cancelled"}
<1>1. Ledger!Committed = Range(log) BY DEF Ledger!Committed, Range
<1>2. log \in Seq(Data) /\ Range(log) \subseteq Data BY RangeSeq DEF TypeInv, TypeOK
<1>3. ASSUME NEW a \in A, outcome[t] = "none", Ledger!MayAnswer(t, a), Return(t, a),
             UNCHANGED <<log, partial>>
      PROVE  Ledger!Next
  BY <1>3 DEF Ledger!Next, Ledger!Answer, Return, Tasks
<1>4. CASE UNCHANGED <<log, partial, outcome>> BY <1>4 DEF Ledger!vars
<1>5. outcome[t] = "none" \/ pc[t] = "done" BY DEF SafeInv, Answers
<1>6. CASE AcquireClosed(t)
  BY <1>1, <1>3, <1>6 DEF AcquireClosed, CanLock, Ledger!MayAnswer, SafeInv, NotSent, dbVars
<1>7. CASE LockTimeout(t) 
  BY <1>1, <1>3, <1>4, <1>7 DEF LockTimeout, Busy, Ledger!MayAnswer, SafeInv, NotSent, dbVars
<1>8. CASE ReserveTimeout(t)
  BY <1>1, <1>3, <1>4, <1>8 DEF ReserveTimeout, Busy, Ledger!MayAnswer, SafeInv, NotSent, dbVars
<1>9. CASE ReserveStopped(t)
  BY <1>1, <1>3, <1>9 DEF ReserveStopped, Ledger!MayAnswer, SafeInv, NotSent, dbVars
<1>10. CASE TakeReply(t)
  <2>1. reply[t] \in {"ok", "failed"} BY <1>10 DEF TakeReply, TypeInv, TypeOK
  <2>2. outcome[t] = "none" BY <1>5, <1>10 DEF TakeReply
  <2>3. Ledger!MayAnswer(t, reply[t])
    BY <1>1, <1>2, <2>1, QueueAssumption DEF Ledger!MayAnswer, SafeInv, Replies, Tasks
  <2> QED BY <1>3, <1>10, <2>1, <2>2, <2>3 DEF TakeReply, dbVars
<1>11. CASE ReplyDropped(t)
  <2>1. outcome[t] = "none" BY <1>5, <1>11 DEF ReplyDropped
  <2>2. current # t BY <1>11, QueueAssumption DEF ReplyDropped, Alive, TypeInv, WorkerShape
  <2>3. t \notin Range(log) BY <1>11, <2>2 DEF ReplyDropped, SafeInv, Replies
  <2>4. Ledger!MayAnswer(t, "stopped") BY <1>1, <2>3 DEF Ledger!MayAnswer
  <2> QED BY <1>3, <1>11, <2>1, <2>4 DEF ReplyDropped, dbVars
<1>12. CASE Cancel(t)
  <2>1. outcome[t] = "none" BY <1>5, <1>12 DEF Cancel
  <2>2. Ledger!MayAnswer(t, "cancelled") BY DEF Ledger!MayAnswer
  <2> QED BY <1>3, <1>12, <2>1, <2>2 DEF Cancel, dbVars
<1>13. CASE Submit(t) \/ Acquire(t) \/ Reserve(t) \/ Send(t) \/ Wake(t)
  BY <1>4, <1>13 DEF Submit, Acquire, Reserve, Send, Wake, dbVars
<1> QED BY <1>6, <1>7, <1>8, <1>9, <1>10, <1>11, <1>12, <1>13 DEF CallerStep

(* A step of the worker is a stutter, one commit or one broken off job.    *)
LEMMA LedgerWorker ==
  ASSUME TypeInv, SafeInv, WorkerStep
  PROVE  [Ledger!Next]_(Ledger!vars)
<1>1. Ledger!Committed = Range(log) BY DEF Ledger!Committed, Range
<1>2. CASE UNCHANGED <<log, partial, outcome>> BY <1>2 DEF Ledger!vars
<1>3. ASSUME worker = "running"
      PROVE  /\ current \in Data /\ Ledger!Open(current)
             /\ current \notin Ledger!Committed \cup partial
  BY <1>1, <1>3 DEF TypeInv, TypeOK, WorkerShape, SafeInv, Pending, Ledger!Open
<1>4. CASE RunOk
  <2>1. Ledger!Commit(current) BY <1>3, <1>4 DEF RunOk, Ledger!Commit, callerVars
  <2> QED BY <1>3, <1>4, <2>1 DEF RunOk, Ledger!Next
<1>5. ASSUME worker = "running", current \in Jobs, partial' = partial \cup {current},
             UNCHANGED <<log, outcome>>
      PROVE  Ledger!Next
  BY <1>3, <1>5 DEF Ledger!Next, Ledger!BreakOff
<1>6. CASE JobFails
  BY <1>2, <1>5, <1>6 DEF JobFails, callerVars
<1>7. CASE JobPanics
  BY <1>2, <1>5, <1>7 DEF JobPanics, Die, callerVars
<1>8. CASE WorkerStart \/ WorkerStartFails \/ Recv \/ RecvFlush \/ RecvShutdown
           \/ TransactionFails \/ Finish
  BY <1>2, <1>8 DEF WorkerStart, WorkerStartFails, Die, Recv, RecvFlush, RecvShutdown,
     TransactionFails, Finish, dbVars, callerVars
<1> QED BY <1>4, <1>6, <1>7, <1>8 DEF WorkerStep

(* Whatever callers and worker do, the queue behaves as the ledger: every  *)
(* write commits at most once and no answer is contradicted, then or       *)
(* later, by the database.                                                 *)
THEOREM QueueImplementsLedger == Spec => ImplementsLedger
<1>1. TypeInv /\ SafeInv /\ [Next]_vars => [Ledger!Next]_(Ledger!vars)
  <2> SUFFICES ASSUME TypeInv, SafeInv, [Next]_vars PROVE [Ledger!Next]_(Ledger!vars)
    OBVIOUS
  <2>1. CASE UNCHANGED vars BY <2>1 DEF vars, Ledger!vars
  <2> QED BY <2>1, LedgerCaller, LedgerWorker DEF Next
<1> QED BY <1>1, LedgerInit, SafeInvariant, PTL DEF Spec, ImplementsLedger, Ledger!Spec

-----------------------------------------------------------------------------
(* Order.  What callers and worker have done with the commands that were   *)
(* admitted, in the order they were.                                       *)

Received == Len(admitted) - Len(chan)

(* The channel is the end of what was admitted, the running command is the *)
(* one received last, and the closing command stays the last of all: once  *)
(* it was sent the mutex is free and the queue closed.                     *)
Line ==
  /\ NoRepeat(admitted)
  /\ Received \in Nat
  /\ \A i \in 1..Len(chan) : chan[i] = admitted[Received + i]
  /\ current # NoTask => Received # 0 /\ current = admitted[Received]
  /\ holder \in Shutdowns => closed
  /\ closed /\ holder # NoTask => holder \in Shutdowns
  /\ \A i \in 1..Len(admitted) :
       admitted[i] \in Shutdowns => i = Len(admitted) /\ holder = NoTask /\ closed
  /\ worker = "stopped" => closed /\ holder = NoTask

(* The log follows the order of admission.                                 *)
Ordered ==
  /\ \A i \in 1..Len(log) : \E k \in 1..Received : log[i] = admitted[k]
  /\ \A i, j \in 1..Len(log), k, l \in 1..Len(admitted) :
       i < j /\ log[i] = admitted[k] /\ log[j] = admitted[l] => k < l

(* While the worker lives it has executed what it received.  A flush that  *)
(* was answered, and the closing command, found it so.                     *)
Barriers ==
  /\ Alive => \A i \in 1..Received, x \in Data :
       admitted[i] = x /\ x # current => Executed(x)
  /\ \A i \in 1..Len(admitted), f \in Flushes : admitted[i] = f /\ reply[f] = "ok" =>
       \A j \in 1..(i - 1), x \in Data : admitted[j] = x => Executed(x)
  /\ ShutdownDrains

OrderInv == Line /\ Ordered /\ CallbacksFollowCommit /\ Barriers

(* The sequences and their ranges, as facts about places.                  *)
LEMMA Places ==
  ASSUME TypeInv
  PROVE  /\ Len(chan) \in Nat /\ Len(admitted) \in Nat /\ Len(log) \in Nat
         /\ DOMAIN chan = 1..Len(chan) /\ DOMAIN admitted = 1..Len(admitted)
         /\ DOMAIN log = 1..Len(log)
         /\ \A t : t \in Range(admitted) <=> \E i \in 1..Len(admitted) : admitted[i] = t
         /\ \A t : t \in Range(chan) <=> \E i \in 1..Len(chan) : chan[i] = t
         /\ \A t : t \in Range(log) <=> \E i \in 1..Len(log) : log[i] = t
         /\ \A i \in 1..Len(admitted) : admitted[i] \in Tasks
         /\ \A i \in 1..Len(log) : log[i] \in Data
BY DEF TypeInv, TypeOK, Range

(* A command that was executed stays so while the log and the replies only *)
(* grow, and so do the barriers that were passed.                          *)
LEMMA BarriersStay ==
  ASSUME TypeInv, Barriers, Alive' => Alive,
         UNCHANGED admitted, worker' = "stopped" => worker = "stopped",
         Received' = Received \/ ~Alive', current' = current \/ ~Alive',
         \A t \in Data : Executed(t) => Executed(t)',
         \A t \in Flushes : reply'[t] = reply[t]
  PROVE  Barriers'
BY DEF Barriers, ShutdownDrains

(* A step that touches neither the channel nor the mutex nor the database  *)
(* nor a reply keeps the order.                                            *)
LEMMA OrderIdle ==
  ASSUME OrderInv, UNCHANGED <<admitted, chan, current, worker, log, reply, callbacks>>, Line'
  PROVE  OrderInv'
<1>1. Received' = Received BY DEF Received
<1>2. Ordered' BY <1>1 DEF OrderInv, Ordered
<1>3. CallbacksFollowCommit' BY DEF OrderInv, CallbacksFollowCommit, Applied
<1>4. Barriers'
  <2>1. \A x : Executed(x)' <=> Executed(x) BY DEF Executed, Applied
  <2> QED BY <1>1, <2>1 DEF OrderInv, Barriers, ShutdownDrains, Alive
<1> QED BY <1>2, <1>3, <1>4 DEF OrderInv

(* Callers: only Send adds a command, and nobody sends behind the closing  *)
(* one.                                                                    *)
LEMMA OrderCaller ==
  ASSUME TypeInv, SafeInv, OrderInv, NEW t \in Tasks, CallerStep(t)
  PROVE  OrderInv'
<1> USE DEF OrderInv
<1>a. t # NoTask /\ NoTask \notin Shutdowns BY QueueAssumption DEF Tasks
<1>1. CASE UNCHANGED <<admitted, chan, current, worker, log, reply, callbacks, holder, closed>>
  <2>1. Line' BY <1>1 DEF Line, Received, NoRepeat
  <2> QED BY <1>1, <2>1, OrderIdle
<1>2. ASSUME UNCHANGED <<admitted, chan, current, worker, log, reply, callbacks, closed>>,
             holder' = NoTask
      PROVE  OrderInv'
  <2>1. Line' BY <1>a, <1>2 DEF Line, Received, NoRepeat
  <2> QED BY <1>2, <2>1, OrderIdle
<1>3. CASE Acquire(t)
  <2>1. /\ UNCHANGED <<admitted, chan, current, worker, log, reply, callbacks>>
        /\ ~closed /\ holder' = t /\ closed' = (t \in Shutdowns)
    BY <1>3 DEF Acquire, workerVars, dbVars
  <2>2. Line' BY <1>a, <2>1 DEF Line, Received, NoRepeat
  <2> QED BY <2>1, <2>2, OrderIdle
<1>4. CASE Send(t)
  <2>1. /\ UNCHANGED <<current, worker, log, reply, callbacks, closed>>
        /\ holder' = NoTask /\ chan' = Append(chan, t) /\ admitted' = Append(admitted, t)
        /\ holder = t /\ t \notin Range(admitted) /\ t \notin Range(log) /\ reply[t] = "none"
    BY <1>4 DEF Send, workerVars, dbVars, SafeInv, NotSent, Mutex
  <2>2. admitted \in Seq(Tasks) /\ chan \in Seq(Tasks) BY DEF TypeInv, TypeOK
  <2>3. /\ Len(admitted') = Len(admitted) + 1 /\ Len(chan') = Len(chan) + 1
        /\ Len(admitted) \in Nat /\ Len(chan) \in Nat
        /\ \A i \in 1..Len(admitted) : admitted'[i] = admitted[i]
        /\ \A i \in 1..Len(chan) : chan'[i] = chan[i]
        /\ admitted'[Len(admitted) + 1] = t /\ chan'[Len(chan) + 1] = t
    BY <2>1, <2>2
  <2>4. Received' = Received BY <2>3 DEF Received
  <2>a. Received \in Nat /\ Received <= Len(admitted) BY <2>3 DEF Line, Received
  <2>5. \A i \in 1..Len(admitted) : admitted[i] # t /\ admitted[i] \notin Shutdowns
    BY <1>a, <2>1, Places DEF Line
  <2>6. Line'
    <3>1. NoRepeat(admitted') BY <2>1, <2>2, NoRepeatAppend DEF Line
    <3>2. \A i \in 1..Len(chan') : chan'[i] = admitted'[Received' + i]
      <4> TAKE i \in 1..Len(chan')
      <4>1. CASE i = Len(chan) + 1 BY <2>3, <2>4, <4>1 DEF Received
      <4>2. CASE i # Len(chan) + 1
        <5>1. i \in 1..Len(chan) /\ Received + i \in 1..Len(admitted)
          BY <2>3, <4>2 DEF Received, Line
        <5> QED BY <2>3, <2>4, <5>1 DEF Line
      <4> QED BY <4>1, <4>2
    <3>3. current' # NoTask => Received' # 0 /\ current' = admitted'[Received']
      BY <2>1, <2>3, <2>4, <2>a DEF Line
    <3>4. \A i \in 1..Len(admitted') :
            admitted'[i] \in Shutdowns => i = Len(admitted') /\ closed
      BY <2>1, <2>3, <2>5 DEF Line
    <3> QED BY <1>a, <2>1, <2>4, <3>1, <3>2, <3>3, <3>4 DEF Line
  <2>7. Ordered'
    <3>1. \A i \in 1..Len(log) : log[i] # t BY <2>1, Places
    <3>2. Received <= Len(admitted) /\ Received \in Nat BY <2>3 DEF Line, Received
    <3>3. \A i \in 1..Len(log') : \E k \in 1..Received' : log'[i] = admitted'[k]
      BY <2>1, <2>3, <2>4, <3>2 DEF Ordered
    <3>4. \A i \in 1..Len(log), k \in 1..Len(admitted') :
            log[i] = admitted'[k] => k \in 1..Len(admitted) /\ log[i] = admitted[k]
      BY <2>3, <3>1
    <3>5. \A i, j \in 1..Len(log'), k, l \in 1..Len(admitted') :
            i < j /\ log'[i] = admitted'[k] /\ log'[j] = admitted'[l] => k < l
      BY <2>1, <3>4 DEF Ordered
    <3> QED BY <3>3, <3>5 DEF Ordered
  <2>8. CallbacksFollowCommit' BY <2>1 DEF CallbacksFollowCommit, Applied
  <2>9. Barriers'
    <3>1. \A x : Executed(x)' <=> Executed(x) BY <2>1 DEF Executed, Applied
    <3>2. Received <= Len(admitted) /\ Received \in Nat BY <2>3 DEF Line, Received
    <3>3. Alive' => \A i \in 1..Received', x \in Data :
            admitted'[i] = x /\ x # current' => Executed(x)'
      BY SMTT(30), <2>1, <2>3, <2>4, <3>1, <3>2 DEF Barriers, Alive
    <3>4. ASSUME NEW i \in 1..Len(admitted'), NEW f \in Flushes, admitted'[i] = f,
                 reply'[f] = "ok", NEW j \in 1..(i - 1), NEW x \in Data, admitted'[j] = x
          PROVE  Executed(x)'
      <4>1. i \in 1..Len(admitted)
        <5>1. i # Len(admitted) + 1 BY <2>1, <2>3, <3>4
        <5> QED BY <2>3, <5>1
      <4>2. j \in 1..Len(admitted) BY <2>3, <4>1
      <4> QED BY <2>1, <2>3, <3>1, <3>4, <4>1, <4>2 DEF Barriers
    <3>5. ShutdownDrains' BY <1>a, <2>1 DEF ShutdownDrains, Line
    <3> QED BY <3>3, <3>4, <3>5 DEF Barriers
  <2> QED BY <2>6, <2>7, <2>8, <2>9
<1>5. CASE ReserveTimeout(t) \/ ReserveStopped(t)
  BY <1>2, <1>5 DEF ReserveTimeout, ReserveStopped, workerVars, dbVars
<1>6. CASE Cancel(t) BY <1>1, <1>2, <1>6 DEF Cancel, workerVars, dbVars
<1>7. CASE Submit(t) \/ AcquireClosed(t) \/ LockTimeout(t) \/ Reserve(t) \/ Wake(t)
           \/ TakeReply(t) \/ ReplyDropped(t)
  BY <1>1, <1>7 DEF Submit, AcquireClosed, LockTimeout, Reserve, Wake, TakeReply,
     ReplyDropped, workerVars, lockVars, dbVars
<1> QED BY <1>3, <1>4, <1>5, <1>6, <1>7 DEF CallerStep

(* What has been received stays received, so the log stays in its order.    *)
LEMMA StillOrdered ==
  ASSUME Ordered, UNCHANGED <<admitted, log>>, \A k \in 1..Received : k \in 1..Received'
  PROVE  Ordered'
BY DEF Ordered

(* The worker: it receives in order, executes what it received before the  *)
(* next command, and stops behind the closing one.                         *)
LEMMA OrderWorker ==
  ASSUME TypeInv, SafeInv, OrderInv, WorkerStep
  PROVE  OrderInv'
<1> USE DEF OrderInv
<1>a. /\ NoTask \notin Tasks /\ Data \cap (Flushes \cup Shutdowns) = {} /\ Flushes \cap Shutdowns = {}
      /\ Data \subseteq Tasks /\ Flushes \subseteq Tasks /\ Shutdowns \subseteq Tasks
  BY QueueAssumption DEF Tasks
<1>b. chan \in Seq(Tasks) /\ log \in Seq(Data) /\ Received \in Nat /\ Received <= Len(admitted)
      /\ Len(admitted) \in Nat /\ Len(chan) \in Nat
  BY Places DEF TypeInv, TypeOK, Line, Received
<1>c. current \in Data \cup {NoTask} /\ (worker \in {"running", "finish"} <=> current # NoTask)
  BY DEF TypeInv, TypeOK, WorkerShape
<1>e. \A i, j \in 1..Len(admitted) : admitted[i] = admitted[j] => i = j
  BY Places DEF Line, NoRepeat
\* the head of the channel is the next command
<1>d. ASSUME Ready, chan' = Tail(chan), UNCHANGED admitted
      PROVE  /\ Head(chan) = admitted[Received + 1] /\ Received' = Received + 1
             /\ Received + 1 \in 1..Len(admitted) /\ current = NoTask
             /\ \A i \in 1..Len(chan') : chan'[i] = admitted[Received + 1 + i]
  <2>1. /\ Len(chan') = Len(chan) - 1 /\ Len(chan) > 0 /\ Head(chan) = chan[1]
        /\ \A i \in 1..Len(chan') : chan'[i] = chan[i + 1]
    BY <1>b, <1>d DEF Ready
  <2>2. Head(chan) = admitted[Received + 1] BY <1>b, <2>1 DEF Line
  <2>a. Received' = Len(admitted) - Len(chan') BY <1>d DEF Received
  <2>b. Received = Len(admitted) - Len(chan) BY DEF Received
  <2>3. Received' = Received + 1 BY <1>b, <2>a, <2>b, <2>1
  <2>4. Received + 1 \in 1..Len(admitted) BY <1>b, <2>1 DEF Received
  <2>5. \A i \in 1..Len(chan') : chan[i + 1] = admitted[Received + (i + 1)]
    BY <1>b, <2>1 DEF Line
  <2>6. current = NoTask BY <1>c, <1>d DEF Ready
  <2>7. ASSUME NEW i \in 1..Len(chan')
        PROVE  chan'[i] = admitted[Received + 1 + i]
    <3>1. PICK r : r = Received OBVIOUS
    <3>2. Len(chan') \in Nat /\ i \in Int /\ r \in Int BY <1>b, <2>1, <3>1
    <3>3. r + (i + 1) = r + 1 + i BY <3>2
    <3>4. chan'[i] = admitted[r + (i + 1)] BY <2>1, <2>5, <3>1
    <3> QED BY <3>1, <3>3, <3>4
  <2> QED BY <2>2, <2>3, <2>4, <2>6, <2>7
\* the worker starts, or ends the statements of a command that failed
<1>1. CASE WorkerStart \/ TransactionFails \/ JobFails
  <2>1. /\ UNCHANGED <<admitted, chan, current, log, reply, callbacks, holder, closed>>
        /\ worker' # "stopped" /\ Alive
    BY <1>1 DEF WorkerStart, TransactionFails, JobFails, callerVars, lockVars, dbVars, Alive
  <2>2. Line' BY <2>1 DEF Line, Received, NoRepeat
  <2>3. Received' = Received BY <2>1 DEF Received
  <2>4. Ordered' BY <2>1, <2>3 DEF Ordered
  <2>5. CallbacksFollowCommit' BY <2>1 DEF CallbacksFollowCommit, Applied
  <2>6. Barriers'
    BY <2>1, <2>3, BarriersStay DEF Executed, Applied
  <2> QED BY <2>2, <2>4, <2>5, <2>6
\* the worker dies, and the channel with it
<1>2. CASE WorkerStartFails \/ JobPanics
  <2>1. /\ UNCHANGED <<admitted, log, reply, callbacks, holder, closed>>
        /\ worker' = "dead" /\ chan' = <<>> /\ current' = NoTask
        /\ current # NoTask => current \notin Range(log)
    BY <1>2, <1>c DEF WorkerStartFails, JobPanics, Die, lockVars, dbVars, SafeInv, Pending
  <2>2. Received' = Len(admitted) /\ Len(chan') = 0 BY <1>b, <2>1 DEF Received
  <2>3. Line' BY <1>b, <2>1, <2>2 DEF Line, NoRepeat
  <2>4. Ordered'
    <3>1. \A k \in 1..Received : k \in 1..Received' BY <1>b, <2>2
    <3> QED BY <2>1, <3>1, StillOrdered
  <2>5. CallbacksFollowCommit' BY <2>1 DEF CallbacksFollowCommit, Applied
  <2>6. ~Alive' BY <2>1 DEF Alive
  <2>7. Barriers' BY <2>1, <2>6, BarriersStay DEF Executed, Applied
  <2> QED BY <2>3, <2>4, <2>5, <2>7
<1>3. CASE Recv
  <2>1. /\ UNCHANGED <<admitted, log, reply, callbacks, holder, closed>>
        /\ worker' = "running" /\ chan' = Tail(chan) /\ current' = Head(chan) /\ Ready
        /\ Head(chan) \in Data
    BY <1>3 DEF Recv, lockVars, dbVars
  <2>2. /\ Head(chan) = admitted[Received + 1] /\ Received' = Received + 1
        /\ Received + 1 \in 1..Len(admitted) /\ current = NoTask
        /\ \A i \in 1..Len(chan') : chan'[i] = admitted[Received + 1 + i]
    BY <1>d, <2>1
  <2>3. Line' BY <1>b, <2>1, <2>2 DEF Line, NoRepeat
  <2>4. Ordered'
    <3>1. \A k \in 1..Received : k \in 1..Received' BY <1>b, <2>2
    <3> QED BY <2>1, <3>1, StillOrdered
  <2>5. CallbacksFollowCommit'
    BY <1>a, <2>1, <2>2 DEF CallbacksFollowCommit, Applied, Data
  <2>6. \A x : Executed(x)' <=> Executed(x) BY <2>1 DEF Executed, Applied
  <2>7. Barriers'
    <3>1. Alive' => \A i \in 1..Received', x \in Data :
            admitted'[i] = x /\ x # current' => Executed(x)'
      <4> SUFFICES ASSUME NEW i \in 1..(Received + 1), NEW x \in Data,
                          admitted[i] = x, x # Head(chan)
                   PROVE  Executed(x)
        BY <2>1, <2>2, <2>6
      <4>1. i \in 1..Received BY <1>b, <2>2
      <4>2. Alive /\ x # current BY <1>a, <2>1, <2>2 DEF Alive, Ready
      <4> QED BY <4>1, <4>2 DEF Barriers
    <3> QED BY <2>1, <2>6, <3>1 DEF Barriers, ShutdownDrains
  <2> QED BY <2>3, <2>4, <2>5, <2>7
<1>4. CASE RecvFlush
  <2>1. /\ UNCHANGED <<admitted, log, current, worker, callbacks, holder, closed>>
        /\ chan' = Tail(chan) /\ Ready /\ Head(chan) \in Flushes
        /\ reply' = [reply EXCEPT ![Head(chan)] = "ok"]
    BY <1>4 DEF RecvFlush, workerVars, lockVars, dbVars
  <2>2. /\ Head(chan) = admitted[Received + 1] /\ Received' = Received + 1
        /\ Received + 1 \in 1..Len(admitted) /\ current = NoTask
        /\ \A i \in 1..Len(chan') : chan'[i] = admitted[Received + 1 + i]
    BY <1>d, <2>1
  <2>3. \A x \in Tasks : reply'[x] = IF x = Head(chan) THEN "ok" ELSE reply[x]
    BY <2>1 DEF TypeInv, TypeOK
  <2>4. Line' BY <1>b, <2>1, <2>2 DEF Line, NoRepeat
  <2>5. Ordered'
    <3>1. \A k \in 1..Received : k \in 1..Received' BY <1>b, <2>2
    <3> QED BY <2>1, <3>1, StillOrdered
  <2>6. \A x \in Data : reply'[x] = reply[x] /\ (Executed(x)' <=> Executed(x))
    BY <1>a, <2>1, <2>3 DEF Executed, Applied
  <2>7. CallbacksFollowCommit'
    BY <2>1, <2>6 DEF CallbacksFollowCommit, Applied, Data
  <2>8. Barriers'
    <3>1. Alive' => \A i \in 1..Received', x \in Data :
            admitted'[i] = x /\ x # current' => Executed(x)'
      BY SMTT(30), <1>a, <1>b, <2>1, <2>2, <2>6 DEF Barriers, Alive
    <3>2. ASSUME NEW i \in 1..Len(admitted'), NEW f \in Flushes, admitted'[i] = f,
                 reply'[f] = "ok", NEW j \in 1..(i - 1), NEW x \in Data, admitted'[j] = x
          PROVE  Executed(x)'
      <4>1. CASE f = Head(chan)
        <5>1. i = Received + 1 BY <1>b, <1>e, <2>1, <2>2, <3>2, <4>1
        <5>2. j \in 1..Received BY <1>b, <5>1
        <5>3. Alive /\ x # current BY <1>a, <2>1, <2>2 DEF Alive, Ready
        <5> QED BY <2>1, <2>6, <3>2, <5>2, <5>3 DEF Barriers
      <4>2. CASE f # Head(chan)
        BY <1>a, <2>1, <2>3, <2>6, <3>2, <4>2 DEF Barriers
      <4> QED BY <4>1, <4>2
    <3>3. ShutdownDrains' BY <2>1 DEF ShutdownDrains, Ready
    <3> QED BY <3>1, <3>2, <3>3 DEF Barriers
  <2> QED BY <2>4, <2>5, <2>7, <2>8
<1>5. CASE RecvShutdown
  <2>1. /\ UNCHANGED <<admitted, log, current, callbacks, holder, closed>>
        /\ worker' = "stopped" /\ chan' = <<>> /\ Ready /\ Head(chan) \in Shutdowns
        /\ reply' = [reply EXCEPT ![Head(chan)] = "ok"]
    BY <1>5 DEF RecvShutdown, workerVars, lockVars, dbVars
  <2>2. /\ Head(chan) = chan[1] /\ Len(chan) > 0 /\ Len(chan') = 0 /\ current = NoTask
    BY <1>b, <1>c, <2>1 DEF Ready
  <2>3. Head(chan) = admitted[Received + 1] /\ Received + 1 \in 1..Len(admitted)
    BY <1>b, <2>2 DEF Line, Received
  <2>4. Received + 1 = Len(admitted) /\ holder = NoTask /\ closed
    BY <2>1, <2>3 DEF Line
  <2>5. Received' = Len(admitted) BY <1>b, <2>1, <2>2 DEF Received
  <2>6. \A x \in Tasks : reply'[x] = IF x = Head(chan) THEN "ok" ELSE reply[x]
    BY <2>1 DEF TypeInv, TypeOK
  <2>7. \A x \in Tasks \ Shutdowns : reply'[x] = reply[x]
    BY <2>1, <2>6
  <2>8. \A x \in Data : Executed(x)' <=> Executed(x)
    BY <1>a, <2>1, <2>7 DEF Executed, Applied
  <2>9. Line' BY <1>b, <2>1, <2>2, <2>4, <2>5 DEF Line, NoRepeat
  <2>10. Ordered'
    <3>1. \A i \in 1..Len(log) : \E k \in 1..Len(admitted) : log[i] = admitted[k]
      BY <1>b DEF Ordered
    <3> QED BY <2>1, <2>5, <3>1 DEF Ordered
  <2>11. CallbacksFollowCommit'
    BY <1>a, <2>1, <2>7 DEF CallbacksFollowCommit, Applied, Data
  <2>12. Barriers'
    <3>1. ~Alive' BY <2>1 DEF Alive
    <3>2. ASSUME NEW x \in Range(admitted) \cap Data PROVE Executed(x)
      <4>1. PICK i \in 1..Len(admitted) : admitted[i] = x BY <3>2, Places
      <4>2. i \in 1..Received BY <1>a, <1>b, <2>1, <2>3, <2>4, <3>2, <4>1
      <4> QED BY <1>a, <2>1, <2>2, <3>2, <4>1, <4>2 DEF Barriers, Alive, Ready
    <3>3. ShutdownDrains' BY <2>1, <2>8, <3>2 DEF ShutdownDrains
    <3>4. \A i \in 1..Len(admitted'), f \in Flushes : admitted'[i] = f /\ reply'[f] = "ok" =>
            \A j \in 1..(i - 1), x \in Data : admitted'[j] = x => Executed(x)'
      BY <1>a, <2>1, <2>7, <2>8 DEF Barriers
    <3> QED BY <3>1, <3>3, <3>4 DEF Barriers
  <2> QED BY <2>9, <2>10, <2>11, <2>12
<1>6. CASE RunOk
  <2>1. /\ UNCHANGED <<admitted, chan, current, reply, callbacks, holder, closed>>
        /\ worker = "running" /\ worker' = "finish" /\ log' = Append(log, current)
    BY <1>6 DEF RunOk, callerVars, lockVars, dbVars
  <2>2. current \in Data /\ current # NoTask BY <1>a, <1>c, <2>1
  <2>3. /\ Len(log') = Len(log) + 1 /\ Len(log) \in Nat /\ log'[Len(log) + 1] = current
        /\ \A i \in 1..Len(log) : log'[i] = log[i]
    BY <1>b, <2>1, <2>2
  <2>4. Range(log') = Range(log) \cup {current}
    <3> HIDE DEF Data
    <3> QED BY <1>b, <2>1, <2>2, RangeAppend
  <2>5. reply[current] = "none" /\ current \notin Range(log)
    BY <2>1, <2>2 DEF SafeInv, Pending
  <2>6. Received' = Received BY <2>1 DEF Received
  <2>7. Line' BY <2>1, <2>6 DEF Line, NoRepeat
  <2>8. Ordered'
    <3>1. Received # 0 /\ current = admitted[Received] BY <2>2 DEF Line
    <3>2. \A k \in 1..Len(admitted) : admitted[k] = current => k = Received
      BY <1>b, <1>e, <3>1
    <3>3. \A i \in 1..Len(log'): \E k \in 1..Received : log'[i] = admitted[k]
      <4> TAKE i \in 1..Len(log')
      <4>1. CASE i = Len(log) + 1 BY <1>b, <2>3, <3>1, <4>1
      <4>2. CASE i # Len(log) + 1
        <5>1. i \in 1..Len(log) BY <2>3, <4>2
        <5> QED BY <2>3, <5>1 DEF Ordered
      <4> QED BY <4>1, <4>2
    <3>4. ASSUME NEW i \in 1..Len(log), NEW k \in 1..Len(admitted), log[i] = admitted[k]
          PROVE  k < Received
      <4>1. PICK m \in 1..Received : log[i] = admitted[m] BY <3>4 DEF Ordered
      <4>a. m \in 1..Len(admitted) /\ admitted[k] = admitted[m] BY <1>b, <3>4, <4>1
      <4>2. k = m BY <1>e, <4>a
      <4>3. log[i] # current BY <2>5, <3>4, Places
      <4>4. m # Received BY <3>1, <4>1, <4>3
      <4> QED BY <1>b, <4>1, <4>2, <4>4
    <3>5. ASSUME NEW i \in 1..Len(log'), NEW j \in 1..Len(log'), i < j,
                 NEW k \in 1..Len(admitted), NEW l \in 1..Len(admitted),
                 log'[i] = admitted[k], log'[j] = admitted[l]
          PROVE  k < l
      <4>1. i \in 1..Len(log) /\ log'[i] = log[i] BY <2>3, <3>5
      <4>2. CASE j = Len(log) + 1 BY <2>3, <3>2, <3>4, <3>5, <4>1, <4>2
      <4>3. CASE j # Len(log) + 1
        <5>1. j \in 1..Len(log) /\ log'[j] = log[j] BY <2>3, <3>5, <4>3
        <5> QED BY <3>5, <4>1, <5>1 DEF Ordered
      <4> QED BY <4>2, <4>3
    <3> QED BY <2>1, <2>6, <3>3, <3>5 DEF Ordered
  <2>9. CallbacksFollowCommit'
    BY <2>1, <2>4, <2>5 DEF CallbacksFollowCommit, Applied
  <2>10. Barriers'
    <3>1. \A x \in Data : Executed(x) => Executed(x)' BY <2>1, <2>4 DEF Executed, Applied
    <3>2. Alive /\ worker' # "stopped" BY <2>1 DEF Alive
    <3> QED BY <2>1, <2>6, <3>1, <3>2, BarriersStay
  <2> QED BY <2>7, <2>8, <2>9, <2>10
<1>7. CASE Finish
  <2>1. /\ UNCHANGED <<admitted, chan, log, holder, closed>>
        /\ worker = "finish" /\ worker' = "idle" /\ current' = NoTask
        /\ reply' = [reply EXCEPT ![current] = result]
        /\ callbacks' = IF RunsCallbacks THEN callbacks \cup {current} ELSE callbacks
    BY <1>7 DEF Finish, callerVars, lockVars
  <2>2. current \in Data /\ current # NoTask /\ result \in {"ok", "failed"}
    BY <1>c, <2>1 DEF TypeInv, TypeOK, WorkerShape
  <2>3. result = "ok" <=> current \in Range(log) BY <2>1, <2>2 DEF SafeInv, Pending
  <2>4. \A x \in Tasks : reply'[x] = IF x = current THEN result ELSE reply[x]
    BY <2>1 DEF TypeInv, TypeOK
  <2>5. Received' = Received BY <2>1 DEF Received
  <2>6. Line' BY <2>1, <2>5 DEF Line, NoRepeat
  <2>7. Ordered' BY <2>1, <2>5 DEF Ordered
  <2>8. CallbacksFollowCommit'
    BY <1>a, <2>1, <2>2, <2>3, <2>4 DEF CallbacksFollowCommit, Applied, RunsCallbacks, Data
  <2>10. \A x \in Data : Executed(x) => Executed(x)'
    BY <1>a, <2>1, <2>2, <2>3, <2>4 DEF Executed, Applied
  <2>12. Barriers'
    <3>1. \A x \in Data : x = current => Executed(x)'
      BY <1>a, <2>1, <2>2, <2>3, <2>4 DEF Executed, Applied
    <3>2. Alive' => \A i \in 1..Received', x \in Data :
            admitted'[i] = x /\ x # current' => Executed(x)'
      BY <2>1, <2>5, <2>10, <3>1 DEF Barriers, Alive
    <3>3. \A f \in Flushes : reply'[f] = reply[f] BY <1>a, <2>2, <2>4
    <3>4. \A i \in 1..Len(admitted'), f \in Flushes : admitted'[i] = f /\ reply'[f] = "ok" =>
            \A j \in 1..(i - 1), x \in Data : admitted'[j] = x => Executed(x)'
      BY <2>1, <2>10, <3>3 DEF Barriers
    <3>5. ShutdownDrains' BY <2>1 DEF ShutdownDrains
    <3> QED BY <3>2, <3>4, <3>5 DEF Barriers
  <2> QED BY <2>6, <2>7, <2>8, <2>12
<1> QED BY <1>1, <1>2, <1>3, <1>4, <1>5, <1>6, <1>7 DEF WorkerStep

(* The queue runs one command at a time, in the order of admission, with   *)
(* its callbacks, up to the closing one (run_write_worker).                *)
LEMMA OrderInit == Init => OrderInv
<1> SUFFICES ASSUME Init PROVE OrderInv OBVIOUS
<1>1. /\ admitted = <<>> /\ chan = <<>> /\ log = <<>> /\ current = NoTask /\ holder = NoTask
      /\ ~closed /\ worker = "starting" /\ callbacks = {} /\ Len(<<>>) = 0
  BY DEF Init
<1>2. Received = 0 BY <1>1 DEF Received
<1>3. Line BY <1>1, <1>2, QueueAssumption DEF Line, NoRepeat, Tasks
<1>4. Ordered BY <1>1 DEF Ordered
<1>5. Range(log) = {} /\ Range(admitted) = {} BY <1>1, RangeEmpty
<1>6. CallbacksFollowCommit BY <1>1, <1>5 DEF CallbacksFollowCommit, Applied
<1>7. Barriers BY <1>1, <1>2, <1>5 DEF Barriers, ShutdownDrains
<1> QED BY <1>3, <1>4, <1>6, <1>7 DEF OrderInv

(* The strengthening of SerialExecution holds in every reachable state.    *)
THEOREM OrderInvariant == Spec => []OrderInv
<1>1. TypeInv /\ SafeInv /\ OrderInv /\ [Next]_vars => OrderInv'
  <2> SUFFICES ASSUME TypeInv, SafeInv, OrderInv, [Next]_vars PROVE OrderInv'
    OBVIOUS
  <2>1. CASE UNCHANGED vars
    <3>1. Line' BY <2>1 DEF vars, OrderInv, Line, Received, NoRepeat
    <3> QED BY <2>1, <3>1, OrderIdle DEF vars
  <2> QED BY <2>1, OrderCaller, OrderWorker DEF Next
<1> QED BY <1>1, OrderInit, SafeInvariant, PTL DEF Spec

(* SerialExecution: writes take effect in the order of admission, each at  *)
(* most once, their callbacks with them; a flush and the shutdown find     *)
(* everything before them done (run_write_worker).                         *)
THEOREM ExecutionIsSerial == Spec => []SerialExecution
<1>1. TypeInv /\ OrderInv => SerialExecution
  <2> SUFFICES ASSUME TypeInv, OrderInv PROVE SerialExecution
    OBVIOUS
  <2>1. AppliedInAdmissionOrder
    <3> DEFINE place(i) == CHOOSE k \in 1..Len(admitted) : log[i] = admitted[k]
               f == [i \in DOMAIN log |-> place(i)]
    <3>1. \A i \in 1..Len(log) : \E k \in 1..Len(admitted) : log[i] = admitted[k]
      <4>a. Len(chan) \in Nat /\ Len(admitted) \in Nat BY Places
      <4>b. Received \in Nat BY DEF OrderInv, Line
      <4>1. Received \in Nat /\ Received <= Len(admitted) BY <4>a, <4>b DEF Received
      <4>2. \A k \in 1..Received : k \in 1..Len(admitted) BY <4>1, Places
      <4> QED BY <4>2 DEF OrderInv, Ordered
    <3>2. \A i \in 1..Len(log) : place(i) \in 1..Len(admitted) /\ log[i] = admitted[place(i)]
      BY <3>1
    <3>3. \A i \in 1..Len(log) : f[i] = place(i) BY Places
    <3>4. f \in [DOMAIN log -> DOMAIN admitted] BY <3>2, Places
    <3> HIDE DEF place, f
    <3>5. \A i \in DOMAIN log : log[i] = admitted[f[i]] BY <3>2, <3>3, Places
    <3>6. \A i, j \in DOMAIN log : i < j => f[i] < f[j]
      BY <3>4, <3>5, Places DEF OrderInv, Ordered
    <3> QED BY <3>4, <3>5, <3>6 DEF AppliedInAdmissionOrder
  <2>2. FlushIsBarrier BY Places DEF OrderInv, Barriers, FlushIsBarrier
  <2> QED BY <2>1, <2>2 DEF OrderInv, Barriers, SerialExecution
<1> QED BY <1>1, OrderInvariant, SafeInvariant, PTL

-----------------------------------------------------------------------------
(* Telemetry.                                                              *)

(* The places of the data commands of a queue.                             *)
DataIn(s) == {i \in DOMAIN s : s[i] \in Data}
Sending == {t \in Data : pc[t] = "send"}

(* A queue is finite, and so are the commands counted in it.               *)
LEMMA DataInFinite ==
  ASSUME NEW s \in Seq(Tasks)
  PROVE  IsFiniteSet(DataIn(s)) /\ Cardinality(DataIn(s)) \in Nat
<1>1. IsFiniteSet(1..Len(s)) BY FS_Interval
<1>2. DataIn(s) \subseteq 1..Len(s) BY DEF DataIn
<1>3. IsFiniteSet(DataIn(s)) BY <1>1, <1>2, FS_Subset
<1> QED BY <1>3, FS_CardinalityType

(* A command sent is counted once more if it is a data command.            *)
LEMMA DataInAppend ==
  ASSUME NEW s \in Seq(Tasks), NEW t \in Tasks
  PROVE  Cardinality(DataIn(Append(s, t))) = Cardinality(DataIn(s)) + (IF t \in Data THEN 1 ELSE 0)
<1> DEFINE n == Len(s) + 1
<1>1. /\ DOMAIN Append(s, t) = 1..n /\ Append(s, t)[n] = t /\ n \notin 1..Len(s)
      /\ \A i \in 1..Len(s) : Append(s, t)[i] = s[i]
      /\ DOMAIN s = 1..Len(s) /\ 1..n = 1..Len(s) \cup {n}
  OBVIOUS
<1> HIDE DEF n
<1>2. DataIn(Append(s, t)) = DataIn(s) \cup (IF t \in Data THEN {n} ELSE {})
  BY <1>1 DEF DataIn
<1>3. n \notin DataIn(s) BY <1>1 DEF DataIn
<1>4. CASE t \in Data
  <2>1. DataIn(Append(s, t)) = DataIn(s) \cup {n} BY <1>2, <1>4
  <2> QED BY <1>3, <1>4, <2>1, DataInFinite, FS_AddElement
<1>5. CASE t \notin Data
  <2>1. DataIn(Append(s, t)) = DataIn(s) BY <1>2, <1>5
  <2> QED BY <1>5, <2>1, DataInFinite
<1> QED BY <1>4, <1>5

(* A command received is no longer counted.                                *)
LEMMA DataInTail ==
  ASSUME NEW s \in Seq(Tasks), s # <<>>
  PROVE  Cardinality(DataIn(s)) = Cardinality(DataIn(Tail(s))) + (IF Head(s) \in Data THEN 1 ELSE 0)
<1> DEFINE rest == DataIn(s) \ {1}
           f == [i \in rest |-> i - 1]
<1>1. /\ DOMAIN s = 1..Len(s) /\ Len(s) \in Nat /\ Len(s) > 0 /\ Head(s) = s[1]
      /\ DOMAIN Tail(s) = 1..(Len(s) - 1)
      /\ \A i \in 1..(Len(s) - 1) : Tail(s)[i] = s[i + 1]
      /\ Tail(s) \in Seq(Tasks)
  OBVIOUS
<1>2. \A i \in rest : i \in 1..Len(s) /\ i # 1 /\ i - 1 \in 1..(Len(s) - 1) /\ s[i] \in Data
  BY <1>1 DEF DataIn
<1>3. \A i \in rest : i - 1 \in DataIn(Tail(s))
  <2> TAKE i \in rest
  <2>1. Tail(s)[i - 1] = s[(i - 1) + 1] BY <1>1, <1>2
  <2>2. (i - 1) + 1 = i BY <1>2
  <2> QED BY <1>1, <1>2, <2>1, <2>2 DEF DataIn
<1>4. \A j \in DataIn(Tail(s)) : j + 1 \in rest /\ (j + 1) - 1 = j
  BY <1>1 DEF DataIn
<1>5. f \in Bijection(rest, DataIn(Tail(s)))
  <2>1. f \in [rest -> DataIn(Tail(s))] BY <1>3
  <2>2. \A i, j \in rest : f[i] = f[j] => i = j BY <1>2
  <2>3. \A j \in DataIn(Tail(s)) : \E i \in rest : f[i] = j
    <3> TAKE j \in DataIn(Tail(s))
    <3>1. j + 1 \in rest /\ f[j + 1] = j BY <1>4
    <3> QED BY <3>1
  <2> HIDE DEF f, rest
  <2> QED BY <2>1, <2>2, <2>3 DEF Bijection, Injection, Surjection, IsInjective, Range
<1>6. IsFiniteSet(rest) /\ IsFiniteSet(DataIn(s))
  <2>1. IsFiniteSet(DataIn(s)) /\ rest \subseteq DataIn(s) BY DataInFinite
  <2> QED BY <2>1, FS_Subset
<1>7. Cardinality(DataIn(Tail(s))) = Cardinality(rest)
  <2>1. ExistsBijection(rest, DataIn(Tail(s))) BY <1>5 DEF ExistsBijection
  <2> HIDE DEF rest
  <2> QED BY <1>6, <2>1, FS_Bijection
<1>8. CASE Head(s) \in Data
  <2>1. 1 \in DataIn(s) BY <1>1, <1>8 DEF DataIn
  <2>2. Cardinality(rest) = Cardinality(DataIn(s)) - 1 BY <1>6, <2>1, FS_RemoveElement
  <2>3. Cardinality(DataIn(s)) \in Nat BY DataInFinite
  <2> HIDE DEF rest
  <2> QED BY <1>7, <1>8, <2>2, <2>3
<1>9. CASE Head(s) \notin Data
  <2>1. rest = DataIn(s) BY <1>1, <1>9 DEF DataIn
  <2>2. Cardinality(DataIn(s)) \in Nat BY DataInFinite
  <2> HIDE DEF rest
  <2> QED BY <1>7, <1>9, <2>1, <2>2
<1> QED BY <1>8, <1>9

(* At most one call is between its reservation and its command, the one    *)
(* inside the admission mutex.                                             *)
LEMMA SendingOne ==
  ASSUME SafeInv
  PROVE  Cardinality(Sending) = IF holder \in Data /\ pc[holder] = "send" THEN 1 ELSE 0
<1>1. \A t \in Sending : t = holder BY DEF Sending, SafeInv, Mutex, Tasks
<1>2. CASE holder \in Data /\ pc[holder] = "send"
  <2>1. Sending = {holder} BY <1>1, <1>2 DEF Sending
  <2> QED BY <1>2, <2>1, FS_Singleton
<1>3. CASE ~(holder \in Data /\ pc[holder] = "send")
  <2>1. Sending = {} BY <1>1, <1>3 DEF Sending
  <2> QED BY <1>3, <2>1, FS_EmptySet
<1> QED BY <1>2, <1>3

InSend == IF holder \in Data /\ pc[holder] = "send" THEN 1 ELSE 0
InHand == IF worker \in {"running", "finish"} THEN 1 ELSE 0

(* CountersExact, with the mutex in place of the set of senders.           *)
Tally ==
  worker # "dead" =>
    /\ stats.depth = Cardinality(DataIn(chan)) + InSend
    /\ stats.accepted = stats.completed + stats.failed + stats.depth + InHand

(* The tally is what the run checks.                                       *)
LEMMA TallyIsExact == SafeInv => (Tally <=> CountersExact)
BY SendingOne DEF Tally, CountersExact, DataIn, Sending, InSend, InHand

(* A call raises the depth when it reserves, before its command is seen.   *)
LEMMA TallyCaller ==
  ASSUME TypeInv, SafeInv, Tally, NEW t \in Tasks, CallerStep(t)
  PROVE  Tally'
<1>a. /\ stats \in Counters /\ chan \in Seq(Tasks) /\ NoTask \notin Data
      /\ pc \in [Tasks -> PcStates]
  BY QueueAssumption DEF TypeInv, TypeOK, Tasks
<1>b. /\ stats.depth \in Int /\ stats.accepted \in Int /\ stats.completed \in Int
      /\ stats.failed \in Int
  BY <1>a DEF Counters
<1>c. Cardinality(DataIn(chan)) \in Nat BY <1>a, DataInFinite
<1>d. holder # NoTask => pc[holder] \in {"reserve", "send"}
  BY DEF SafeInv, Mutex, TypeInv, TypeOK
\* no counter of the tally and no command moves
<1>1. ASSUME UNCHANGED <<chan, worker>>, InSend' = InSend,
             stats' = stats \/ stats' = [stats EXCEPT !.busy = @ + 1]
                            \/ stats' = [stats EXCEPT !.closed = @ + 1]
      PROVE  Tally'
  <2>1. /\ stats'.depth = stats.depth /\ stats'.accepted = stats.accepted
        /\ stats'.completed = stats.completed /\ stats'.failed = stats.failed
    BY <1>a, <1>1 DEF Counters
  <2> QED BY <1>1, <2>1 DEF Tally, InHand
<1>2. CASE Send(t)
  <2>1. /\ chan' = Append(chan, t) /\ UNCHANGED <<worker, stats>> /\ pc[t] = "send"
        /\ holder' = NoTask /\ holder = t
    BY <1>2 DEF Send, workerVars, SafeInv, Mutex
  <2>2. InSend = (IF t \in Data THEN 1 ELSE 0) /\ InSend' = 0 BY <1>a, <2>1 DEF InSend
  <2>3. Cardinality(DataIn(chan')) = Cardinality(DataIn(chan)) + (IF t \in Data THEN 1 ELSE 0)
    BY <1>a, <2>1, DataInAppend
  <2>4. Cardinality(DataIn(chan))' = Cardinality(DataIn(chan')) BY DEF DataIn
  <2> QED BY <1>b, <1>c, <2>1, <2>2, <2>3, <2>4 DEF Tally, InHand
<1>3. CASE Reserve(t)
  <2>1. /\ UNCHANGED <<chan, worker, holder>> /\ pc[t] = "reserve" /\ holder = t
        /\ pc' = [pc EXCEPT ![t] = "send"] /\ CountAccepted(t)
    BY <1>3 DEF Reserve, workerVars, lockVars, SafeInv, Mutex
  <2>2. InSend = 0 /\ InSend' = (IF t \in Data THEN 1 ELSE 0) BY <1>a, <2>1 DEF InSend
  <2>3. CASE t \in Data
    <3>1. stats' = [stats EXCEPT !.accepted = @ + 1, !.depth = @ + 1]
      BY <2>1, <2>3 DEF CountAccepted
    <3>2. /\ stats'.depth = stats.depth + 1 /\ stats'.accepted = stats.accepted + 1
          /\ stats'.completed = stats.completed /\ stats'.failed = stats.failed
      BY <1>a, <3>1 DEF Counters
    <3> QED BY <1>b, <1>c, <2>1, <2>2, <2>3, <3>2 DEF Tally, InHand
  <2>4. CASE t \notin Data
    BY <1>1, <2>1, <2>2, <2>4 DEF CountAccepted
  <2> QED BY <2>3, <2>4
<1>4. CASE Submit(t)
  <2>1. /\ UNCHANGED <<chan, worker, stats, holder>> /\ pc' = [pc EXCEPT ![t] = "lock"]
        /\ pc[t] = "new"
    BY <1>4 DEF Submit, workerVars
  <2>2. holder # t BY <1>d, <2>1 DEF SafeInv, Mutex
  <2>3. InSend' = InSend BY <1>a, <2>1, <2>2 DEF InSend, Tasks
  <2> QED BY <1>1, <2>1, <2>3
<1>5. CASE Acquire(t)
  <2>1. /\ UNCHANGED <<chan, worker, stats>> /\ pc' = [pc EXCEPT ![t] = "reserve"]
        /\ holder' = t /\ holder = NoTask
    BY <1>5 DEF Acquire, CanLock, workerVars
  <2>2. InSend' = 0 /\ InSend = 0 BY <1>a, <2>1 DEF InSend
  <2> QED BY <1>1, <2>1, <2>2
\* a call that is not sending moves to another state
<1>6. ASSUME UNCHANGED <<chan, worker>>, pc[t] # "send", NEW s \in PcStates \ {"send"},
             pc' = [pc EXCEPT ![t] = s], holder' = holder \/ (holder' = NoTask /\ holder = t),
             stats' = stats \/ stats' = [stats EXCEPT !.busy = @ + 1]
                            \/ stats' = [stats EXCEPT !.closed = @ + 1]
      PROVE  Tally'
  <2>1. InSend' = InSend BY <1>a, <1>6 DEF InSend, Tasks
  <2> QED BY <1>1, <1>6, <2>1
<1>7. ASSUME Busy(t), UNCHANGED <<chan, worker>>, pc[t] # "send",
             holder' = holder \/ (holder' = NoTask /\ holder = t)
      PROVE  Tally'
  <2>1. pc' = [pc EXCEPT ![t] = "sleep"] \/ pc' = [pc EXCEPT ![t] = "done"]
    BY <1>7 DEF Busy, Return
  <2> QED BY <1>6, <1>7, <2>1 DEF Busy, PcStates
<1>8. CASE LockTimeout(t) BY <1>7, <1>8 DEF LockTimeout, workerVars
<1>9. CASE ReserveTimeout(t)
  <2>1. holder = t BY <1>9 DEF ReserveTimeout, SafeInv, Mutex
  <2> QED BY <1>7, <1>9, <2>1 DEF ReserveTimeout, workerVars
<1>10. CASE ReserveStopped(t)
  <2>1. holder = t BY <1>10 DEF ReserveStopped, SafeInv, Mutex
  <2> QED BY <1>6, <1>10, <2>1 DEF ReserveStopped, Return, workerVars, PcStates
<1>11. CASE AcquireClosed(t)
  BY <1>6, <1>11 DEF AcquireClosed, CanLock, Return, workerVars, PcStates
<1>12. CASE Wake(t) BY <1>6, <1>12 DEF Wake, workerVars, PcStates
<1>13. CASE TakeReply(t) \/ ReplyDropped(t)
  BY <1>6, <1>13 DEF TakeReply, ReplyDropped, Return, workerVars, lockVars, PcStates
<1>14. CASE Cancel(t) BY <1>6, <1>14 DEF Cancel, Return, workerVars, PcStates
<1> QED BY <1>2, <1>3, <1>4, <1>5, <1>8, <1>9, <1>10, <1>11, <1>12, <1>13, <1>14 DEF CallerStep

(* The worker lowers the depth when it receives and counts the outcome when*)
(* it finishes; a closing command finds no data command behind it.         *)
LEMMA TallyWorker ==
  ASSUME TypeInv, SafeInv, OrderInv, Tally, WorkerStep
  PROVE  Tally'
<1>a. /\ stats \in Counters /\ chan \in Seq(Tasks) /\ NoTask \notin Data
      /\ Data \cap (Flushes \cup Shutdowns) = {}
  BY QueueAssumption DEF TypeInv, TypeOK, Tasks
<1>b. /\ stats.depth \in Int /\ stats.accepted \in Int /\ stats.completed \in Int
      /\ stats.failed \in Int
  BY <1>a DEF Counters
<1>c. Cardinality(DataIn(chan)) \in Nat BY <1>a, DataInFinite
<1>d. Cardinality(DataIn(chan))' = Cardinality(DataIn(chan')) BY DEF DataIn
<1>e. UNCHANGED <<pc, holder>> => InSend' = InSend BY DEF InSend
<1>f. InSend \in Int BY DEF InSend
<1>1. CASE WorkerStartFails \/ JobPanics
  BY <1>1 DEF WorkerStartFails, JobPanics, Die, Tally
<1>2. CASE WorkerStart \/ RunOk \/ TransactionFails \/ JobFails
  <2>1. /\ UNCHANGED <<pc, holder, chan, stats>> /\ InHand' = InHand
        /\ worker # "dead"
    BY <1>2 DEF WorkerStart, RunOk, TransactionFails, JobFails, callerVars, lockVars, InHand
  <2> QED BY <1>e, <2>1 DEF Tally
<1>3. CASE Recv
  <2>1. /\ UNCHANGED <<pc, holder>> /\ chan' = Tail(chan) /\ worker = "idle"
        /\ worker' = "running" /\ chan # <<>> /\ Head(chan) \in Data
        /\ stats' = [stats EXCEPT !.depth = @ - 1]
    BY <1>3 DEF Recv, Ready, callerVars, lockVars
  <2>2. Cardinality(DataIn(chan)) = Cardinality(DataIn(chan')) + 1
    BY <1>a, <2>1, DataInTail
  <2>3. Cardinality(DataIn(chan')) \in Nat
    <3>1. chan' \in Seq(Tasks) BY <1>a, <2>1
    <3> QED BY <3>1, DataInFinite
  <2>4. /\ stats'.depth = stats.depth - 1 /\ stats'.accepted = stats.accepted
        /\ stats'.completed = stats.completed /\ stats'.failed = stats.failed
    BY <1>a, <2>1 DEF Counters
  <2>5. InHand = 0 /\ InHand' = 1 BY <2>1 DEF InHand
  <2> QED BY <1>b, <1>d, <1>e, <1>f, <2>1, <2>2, <2>3, <2>4, <2>5 DEF Tally
<1>4. CASE RecvFlush
  <2>1. /\ UNCHANGED <<pc, holder, worker, stats>> /\ chan' = Tail(chan) /\ chan # <<>>
        /\ Head(chan) \notin Data
    BY <1>a, <1>4 DEF RecvFlush, Ready, callerVars, lockVars, workerVars
  <2>2. Cardinality(DataIn(chan)) = Cardinality(DataIn(chan'))
    <3>1. Cardinality(DataIn(Tail(chan))) \in Nat
      <4>1. Tail(chan) \in Seq(Tasks) BY <1>a, <2>1
      <4> QED BY <4>1, DataInFinite
    <3> QED BY <1>a, <2>1, <3>1, DataInTail
  <2> QED BY <1>d, <1>e, <2>1, <2>2 DEF Tally, InHand
<1>5. CASE RecvShutdown
  <2>1. /\ UNCHANGED <<pc, holder, stats>> /\ chan' = <<>> /\ chan # <<>> /\ worker = "idle"
        /\ worker' = "stopped" /\ Head(chan) \in Shutdowns
    BY <1>5 DEF RecvShutdown, Ready, callerVars, lockVars
  \* the closing command is the last of all
  <2>2. Len(chan) = 1 /\ Head(chan) = chan[1]
    <3>1. Len(chan) > 0 /\ Len(chan) \in Nat /\ Head(chan) = chan[1] BY <1>a, <2>1
    <3>2. Received + 1 \in 1..Len(admitted) /\ chan[1] = admitted[Received + 1]
      <4>1. Len(admitted) \in Nat BY Places
      <4>2. Received \in Nat /\ \A i \in 1..Len(chan) : chan[i] = admitted[Received + i]
        BY DEF OrderInv, Line
      <4>3. Received + 1 \in 1..Len(admitted) BY <3>1, <4>1, <4>2 DEF Received
      <4> QED BY <3>1, <4>2, <4>3
    <3>3. Received + 1 = Len(admitted) BY <2>1, <3>1, <3>2 DEF OrderInv, Line
    <3> QED BY <3>1, <3>3, Places DEF Received
  <2>3. DataIn(chan) = {} BY <1>a, <2>1, <2>2 DEF DataIn
  <2>4. DataIn(chan') = {} BY <2>1 DEF DataIn
  <2> QED BY <1>d, <1>e, <2>1, <2>3, <2>4 DEF Tally, InHand
<1>6. CASE Finish
  <2>1. /\ UNCHANGED <<pc, holder, chan>> /\ worker = "finish" /\ worker' = "idle"
        /\ stats' = IF result = "ok" THEN [stats EXCEPT !.completed = @ + 1]
                                     ELSE [stats EXCEPT !.failed = @ + 1]
    BY <1>6 DEF Finish, callerVars, lockVars
  <2>2. /\ stats'.depth = stats.depth /\ stats'.accepted = stats.accepted
        /\ stats'.completed + stats'.failed = stats.completed + stats.failed + 1
    BY <1>a, <1>b, <2>1 DEF Counters
  <2>3. /\ stats'.completed \in Int /\ stats'.failed \in Int
    BY <1>a, <2>1 DEF Counters
  <2>4. InHand = 1 /\ InHand' = 0 BY <2>1 DEF InHand
  <2> QED BY <1>b, <1>c, <1>e, <1>f, <2>1, <2>2, <2>3, <2>4 DEF Tally
<1> QED BY <1>1, <1>2, <1>3, <1>4, <1>5, <1>6 DEF WorkerStep

(* The counters never drift: depth is what is accepted and not received,   *)
(* so that the unsigned gauge cannot wrap, and what is accepted completed, *)
(* failed, waits or runs (WriteQueueTelemetry).                            *)
THEOREM CountersAreExact == Spec => []CountersExact
<1>1. Init => Tally
  <2> SUFFICES ASSUME Init PROVE Tally OBVIOUS
  <2>1. chan = <<>> /\ holder = NoTask /\ worker = "starting" /\ stats.depth = 0
        /\ stats.accepted = 0 /\ stats.completed = 0 /\ stats.failed = 0
    BY DEF Init
  <2>2. DataIn(chan) = {} BY <2>1 DEF DataIn
  <2>3. InSend = 0 /\ InHand = 0 BY <2>1, QueueAssumption DEF InSend, InHand, Tasks
  <2>4. Cardinality(DataIn(chan)) = 0 BY <2>2, FS_EmptySet
  <2> QED BY <2>1, <2>3, <2>4 DEF Tally
<1>2. TypeInv /\ SafeInv /\ OrderInv /\ Tally /\ [Next]_vars => Tally'
  <2> SUFFICES ASSUME TypeInv, SafeInv, OrderInv, Tally, [Next]_vars PROVE Tally'
    OBVIOUS
  <2>1. CASE UNCHANGED vars BY <2>1 DEF vars, Tally, DataIn, InSend, InHand
  <2> QED BY <2>1, TallyCaller, TallyWorker DEF Next
<1>3. SafeInv /\ Tally => CountersExact BY TallyIsExact
<1> QED BY <1>1, <1>2, <1>3, SafeInvariant, OrderInvariant, PTL DEF Spec
=============================================================================
