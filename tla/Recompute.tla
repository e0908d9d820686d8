------------------------------ MODULE Recompute ------------------------------
(***************************************************************************)
(* How the daily records of an employee follow the attendance events and   *)
(* the leaves they are computed from: the post-commit requests of          *)
(* events/service.rs, leaves/service.rs and daily_records/handlers.rs, the *)
(* worker of recompute/worker.rs, the 02:00 pass of recompute/nightly.rs,  *)
(* recompute_for_day of daily_records/service.rs and the producer-first    *)
(* shutdown.                                                               *)
(*                                                                         *)
(* A record is abstracted to what it was computed from: the events in the  *)
(* window of its day and the leave over it.  Requests live in memory, so   *)
(* what matters is that no change of a day is left without one.            *)
(***************************************************************************)
EXTENDS Integers, Sequences

CONSTANTS
  MaxDay,      \* days are 1..MaxDay
  Events,      \* attendance events that resolve to the employee
  CapturedAt,  \* CapturedAt[e]: minutes from the start of day 1
  ShiftStart, ShiftEnd,  \* the department's shift, in minutes of the day
  Overnight,   \* is_overnight_shift
  TolBefore,   \* late_arrival_tolerance_min + bonus_minutes
  TolAfter,    \* early_departure_tolerance_min + bonus_minutes
  Leaves,      \* leave requests
  First, Last, \* First[l]..Last[l]: the days of a leave
  NoLeave,     \* a day without leave
  NoRecord,    \* a day without a record
  ChunkDays,   \* RANGE_CHUNK_DAYS (32 in the code)
  Burst,       \* RECEIVE_BURST_LIMIT (64 in the code)
  MaxWrites,   \* bound: committed producer writes in one behaviour
  MaxNight,    \* bound: the last day that has a nightly pass
  MaxFaults    \* bound: faults in one behaviour

Days == 1..MaxDay
DayLength == 1440

(* shift_window: the nominal shift of an anchor date, widened on both sides.*)
(* The installation's zone has no daylight saving time.                     *)
WindowStart(d) == (d - 1) * DayLength + ShiftStart - TolBefore
WindowEnd(d) ==
  (d - 1) * DayLength + (IF Overnight THEN DayLength ELSE 0) + ShiftEnd + TolAfter
InWindow(t, d) == WindowStart(d) <= t /\ t <= WindowEnd(d)

OwnDate(t) == t \div DayLength + 1

(* The days that an event captured at t asks to recompute.                  *)
anchor_dates_for_instant(t) ==
  LET own == OwnDate(t)
      yesterday == own - 1
  IN  IF ~Overnight \/ ~InWindow(t, yesterday) THEN <<own>>
      ELSE IF InWindow(t, own) THEN <<yesterday, own>> ELSE <<yesterday>>

Anchors == [e \in Events |-> anchor_dates_for_instant(CapturedAt[e])]

(* The events each day reads.                                               *)
Claims == [d \in Days |-> {e \in Events : InWindow(CapturedAt[e], d)}]

ASSUME RecomputeAssumption ==
  /\ MaxDay \in Nat \ {0}
  /\ CapturedAt \in [Events -> Nat]
  /\ ShiftStart \in 0..(DayLength - 1) /\ ShiftEnd \in 0..(DayLength - 1)
  /\ Overnight \in BOOLEAN
  /\ TolBefore \in Nat /\ TolAfter \in Nat
  /\ \A e \in Events :
       OwnDate(CapturedAt[e]) \in Days /\ Anchors[e] \in Seq(Days)
  /\ First \in [Leaves -> Days] /\ Last \in [Leaves -> Days]
  /\ \A l \in Leaves : First[l] <= Last[l]
  /\ NoLeave \notin Leaves
  /\ NoRecord \notin [events: SUBSET Events, leave: Leaves \cup {NoLeave}]
  /\ ChunkDays \in Nat \ {0} /\ Burst \in Nat \ {0}
  /\ MaxNight \in 0..MaxDay
  /\ MaxWrites \in Nat /\ MaxFaults \in Nat

VARIABLES
  active,    \* employees.status = 'active'
  events,    \* attendance_events
  leaves,    \* leaves.status
  records,   \* daily_records
  writes,    \* producer writes so far
  chan,      \* the unbounded channel of requests
  ready,     \* the worker's local queue
  pending,   \* pending_days: the Day requests in ready
  worker,    \* where the worker is
  cur,       \* the request it works on; from is its date
  count,     \* days of the chunk already processed
  taken,     \* requests of the burst already taken
  snap,      \* what recompute_for_day has read
  nightly,   \* where the nightly pass is
  night,     \* its day, "yesterday"
  nightSnap, \* what it has read
  passed,    \* the worker has read that day after the pass did
  phase,     \* up, joining, flushing, draining, closed
  excused,   \* days whose last change a fault or a race may have lost
  faults     \* faults so far

dataVars   == <<active, events, leaves, writes>>
queueVars  == <<ready, pending>>
workerVars == <<worker, cur, count, taken, snap>>
nightVars  == <<nightly, night, nightSnap>>
vars == <<active, events, leaves, records, writes, chan, ready, pending, worker,
          cur, count, taken, snap, nightly, night, nightSnap, passed, phase,
          excused, faults>>

Request == [kind: {"day", "range"}, from: Days, to: Days]
Input   == [events: SUBSET Events, leave: Leaves \cup {NoLeave}]
Day(d)  == [kind |-> "day", from |-> d, to |-> d]
Nothing == [events |-> {}, leave |-> NoLeave]

TypeOK ==
  /\ active \in BOOLEAN
  /\ events \subseteq Events
  /\ leaves \in [Leaves -> {"none", "active", "cancelled"}]
  /\ records \in [Days -> Input \cup {NoRecord}]
  /\ writes \in 0..MaxWrites
  /\ chan \in Seq(Request) /\ ready \in Seq(Request)
  /\ pending \subseteq Days
  /\ worker \in {"loop", "read", "overlay", "write", "next", "drain", "last", "stopped"}
  /\ cur \in Request
  /\ count \in 0..(ChunkDays - 1) /\ taken \in 0..Burst
  /\ snap \in Input
  /\ nightly \in {"asleep", "read", "overlay", "write"}
  /\ night \in 0..MaxNight
  /\ nightSnap \in Input
  /\ passed \in BOOLEAN
  /\ phase \in {"up", "joining", "flushing", "draining", "closed"}
  /\ excused \subseteq Days
  /\ faults \in 0..MaxFaults

Init ==
  /\ active = TRUE
  /\ events = {} /\ leaves = [l \in Leaves |-> "none"]
  /\ records = [d \in Days |-> NoRecord]
  /\ writes = 0
  /\ chan = <<>> /\ ready = <<>> /\ pending = {}
  /\ worker = "loop" /\ cur = Day(1) /\ count = 0 /\ taken = 0 /\ snap = Nothing
  /\ nightly = "asleep" /\ night = 0 /\ nightSnap = Nothing /\ passed = FALSE
  /\ phase = "up"
  /\ excused = {}
  /\ faults = 0

Fault == faults < MaxFaults /\ faults' = faults + 1

-----------------------------------------------------------------------------
(* What recompute_for_day reads.                                            *)

EventsOf(d) == events \cap Claims[d]
Covering(d) == {l \in Leaves : leaves[l] = "active" /\ First[l] <= d /\ d <= Last[l]}

(* SELECT ... LIMIT 1.                                                      *)
LeaveOn(d) == IF Covering(d) = {} THEN NoLeave ELSE CHOOSE l \in Covering(d) : TRUE

Current(d) == [events |-> EventsOf(d), leave |-> LeaveOn(d)]

Stale(d) == records[d] # Current(d) /\ ~(records[d] = NoRecord /\ Current(d) = Nothing)

-----------------------------------------------------------------------------
(* Producers: a transaction commits and its after_commit hook sends the     *)
(* requests.  Writes admitted before the shutdown's flush still commit.     *)

(* Mutant: the token is cancelled before accepted writes are flushed.       *)
AcceptedLate == phase # "closed"

Accepted == phase \in {"up", "joining", "flushing"}

Committing ==
  /\ Accepted
  /\ writes < MaxWrites
  /\ writes' = writes + 1
Produced == UNCHANGED <<queueVars, workerVars, nightVars, records, passed, phase>>

(* INSERT OR IGNORE: a duplicate sends nothing.                             *)
persist_attendance_event(e) ==
  /\ Committing /\ e \notin events
  /\ events' = events \cup {e}
  /\ \/ /\ chan' = chan \o [i \in DOMAIN Anchors[e] |-> Day(Anchors[e][i])]
        /\ UNCHANGED <<excused, faults>>
     \/ (* The shift could not be read: only the event's own date is asked. *)
        /\ Fault
        /\ chan' = Append(chan, Day(OwnDate(CapturedAt[e])))
        /\ excused' = excused \cup {d \in Days : e \in Claims[d] /\ d # OwnDate(CapturedAt[e])}
  /\ UNCHANGED <<active, leaves>>
  /\ Produced

RangeOf(l) == [kind |-> "range", from |-> First[l], to |-> Last[l]]

(* Mutant: days that only touch do not overlap.                             *)
OverlapsStrictly(l, m) == First[m] < Last[l] /\ First[l] < Last[m]

Overlaps(l, m) == First[m] <= Last[l] /\ First[l] <= Last[m]

create_leave(l) ==
  /\ Committing /\ leaves[l] = "none"
  /\ \A m \in Leaves : leaves[m] = "active" => ~Overlaps(l, m)
  /\ leaves' = [leaves EXCEPT ![l] = "active"]
  /\ chan' = Append(chan, RangeOf(l))
  /\ UNCHANGED <<active, events, excused, faults>>
  /\ Produced

cancel_leave(l) ==
  /\ Committing /\ leaves[l] = "active"
  /\ leaves' = [leaves EXCEPT ![l] = "cancelled"]
  /\ chan' = Append(chan, RangeOf(l))
  /\ UNCHANGED <<active, events, excused, faults>>
  /\ Produced

(* The override itself is kept apart from the record, which is recomputed   *)
(* all the same.                                                            *)
create_override(d) ==
  /\ Committing /\ records[d] # NoRecord
  /\ chan' = Append(chan, Day(d))
  /\ UNCHANGED <<active, events, leaves, excused, faults>>
  /\ Produced

deactivate ==
  /\ Committing /\ active
  /\ active' = FALSE
  /\ UNCHANGED <<events, leaves, chan, excused, faults>>
  /\ Produced

-----------------------------------------------------------------------------
(* The worker.                                                              *)

(* enqueue: a Day that is waiting already is not queued twice.              *)
enqueue(r) ==
  IF r.kind = "day" /\ r.from \in pending THEN UNCHANGED queueVars
  ELSE /\ ready' = Append(ready, r)
       /\ pending' = IF r.kind = "day" THEN pending \cup {r.from} ELSE pending

(* The locals of a chunk and of a burst are gone.                           *)
Idle == cur' = Day(1) /\ count' = 0 /\ taken' = 0 /\ snap' = Nothing

Cancelled == phase = "draining"
WorkerFrame == UNCHANGED <<dataVars, nightVars, phase>>

(* Mutant: the day stays in pending_days until the next one is taken.       *)
StillPending(r) == pending

PendingAfterPop(r) == IF r.kind = "day" THEN pending \ {r.from} ELSE pending

pop_front ==
  /\ worker = "loop" /\ ready # <<>>
  /\ cur' = Head(ready)
  /\ ready' = Tail(ready)
  /\ pending' = PendingAfterPop(Head(ready))
  /\ count' = 0
  /\ worker' = "read"
  /\ UNCHANGED <<chan, taken, snap, records, passed, excused, faults>>
  /\ WorkerFrame

(* The first request of a burst; the burst begins 500 ms later, or with the *)
(* shutdown token.                                                          *)
recv ==
  /\ worker = "loop" /\ ready = <<>> /\ ~Cancelled
  /\ chan # <<>>
  /\ enqueue(Head(chan))
  /\ chan' = Tail(chan)
  /\ worker' = "drain"
  /\ UNCHANGED <<cur, count, taken, snap, records, passed, excused, faults>>
  /\ WorkerFrame

(* Draining with an empty local queue: take what is left, or stop.          *)
last_drain ==
  /\ worker = "loop" /\ ready = <<>> /\ Cancelled
  /\ worker' = "last"
  /\ UNCHANGED <<chan, queueVars, cur, count, taken, snap, records, passed, excused, faults>>
  /\ WorkerFrame

(* try_recv: requests may arrive between two of them.                       *)
drain_receiver ==
  /\ worker \in {"drain", "last"}
  /\ taken < Burst /\ chan # <<>>
  /\ enqueue(Head(chan))
  /\ chan' = Tail(chan)
  /\ taken' = taken + 1
  /\ UNCHANGED <<worker, cur, count, snap, records, passed, excused, faults>>
  /\ WorkerFrame

(* Mutant: a chunk ends one day too early for its continuation.             *)
ContinuationShort(r) == IF r.to > r.from + 1 THEN <<[r EXCEPT !.from = r.from + 2]>> ELSE <<>>

(* The rest of a range, after the day in from.                              *)
Continuation(r) == IF r.from < r.to THEN <<[r EXCEPT !.from = r.from + 1]>> ELSE <<>>

(* The burst ends: what has arrived goes before the continuation.           *)
drained ==
  /\ worker \in {"drain", "last"}
  /\ taken = Burst \/ chan = <<>>
  /\ ready' = ready \o Continuation(cur)
  /\ worker' = IF worker = "last" /\ ready' = <<>> THEN "stopped" ELSE "loop"
  /\ Idle
  /\ UNCHANGED <<chan, pending, records, passed, excused, faults>>
  /\ WorkerFrame

(* recompute_for_day: an inactive employee is skipped.                      *)
read_events ==
  /\ worker = "read"
  /\ snap' = IF active THEN [events |-> EventsOf(cur.from), leave |-> NoLeave] ELSE snap
  /\ worker' = IF active THEN "overlay" ELSE "next"
  /\ passed' = (passed \/ (nightly # "asleep" /\ cur.from = night))
  /\ UNCHANGED <<chan, queueVars, cur, count, taken, records, excused, faults>>
  /\ WorkerFrame

read_leave ==
  /\ worker = "overlay"
  /\ snap' = [snap EXCEPT !.leave = LeaveOn(cur.from)]
  /\ worker' = "write"
  /\ UNCHANGED <<chan, queueVars, cur, count, taken, records, passed, excused, faults>>
  /\ WorkerFrame

(* The transaction; a refusal is logged and the day is not tried again.     *)
upsert ==
  /\ worker = "write"
  /\ \/ /\ records' = [records EXCEPT ![cur.from] = snap]
        /\ excused' = IF snap = Current(cur.from) THEN excused \ {cur.from} ELSE excused
        /\ UNCHANGED faults
     \/ /\ Fault
        /\ excused' = excused \cup {cur.from}
        /\ UNCHANGED records
  /\ worker' = "next" /\ snap' = Nothing
  /\ UNCHANGED <<chan, queueVars, cur, count, taken, passed>>
  /\ WorkerFrame

(* A failed read ends the day as well.                                      *)
read_fails ==
  /\ worker \in {"read", "overlay"}
  /\ Fault
  /\ excused' = excused \cup {cur.from}
  /\ worker' = "next" /\ snap' = Nothing
  /\ UNCHANGED <<chan, queueVars, cur, count, taken, records, passed>>
  /\ WorkerFrame

ChunkOpen == count + 1 < ChunkDays

(* The next day of the chunk, or the end of it.                             *)
next_day ==
  /\ worker = "next"
  /\ cur.from < cur.to /\ ChunkOpen
  /\ cur' = [cur EXCEPT !.from = @ + 1]
  /\ count' = count + 1
  /\ worker' = "read"
  /\ UNCHANGED <<chan, queueVars, taken, snap, records, passed, excused, faults>>
  /\ WorkerFrame

end_chunk ==
  /\ worker = "next"
  /\ cur.from >= cur.to \/ ~ChunkOpen
  /\ worker' = "drain" /\ count' = 0
  /\ UNCHANGED <<chan, queueVars, cur, taken, snap, records, passed, excused, faults>>
  /\ WorkerFrame

WorkerStep ==
  \/ pop_front \/ recv \/ last_drain \/ drain_receiver \/ drained \/ read_events
  \/ read_leave \/ upsert \/ next_day \/ end_chunk

-----------------------------------------------------------------------------
(* reconcile_prior_day: the same computation, on a connection of its own    *)
(* and concurrently with the worker.                                        *)

NightFrame == UNCHANGED <<dataVars, chan, queueVars, workerVars, phase>>

wake ==
  /\ nightly = "asleep" /\ phase = "up" /\ night < MaxNight
  /\ night' = night + 1
  /\ nightly' = IF active THEN "read" ELSE "asleep"
  /\ UNCHANGED <<nightSnap, records, passed, excused, faults>>
  /\ NightFrame

night_events ==
  /\ nightly = "read"
  /\ nightSnap' = IF active THEN [events |-> EventsOf(night), leave |-> NoLeave] ELSE Nothing
  /\ nightly' = IF active THEN "overlay" ELSE "asleep"
  /\ passed' = FALSE
  /\ UNCHANGED <<night, records, excused, faults>>
  /\ NightFrame

night_leave ==
  /\ nightly = "overlay"
  /\ nightSnap' = [nightSnap EXCEPT !.leave = LeaveOn(night)]
  /\ nightly' = "write"
  /\ UNCHANGED <<night, records, passed, excused, faults>>
  /\ NightFrame

(* The worker has read d and not yet written it.                            *)
Computing(d) == worker \in {"overlay", "write"} /\ cur.from = d

(* Nothing compares computed_at: the later transaction wins, also when it   *)
(* has read less.                                                           *)
night_upsert ==
  /\ nightly = "write"
  /\ nightly' = "asleep"
  /\ \/ /\ records' = [records EXCEPT ![night] = nightSnap]
        /\ excused' = IF nightSnap = Current(night) /\ ~Computing(night)
                        THEN excused \ {night}
                      ELSE IF passed THEN excused \cup {night} ELSE excused
        /\ UNCHANGED faults
     \/ /\ Fault
        /\ UNCHANGED <<records, excused>>
  /\ nightSnap' = Nothing /\ passed' = FALSE
  /\ UNCHANGED night
  /\ NightFrame

NightStep == night_events \/ night_leave \/ night_upsert

-----------------------------------------------------------------------------
(* Shutdown, crash and start.                                               *)

LifeFrame == UNCHANGED <<dataVars, records>>

(* The HTTP server ends, the producers and the nightly task are joined,     *)
(* accepted writes are flushed, and only then the worker is told.           *)
shutdown ==
  /\ \/ phase = "up" /\ phase' = "joining"
     \/ phase = "joining" /\ nightly = "asleep" /\ phase' = "flushing"
     \/ phase = "flushing" /\ phase' = "draining"
     \/ phase = "draining" /\ worker = "stopped" /\ phase' = "closed"
  /\ UNCHANGED <<chan, queueVars, workerVars, nightVars, passed, excused, faults>>
  /\ LifeFrame

Fresh ==
  /\ chan' = <<>> /\ ready' = <<>> /\ pending' = {}
  /\ worker' = "loop" /\ Idle
  /\ nightly' = "asleep" /\ nightSnap' = Nothing /\ passed' = FALSE
  /\ phase' = "up"

(* A process that is down at 02:00 misses the pass of that day.             *)
Missed == night' \in night..MaxNight

Restart ==
  /\ phase = "closed"
  /\ Fresh /\ Missed
  /\ UNCHANGED <<excused, faults>>
  /\ LifeFrame

Crash ==
  /\ phase # "closed"
  /\ Fault
  /\ Fresh /\ Missed
  /\ excused' = excused \cup {d \in Days : Stale(d)}
  /\ LifeFrame

-----------------------------------------------------------------------------
Producer ==
  \/ \E e \in Events : persist_attendance_event(e)
  \/ \E l \in Leaves : create_leave(l) \/ cancel_leave(l)
  \/ \E d \in Days : create_override(d)
  \/ deactivate

Next ==
  \/ Producer \/ WorkerStep \/ read_fails \/ wake \/ NightStep \/ shutdown
  \/ Restart \/ Crash

Spec == Init /\ [][Next]_vars

(* The worker task runs, the nightly task runs on once it is awake, and a   *)
(* shutdown that has begun goes on.                                         *)
FairSpec ==
  /\ Spec
  /\ WF_vars(WorkerStep) /\ WF_vars(NightStep)
  /\ WF_vars(phase # "up" /\ shutdown)
-----------------------------------------------------------------------------
Spans(r, d) == r.from <= d /\ d <= r.to

AsksFor(queue, d) == \E i \in DOMAIN queue : Spans(queue[i], d)

(* A request for d waits whose computation has not begun.                   *)
Asked(d) ==
  \/ AsksFor(chan, d) \/ AsksFor(ready, d)
  \/ worker = "read" /\ Spans(cur, d)
  \/ worker \in {"overlay", "write", "next", "drain"} /\ Spans(cur, d) /\ d # cur.from

(* Or the worker is about to write what d is now.                           *)
Queued(d) ==
  \/ Asked(d)
  \/ worker = "overlay" /\ d = cur.from /\ snap.events = EventsOf(d)
  \/ worker = "write" /\ d = cur.from /\ snap = Current(d)

(* pending_days names exactly the Day requests of the local queue, each     *)
(* there once: a leftover entry would swallow every later request.          *)
PendingIsExact ==
  /\ pending = {ready[i].from : i \in {j \in DOMAIN ready : ready[j].kind = "day"}}
  /\ \A i, j \in DOMAIN ready :
       ready[i].kind = "day" /\ ready[i] = ready[j] => i = j

(* No change is forgotten: the record of an active employee is what its day *)
(* says, or a recomputation that will see the change is on its way, and     *)
(* when the process has shut down, producers first, none is left over.      *)
(* Deduplication, chunks, bursts and requests that arrive while their day   *)
(* is being computed do not break it; a refused write, a crash and a pass   *)
(* that the worker overtook do, for their own days.                         *)
StaleIsQueued ==
  /\ TypeOK /\ PendingIsExact
  /\ \A d \in Days :
       Stale(d) => (Queued(d) /\ phase # "closed") \/ d \in excused \/ ~active

(* "the overlap check in create_leave_queued guarantees at most one active  *)
(* leave covers any given date" (fetch_active_leave_for_date).              *)
OneLeavePerDay == \A d \in Days : \A l, m \in Covering(d) : l = m

(* The records catch up with the changes, again and again.                  *)
RecordsCatchUp ==
  []<>(\A d \in Days : ~Stale(d) \/ d \in excused \/ ~active)
=============================================================================
