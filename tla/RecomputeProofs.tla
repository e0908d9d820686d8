-------------------------- MODULE RecomputeProofs --------------------------
(***************************************************************************)
(* What the recomputation promises, for any events, leaves, shifts, chunks *)
(* and bursts: LIMIT 1 in the query for the leave over a day relies on the *)
(* overlap check of create_leave and may; the days an event asks for are   *)
(* those whose windows read it; and no change of a day is forgotten.       *)
(***************************************************************************)
EXTENDS Recompute, SequenceTheorems, TLAPS

LeavesType == leaves \in [Leaves -> {"none", "active", "cancelled"}]

(* What the overlap check keeps: different active leaves share no day.      *)
ActiveApart ==
  \A l, m \in Leaves :
    leaves[l] = "active" /\ leaves[m] = "active" /\ l # m => ~Overlaps(l, m)

LeaveInv == LeavesType /\ ActiveApart

(* Overlapping is a symmetric relation, so the check of a new leave against *)
(* the stored ones protects these from it as well.                          *)
LEMMA OverlapsSymmetric ==
  ASSUME NEW l \in Leaves, NEW m \in Leaves
  PROVE  Overlaps(l, m) <=> Overlaps(m, l)
BY DEF Overlaps

(* Two leaves over one day overlap.                                         *)
LEMMA SharedDayOverlaps ==
  ASSUME NEW l \in Leaves, NEW m \in Leaves, NEW d \in Days,
         First[l] <= d, d <= Last[l], First[m] <= d, d <= Last[m]
  PROVE  Overlaps(l, m)
BY RecomputeAssumption DEF Overlaps, Days

(* At the start there are no leaves.                                        *)
LEMMA LeaveInit == Init => LeaveInv
BY DEF Init, LeaveInv, LeavesType, ActiveApart

(* create_leave refuses an overlap; a cancellation only takes one away.     *)
LEMMA LeaveStep == LeaveInv /\ [Next]_vars => LeaveInv'
<1> SUFFICES ASSUME LeaveInv, [Next]_vars PROVE LeaveInv'
  OBVIOUS
<1> USE DEF LeaveInv, LeavesType
<1>1. ASSUME NEW l \in Leaves, create_leave(l) PROVE LeaveInv'
  <2>1. /\ leaves' = [leaves EXCEPT ![l] = "active"]
        /\ \A m \in Leaves : leaves[m] = "active" => ~Overlaps(l, m)
    BY <1>1 DEF create_leave
  <2>2. LeavesType'
    BY <2>1
  <2>3. ASSUME NEW a \in Leaves, NEW b \in Leaves,
               leaves'[a] = "active", leaves'[b] = "active", a # b
        PROVE  ~Overlaps(a, b)
    <3>1. CASE a = l
      BY <2>1, <2>3, <3>1
    <3>2. CASE b = l
      BY <2>1, <2>3, <3>2, OverlapsSymmetric
    <3>3. CASE a # l /\ b # l
      BY <2>1, <2>3, <3>3 DEF ActiveApart
    <3> QED BY <3>1, <3>2, <3>3
  <2>4. ActiveApart'
    BY <2>3 DEF ActiveApart, Overlaps
  <2> QED BY <2>2, <2>4
<1>2. ASSUME NEW l \in Leaves, cancel_leave(l) PROVE LeaveInv'
  <2>1. leaves' = [leaves EXCEPT ![l] = "cancelled"]
    BY <1>2 DEF cancel_leave
  <2>2. LeavesType'
    BY <2>1
  <2>3. \A m \in Leaves : leaves'[m] = "active" => leaves[m] = "active"
    BY <2>1
  <2> QED BY <2>2, <2>3 DEF ActiveApart, Overlaps
<1>3. ASSUME leaves' = leaves PROVE LeaveInv'
  BY <1>3 DEF ActiveApart, Overlaps
<1>4. ASSUME NEW e \in Events, persist_attendance_event(e) PROVE leaves' = leaves
  BY <1>4 DEF persist_attendance_event
<1>5. ASSUME NEW d \in Days, create_override(d) PROVE leaves' = leaves
  BY <1>5 DEF create_override
<1>6. CASE deactivate
  BY <1>3, <1>6 DEF deactivate
<1>7. CASE WorkerStep \/ read_fails
  <2>1. WorkerFrame
    BY <1>7 DEF WorkerStep, read_fails, pop_front, recv, drain_receiver, drained, last_drain,
                read_events, read_leave, upsert, next_day, end_chunk
  <2> QED BY <1>3, <2>1 DEF WorkerFrame, dataVars
<1>8. CASE wake \/ NightStep
  <2>1. NightFrame
    BY <1>8 DEF wake, NightStep, night_events, night_leave, night_upsert
  <2> QED BY <1>3, <2>1 DEF NightFrame, dataVars
<1>9. CASE shutdown \/ Restart \/ Crash
  <2>1. LifeFrame
    BY <1>9 DEF shutdown, Restart, Crash
  <2> QED BY <1>3, <2>1 DEF LifeFrame, dataVars
<1>10. CASE UNCHANGED vars
  BY <1>3, <1>10 DEF vars
<1> QED
  BY <1>1, <1>2, <1>3, <1>4, <1>5, <1>6, <1>7, <1>8, <1>9, <1>10
  DEF Next, Producer

(* At most one active leave covers any given date, whatever is created and  *)
(* cancelled in whatever order: LIMIT 1 in fetch_active_leave_for_date      *)
(* never hides a second one.                                                *)
THEOREM OneLeave == Spec => []OneLeavePerDay
<1>1. LeaveInv => OneLeavePerDay
  <2> SUFFICES ASSUME LeaveInv, NEW d \in Days,
                      NEW l \in Covering(d), NEW m \in Covering(d), l # m
               PROVE  FALSE
    BY DEF OneLeavePerDay
  <2>1. Overlaps(l, m)
    BY SharedDayOverlaps DEF Covering
  <2> QED BY <2>1 DEF Covering, LeaveInv, ActiveApart
<1> QED BY <1>1, LeaveInit, LeaveStep, PTL DEF Spec

-----------------------------------------------------------------------------
(* Which days an event belongs to: the reverse of shift_window.             *)

(* The widened window of a day opens on its own date and closes before the  *)
(* end of the date on which the shift ends.                                 *)
WindowsStayInside == TolBefore <= ShiftStart /\ ShiftEnd + TolAfter < DayLength

(* anchor_dates_for_instant asks for every day whose window reads an event  *)
(* captured at t, as long as the tolerances do not carry a window over      *)
(* midnight; this is the condition that a shift ending at 23:55 breaks.     *)
THEOREM AnchorsAreComplete ==
  ASSUME WindowsStayInside, NEW t \in Nat, NEW d \in Int, InWindow(t, d)
  PROVE  \E i \in DOMAIN anchor_dates_for_instant(t) :
           anchor_dates_for_instant(t)[i] = d
<1> DEFINE own == OwnDate(t)
<1> USE RecomputeAssumption
<1>1. /\ own \in Int
      /\ (own - 1) * 1440 <= t
      /\ t < own * 1440
  <2>1. /\ t \div 1440 \in Int
        /\ 1440 * (t \div 1440) <= t
        /\ t < 1440 * ((t \div 1440) + 1)
    BY Z3
  <2>2. own = (t \div 1440) + 1
    BY DEF OwnDate, DayLength
  <2> HIDE DEF own
  <2> QED BY <2>1, <2>2
<1> HIDE DEF own
<1>2. CASE Overnight
  <2>1. /\ (d - 1) * 1440 <= t
        /\ t < (d + 1) * 1440
    BY <1>2 DEF InWindow, WindowStart, WindowEnd, WindowsStayInside, DayLength
  <2>2. d = own \/ d = own - 1
    BY <1>1, <2>1
  <2>3. CASE InWindow(t, own - 1) /\ InWindow(t, own)
    <3>1. anchor_dates_for_instant(t) = <<own - 1, own>>
      BY <1>2, <2>3 DEF anchor_dates_for_instant, own
    <3> QED BY <2>2, <3>1
  <2>4. CASE InWindow(t, own - 1) /\ ~InWindow(t, own)
    <3>1. anchor_dates_for_instant(t) = <<own - 1>>
      BY <1>2, <2>4 DEF anchor_dates_for_instant, own
    <3>2. d = own - 1
      BY <2>2, <2>4
    <3> QED BY <3>1, <3>2
  <2>5. CASE ~InWindow(t, own - 1)
    <3>1. anchor_dates_for_instant(t) = <<own>>
      BY <1>2, <2>5 DEF anchor_dates_for_instant, own
    <3>2. d = own
      BY <2>2, <2>5
    <3> QED BY <3>1, <3>2
  <2> QED BY <2>3, <2>4, <2>5
<1>3. CASE ~Overnight
  <2>1. /\ (d - 1) * 1440 <= t
        /\ t < d * 1440
    BY <1>3 DEF InWindow, WindowStart, WindowEnd, WindowsStayInside, DayLength
  <2>2. d = own
    BY <1>1, <2>1
  <2>3. anchor_dates_for_instant(t) = <<own>>
    BY <1>3 DEF anchor_dates_for_instant, own
  <2> QED BY <2>2, <2>3
<1> QED BY <1>2, <1>3

-----------------------------------------------------------------------------
(* No change is forgotten.                                                  *)

(* A Day request is for one day; a continuation is therefore a Range.       *)
DayShape(r) == r.kind = "day" => r.to = r.from
Shapes ==
  /\ \A i \in DOMAIN chan : DayShape(chan[i])
  /\ \A i \in DOMAIN ready : DayShape(ready[i])
  /\ DayShape(cur)

(* The worker stops during the drain only, with nothing left in its queues, *)
(* a burst counts from zero, and a pass has a day.                          *)
Flow ==
  /\ worker = "stopped" => phase \in {"draining", "closed"} /\ chan = <<>> /\ ready = <<>>
  /\ worker = "last" => phase = "draining" /\ (taken > 0 => ready # <<>>)
  /\ worker = "loop" => taken = 0
  /\ phase = "closed" => worker = "stopped"
  /\ nightly # "asleep" => night \in Days

QueueInv == TypeOK /\ PendingIsExact /\ Shapes /\ Flow

(* A day that need not be current.                                          *)
Excepted(d) == d \in excused \/ ~active

(* What the worker has read is current, or a request that came later waits. *)
WorkerReads ==
  worker \in {"overlay", "write"} =>
    /\ snap.events \subseteq EventsOf(cur.from)
    /\ worker = "overlay" /\ snap.events # EventsOf(cur.from) =>
         Asked(cur.from) \/ Excepted(cur.from)
    /\ worker = "write" /\ snap # Current(cur.from) =>
         Asked(cur.from) \/ Excepted(cur.from)

(* What the pass has read is current, or the worker will write the day once *)
(* more, or it has read it after the pass.                                  *)
NightReads ==
  nightly \in {"overlay", "write"} =>
    /\ nightSnap.events \subseteq EventsOf(night)
    /\ nightly = "overlay" /\ nightSnap.events # EventsOf(night) =>
         Queued(night) \/ passed \/ Excepted(night)
    /\ nightly = "write" /\ nightSnap # Current(night) =>
         Queued(night) \/ passed \/ Excepted(night)

(* The worker has read the day before the pass did: the pass knows as many  *)
(* events, and a leave that has changed since then has its request.         *)
Earlier ==
  Computing(night) /\ nightly \in {"overlay", "write"} /\ ~passed =>
    /\ snap.events \subseteq nightSnap.events
    /\ nightly = "write" /\ nightSnap.leave # LeaveOn(night) => Asked(night) \/ ~active

(* A stale day is asked for, or at work with what it reads now.             *)
Answered == \A d \in Days : Stale(d) => Queued(d) \/ Excepted(d)

RecordInv == QueueInv /\ WorkerReads /\ NightReads /\ Earlier /\ Answered

-----------------------------------------------------------------------------
(* Lemmas about queues of requests.                                         *)

(* Appending a request asks for its days as well.                           *)
LEMMA AsksAppend ==
  ASSUME NEW s \in Seq(Request), NEW r \in Request, NEW d
  PROVE  AsksFor(Append(s, r), d) <=> AsksFor(s, d) \/ Spans(r, d)
<1>1. /\ Len(Append(s, r)) = Len(s) + 1
      /\ \A i \in 1..Len(s) : Append(s, r)[i] = s[i]
      /\ Append(s, r)[Len(s) + 1] = r
  OBVIOUS
<1>2. DOMAIN s = 1..Len(s) /\ DOMAIN Append(s, r) = 1..(Len(s) + 1)
  BY <1>1
<1>3. DOMAIN Append(s, r) = DOMAIN s \cup {Len(s) + 1}
  BY <1>2
<1> QED BY <1>1, <1>2, <1>3, Zenon DEF AsksFor

(* So does a concatenation.                                                 *)
LEMMA AsksConcat ==
  ASSUME NEW s \in Seq(Request), NEW t \in Seq(Request), NEW d
  PROVE  AsksFor(s \o t, d) <=> AsksFor(s, d) \/ AsksFor(t, d)
<1>1. /\ s \o t \in Seq(Request)
      /\ Len(s \o t) = Len(s) + Len(t)
      /\ \A i \in 1..Len(s) : (s \o t)[i] = s[i]
      /\ \A i \in 1..Len(t) : (s \o t)[Len(s) + i] = t[i]
  OBVIOUS
<1>2. DOMAIN s = 1..Len(s) /\ DOMAIN t = 1..Len(t) /\ DOMAIN (s \o t) = 1..(Len(s) + Len(t))
  BY <1>1
<1>3. \A i \in DOMAIN (s \o t) :
        i \in DOMAIN s \/ \E j \in DOMAIN t : i = Len(s) + j
  <2> SUFFICES ASSUME NEW i \in 1..(Len(s) + Len(t)), i \notin 1..Len(s)
               PROVE  i - Len(s) \in 1..Len(t) /\ i = Len(s) + (i - Len(s))
    BY <1>2
  <2> QED OBVIOUS
<1>4. /\ \A i \in DOMAIN s : i \in DOMAIN (s \o t)
      /\ \A j \in DOMAIN t : Len(s) + j \in DOMAIN (s \o t)
  BY <1>2
<1> QED BY <1>1, <1>2, <1>3, <1>4, Zenon DEF AsksFor

(* Taking the first request leaves those of the others.                     *)
LEMMA AsksTail ==
  ASSUME NEW s \in Seq(Request), s # <<>>, NEW d
  PROVE  AsksFor(s, d) <=> Spans(Head(s), d) \/ AsksFor(Tail(s), d)
<1>1. /\ Len(s) > 0 /\ Len(Tail(s)) = Len(s) - 1 /\ Head(s) = s[1]
      /\ \A i \in 1..(Len(s) - 1) : Tail(s)[i] = s[i + 1]
  OBVIOUS
<1>2. DOMAIN s = 1..Len(s) /\ DOMAIN Tail(s) = 1..(Len(s) - 1)
  BY <1>1
<1>3. \A i \in DOMAIN s : i = 1 \/ \E j \in DOMAIN Tail(s) : i = j + 1
  <2> SUFFICES ASSUME NEW i \in 1..Len(s), i # 1
               PROVE  i - 1 \in 1..(Len(s) - 1) /\ i = (i - 1) + 1
    BY <1>2
  <2> QED OBVIOUS
<1>4. 1 \in DOMAIN s /\ \A j \in DOMAIN Tail(s) : j + 1 \in DOMAIN s
  BY <1>1, <1>2
<1> QED BY <1>1, <1>2, <1>3, <1>4, Zenon DEF AsksFor

(* The days of the Day requests of a queue, and that each is there once.    *)
DaysIn(s) == {s[i].from : i \in {j \in DOMAIN s : s[j].kind = "day"}}
DaysOnce(s) == \A i, j \in DOMAIN s : s[i].kind = "day" /\ s[i] = s[j] => i = j
Shaped(s) == \A i \in DOMAIN s : DayShape(s[i])

(* Two Day requests for one day are the same request.                       *)
LEMMA SameDay ==
  ASSUME NEW r \in Request, NEW q \in Request, DayShape(r), DayShape(q),
         r.kind = "day", q.kind = "day", r.from = q.from
  PROVE  r = q
BY DEF Request, DayShape

(* Appending a Day for one day, or a Range, keeps the shape.                *)
LEMMA ShapedAppend ==
  ASSUME NEW s \in Seq(Request), Shaped(s), NEW r \in Request, DayShape(r)
  PROVE  Append(s, r) \in Seq(Request) /\ Shaped(Append(s, r))
<1>1. /\ Len(Append(s, r)) = Len(s) + 1
      /\ \A i \in 1..Len(s) : Append(s, r)[i] = s[i]
      /\ Append(s, r)[Len(s) + 1] = r
      /\ DOMAIN s = 1..Len(s)
      /\ DOMAIN Append(s, r) = 1..(Len(s) + 1)
  OBVIOUS
<1>2. DOMAIN Append(s, r) = DOMAIN s \cup {Len(s) + 1}
  BY <1>1
<1>3. Shaped(Append(s, r))
  BY <1>1, <1>2, Zenon DEF Shaped
<1> QED BY <1>3

(* enqueue keeps pending_days exact.                                        *)
LEMMA PendingAppend ==
  ASSUME NEW s \in Seq(Request), NEW r \in Request,
         DaysOnce(s), Shaped(s), DayShape(r),
         r.kind = "day" => r.from \notin DaysIn(s)
  PROVE  /\ DaysIn(Append(s, r)) =
              IF r.kind = "day" THEN DaysIn(s) \cup {r.from} ELSE DaysIn(s)
         /\ DaysOnce(Append(s, r))
         /\ Shaped(Append(s, r))
<1>1. /\ Len(Append(s, r)) = Len(s) + 1
      /\ \A i \in 1..Len(s) : Append(s, r)[i] = s[i]
      /\ Append(s, r)[Len(s) + 1] = r
  OBVIOUS
<1>2. DOMAIN s = 1..Len(s) /\ DOMAIN Append(s, r) = 1..(Len(s) + 1)
  BY <1>1
<1>3. DOMAIN Append(s, r) = DOMAIN s \cup {Len(s) + 1}
  BY <1>2
<1>4. /\ \A i \in DOMAIN s : Append(s, r)[i] = s[i]
      /\ \A i \in DOMAIN s : s[i].kind = "day" => s[i].from \in DaysIn(s)
  BY <1>1, <1>2 DEF DaysIn
<1>5. ASSUME NEW d
      PROVE  d \in DaysIn(Append(s, r)) <=> d \in DaysIn(s) \/ (r.kind = "day" /\ d = r.from)
  <2>1. ASSUME d \in DaysIn(Append(s, r))
        PROVE  d \in DaysIn(s) \/ (r.kind = "day" /\ d = r.from)
    <3>1. PICK i \in DOMAIN Append(s, r) :
            Append(s, r)[i].kind = "day" /\ d = Append(s, r)[i].from
      BY <2>1, Zenon DEF DaysIn
    <3>2. CASE i \in DOMAIN s
      BY <3>1, <3>2, <1>4, Zenon
    <3>3. CASE i = Len(s) + 1
      BY <3>1, <3>3, <1>1, Zenon
    <3> QED BY <3>2, <3>3, <1>3
  <2>2. ASSUME d \in DaysIn(s) PROVE d \in DaysIn(Append(s, r))
    <3>1. PICK i \in DOMAIN s : s[i].kind = "day" /\ d = s[i].from
      BY <2>2, Zenon DEF DaysIn
    <3> QED BY <3>1, <1>3, <1>4, Zenon DEF DaysIn
  <2>3. ASSUME r.kind = "day", d = r.from PROVE d \in DaysIn(Append(s, r))
    BY <2>3, <1>1, <1>3, Zenon DEF DaysIn
  <2> QED BY <2>1, <2>2, <2>3, Zenon
<1>6. DaysIn(Append(s, r)) =
        IF r.kind = "day" THEN DaysIn(s) \cup {r.from} ELSE DaysIn(s)
  <2>1. CASE r.kind = "day"
    BY <1>5, <2>1, Zenon
  <2>2. CASE r.kind # "day"
    BY <1>5, <2>2, Zenon
  <2> QED BY <2>1, <2>2
<1>7. DaysOnce(Append(s, r))
  <2> SUFFICES ASSUME NEW i \in DOMAIN Append(s, r), NEW j \in DOMAIN Append(s, r),
                      Append(s, r)[i].kind = "day", Append(s, r)[i] = Append(s, r)[j]
               PROVE  i = j
    BY Zenon DEF DaysOnce
  <2>1. CASE i \in DOMAIN s /\ j \in DOMAIN s
    BY <2>1, <1>4, Zenon DEF DaysOnce
  <2>2. CASE i \in DOMAIN s /\ j = Len(s) + 1
    BY <2>2, <1>1, <1>4, Zenon
  <2>3. CASE i = Len(s) + 1 /\ j \in DOMAIN s
    BY <2>3, <1>1, <1>4, Zenon
  <2>4. CASE i = Len(s) + 1 /\ j = Len(s) + 1
    BY <2>4
  <2> QED BY <2>1, <2>2, <2>3, <2>4, <1>3
<1>8. Shaped(Append(s, r))
  BY ShapedAppend
<1> QED BY <1>6, <1>7, <1>8

(* pop_front takes its day out of pending_days.                             *)
LEMMA PendingTail ==
  ASSUME NEW s \in Seq(Request), s # <<>>, DaysOnce(s), Shaped(s)
  PROVE  /\ DaysIn(Tail(s)) =
              IF Head(s).kind = "day" THEN DaysIn(s) \ {Head(s).from} ELSE DaysIn(s)
         /\ DaysOnce(Tail(s))
         /\ Shaped(Tail(s))
         /\ DayShape(Head(s))
<1>1. /\ Len(s) > 0 /\ Len(Tail(s)) = Len(s) - 1 /\ Head(s) = s[1]
      /\ \A i \in 1..(Len(s) - 1) : Tail(s)[i] = s[i + 1]
      /\ \A i \in 1..Len(s) : s[i] \in Request
  OBVIOUS
<1>2. DOMAIN s = 1..Len(s) /\ DOMAIN Tail(s) = 1..(Len(s) - 1)
  BY <1>1
<1>3. \A i \in DOMAIN s : i = 1 \/ \E j \in DOMAIN Tail(s) : i = j + 1
  <2> SUFFICES ASSUME NEW i \in 1..Len(s), i # 1
               PROVE  i - 1 \in 1..(Len(s) - 1) /\ i = (i - 1) + 1
    BY <1>2
  <2> QED OBVIOUS
<1>4. /\ 1 \in DOMAIN s
      /\ \A j \in DOMAIN Tail(s) : j + 1 \in DOMAIN s /\ Tail(s)[j] = s[j + 1] /\ j + 1 # 1
  BY <1>1, <1>2
<1>5. DaysOnce(Tail(s))
  <2> SUFFICES ASSUME NEW i \in DOMAIN Tail(s), NEW j \in DOMAIN Tail(s),
                      Tail(s)[i].kind = "day", Tail(s)[i] = Tail(s)[j]
               PROVE  i = j
    BY Zenon DEF DaysOnce
  <2>1. i + 1 = j + 1
    BY <1>4, Zenon DEF DaysOnce
  <2> QED BY <2>1, <1>2
<1>6. Shaped(Tail(s)) /\ DayShape(Head(s))
  BY <1>1, <1>4, Zenon DEF Shaped
<1>7. ASSUME NEW i \in DOMAIN s, i # 1, s[i].kind = "day", Head(s).kind = "day"
      PROVE  s[i].from # Head(s).from
  BY <1>1, <1>2, <1>4, <1>7, SameDay, Zenon DEF DaysOnce, Shaped
<1>8. ASSUME NEW d PROVE d \in DaysIn(Tail(s)) <=>
        d \in DaysIn(s) /\ ~(Head(s).kind = "day" /\ d = Head(s).from)
  <2>1. ASSUME d \in DaysIn(Tail(s))
        PROVE  d \in DaysIn(s) /\ ~(Head(s).kind = "day" /\ d = Head(s).from)
    <3>1. PICK i \in DOMAIN Tail(s) : Tail(s)[i].kind = "day" /\ d = Tail(s)[i].from
      BY <2>1, Zenon DEF DaysIn
    <3>2. i + 1 \in DOMAIN s /\ i + 1 # 1 /\ s[i + 1].kind = "day" /\ d = s[i + 1].from
      BY <3>1, <1>4, Zenon
    <3> QED BY <3>2, <1>7, Zenon DEF DaysIn
  <2>2. ASSUME d \in DaysIn(s), ~(Head(s).kind = "day" /\ d = Head(s).from)
        PROVE  d \in DaysIn(Tail(s))
    <3>1. PICK i \in DOMAIN s : s[i].kind = "day" /\ d = s[i].from
      BY <2>2, Zenon DEF DaysIn
    <3>2. i # 1
      BY <3>1, <2>2, <1>1, Zenon
    <3>3. PICK j \in DOMAIN Tail(s) : i = j + 1
      BY <3>2, <1>3, Zenon
    <3> QED BY <3>1, <3>3, <1>4, Zenon DEF DaysIn
  <2> QED BY <2>1, <2>2
<1>9. DaysIn(Tail(s)) =
        IF Head(s).kind = "day" THEN DaysIn(s) \ {Head(s).from} ELSE DaysIn(s)
  <2>1. CASE Head(s).kind = "day"
    BY <1>8, <2>1, Zenon
  <2>2. CASE Head(s).kind # "day"
    BY <1>8, <2>2, Zenon
  <2> QED BY <2>1, <2>2
<1> QED BY <1>5, <1>6, <1>9

-----------------------------------------------------------------------------
(* The queues: types, pending_days and the place where the worker stops.    *)

(* The parts of the invariant in the vocabulary of the lemmas.              *)
LEMMA QueueWords ==
  /\ PendingIsExact <=> pending = DaysIn(ready) /\ DaysOnce(ready)
  /\ PendingIsExact' <=> pending' = DaysIn(ready') /\ DaysOnce(ready')
  /\ Shapes <=> Shaped(chan) /\ Shaped(ready) /\ DayShape(cur)
  /\ Shapes' <=> Shaped(chan') /\ Shaped(ready') /\ DayShape(cur')
BY Zenon DEF PendingIsExact, Shapes, DaysIn, DaysOnce, Shaped, DayShape

(* A Day request is a request.                                              *)
LEMMA DayIsRequest ==
  ASSUME NEW d \in Days
  PROVE  Day(d) \in Request /\ DayShape(Day(d)) /\ Day(d).kind = "day" /\ Spans(Day(d), d)
BY DEF Day, Request, DayShape, Spans, Days

(* What recompute_for_day reads has its type.                               *)
LEMMA ReadTypes ==
  ASSUME TypeOK, NEW d \in Days
  PROVE  /\ EventsOf(d) \subseteq Events
         /\ LeaveOn(d) \in Leaves \cup {NoLeave}
         /\ [events |-> EventsOf(d), leave |-> NoLeave] \in Input
         /\ Current(d) \in Input
<1>1. EventsOf(d) \subseteq Events
  BY DEF TypeOK, EventsOf
<1>2. LeaveOn(d) \in Leaves \cup {NoLeave}
  <2>1. CASE Covering(d) = {}
    BY <2>1 DEF LeaveOn
  <2>2. CASE Covering(d) # {}
    <3>1. (CHOOSE l \in Covering(d) : TRUE) \in Covering(d)
      BY <2>2
    <3> QED BY <2>2, <3>1 DEF LeaveOn, Covering
  <2> QED BY <2>1, <2>2
<1> QED BY <1>1, <1>2 DEF Input, Current

(* The rest of a chunk is at most one Range request.                        *)
LEMMA ContinuationIsRange ==
  ASSUME NEW r \in Request, DayShape(r)
  PROVE  \/ /\ Continuation(r) = <<>>
            /\ ~(r.from < r.to)
         \/ \E q \in Request :
              /\ Continuation(r) = <<q>> /\ DayShape(q) /\ q.kind # "day"
              /\ r.from < r.to /\ q.from = r.from + 1 /\ q.to = r.to
<1>1. CASE r.from < r.to
  <2> DEFINE q == [r EXCEPT !.from = r.from + 1]
  <2> DEFINE f == r.from + 1
  <2>0. /\ r.kind \in {"day", "range"} /\ r.from \in Days /\ r.to \in Days
        /\ r = [kind |-> r.kind, from |-> r.from, to |-> r.to]
    BY DEF Request
  <2>4. f \in Days
    BY <1>1, <2>0, RecomputeAssumption DEF Days
  <2>5. q = [kind |-> r.kind, from |-> f, to |-> r.to]
    BY <2>0
  <2>1. q \in Request /\ q.kind = r.kind /\ q.from = r.from + 1 /\ q.to = r.to
    BY <2>0, <2>4, <2>5 DEF Request
  <2>2. r.kind # "day"
    BY <1>1, <2>0 DEF DayShape, Days
  <2>3. Continuation(r) = <<q>>
    BY <1>1 DEF Continuation
  <2> HIDE DEF q
  <2> QED BY <1>1, <2>1, <2>2, <2>3 DEF DayShape
<1>2. CASE ~(r.from < r.to)
  BY <1>2 DEF Continuation
<1> QED BY <1>1, <1>2

(* Appending it keeps pending_days exact and asks for what was left.        *)
LEMMA ContinuationKeeps ==
  ASSUME NEW s \in Seq(Request), NEW r \in Request, DayShape(r),
         DaysOnce(s), Shaped(s)
  PROVE  /\ s \o Continuation(r) \in Seq(Request)
         /\ DaysIn(s \o Continuation(r)) = DaysIn(s)
         /\ DaysOnce(s \o Continuation(r))
         /\ Shaped(s \o Continuation(r))
         /\ \A d \in Days : AsksFor(s \o Continuation(r), d)
                              <=> AsksFor(s, d) \/ (Spans(r, d) /\ d # r.from)
         /\ s \o Continuation(r) = <<>> => s = <<>>
<1>1. CASE Continuation(r) = <<>> /\ ~(r.from < r.to)
  <2>1. s \o Continuation(r) = s
    BY <1>1, ConcatEmptySeq
  <2>2. \A d \in Days : ~(Spans(r, d) /\ d # r.from)
    BY <1>1 DEF Spans, Request, Days
  <2> QED BY <2>1, <2>2
<1>2. CASE \E q \in Request :
             /\ Continuation(r) = <<q>> /\ DayShape(q) /\ q.kind # "day"
             /\ r.from < r.to /\ q.from = r.from + 1 /\ q.to = r.to
  <2>1. PICK q \in Request :
             /\ Continuation(r) = <<q>> /\ DayShape(q) /\ q.kind # "day"
             /\ r.from < r.to /\ q.from = r.from + 1 /\ q.to = r.to
    BY <1>2
  <2>2. s \o Continuation(r) = Append(s, q)
    <3>1. s \o <<q>> = Append(s, q)
      BY AppendIsConcat
    <3> QED BY <2>1, <3>1, Zenon
  <2>3. \A d \in Days : Spans(q, d) <=> Spans(r, d) /\ d # r.from
    BY <2>1 DEF Spans, Request, Days
  <2>4. Append(s, q) \in Seq(Request) /\ Append(s, q) # <<>>
    BY AppendProperties
  <2>5. /\ DaysIn(Append(s, q)) = DaysIn(s)
        /\ DaysOnce(Append(s, q)) /\ Shaped(Append(s, q))
    BY <2>1, PendingAppend
  <2>6. \A d \in Days : AsksFor(Append(s, q), d) <=> AsksFor(s, d) \/ Spans(q, d)
    BY AsksAppend
  <2> QED BY <2>2, <2>3, <2>4, <2>5, <2>6, Zenon
<1> QED BY <1>1, <1>2, ContinuationIsRange

(* enqueue: a day that waits already is asked for already.                  *)
LEMMA EnqueueKeeps ==
  ASSUME ready \in Seq(Request), pending \subseteq Days, PendingIsExact, Shaped(ready),
         NEW r \in Request, DayShape(r), enqueue(r)
  PROVE  /\ ready' \in Seq(Request) /\ pending' \subseteq Days
         /\ PendingIsExact' /\ Shaped(ready')
         /\ ready' # <<>>
         /\ \A d \in Days : AsksFor(ready', d) <=> AsksFor(ready, d) \/ Spans(r, d)
<1>1. pending = DaysIn(ready) /\ DaysOnce(ready)
  BY QueueWords
<1>2. CASE r.kind = "day" /\ r.from \in pending
  <2>1. ready' = ready /\ pending' = pending
    BY <1>2 DEF enqueue, queueVars
  <2>2. PICK i \in DOMAIN ready : ready[i].kind = "day" /\ ready[i].from = r.from
    BY <1>1, <1>2, Zenon DEF DaysIn
  <2>3. ready[i] = r
    BY <1>2, <2>2, SameDay DEF Shaped
  <2>4. \A d \in Days : Spans(r, d) => AsksFor(ready, d)
    BY <2>3 DEF AsksFor
  <2>5. ready # <<>>
    BY <2>2
  <2>6. DaysIn(ready') = DaysIn(ready) /\ DaysOnce(ready') /\ Shaped(ready')
    BY <1>1, <2>1
  <2>7. PendingIsExact'
    BY <1>1, <2>1, <2>6, QueueWords
  <2>8. \A d \in Days : AsksFor(ready', d) <=> AsksFor(ready, d) \/ Spans(r, d)
    BY <2>1, <2>4
  <2> QED BY <2>1, <2>5, <2>6, <2>7, <2>8
<1>3. CASE ~(r.kind = "day" /\ r.from \in pending)
  <2>1. /\ ready' = Append(ready, r)
        /\ pending' = IF r.kind = "day" THEN pending \cup {r.from} ELSE pending
    BY <1>3 DEF enqueue
  <2>2. ready' \in Seq(Request) /\ ready' # <<>> /\ pending' \subseteq Days
    BY <2>1 DEF Request
  <2>3. pending' = DaysIn(ready') /\ DaysOnce(ready') /\ Shaped(ready')
    BY <1>1, <1>3, <2>1, PendingAppend
  <2>4. \A d \in Days : AsksFor(ready', d) <=> AsksFor(ready, d) \/ Spans(r, d)
    BY <2>1, AsksAppend
  <2> QED BY <2>2, <2>3, <2>4, QueueWords
<1> QED BY <1>2, <1>3

(* The requests of an event.                                                *)
AnchorDays(e) == [i \in DOMAIN Anchors[e] |-> Day(Anchors[e][i])]

(* They are Day requests, one for each of its days, behind what waits.      *)
LEMMA AnchorRequests ==
  ASSUME NEW s \in Seq(Request), Shaped(s), NEW e \in Events
  PROVE  /\ s \o AnchorDays(e) \in Seq(Request)
         /\ Shaped(s \o AnchorDays(e))
         /\ \A d \in Days : AsksFor(s, d) => AsksFor(s \o AnchorDays(e), d)
         /\ \A i \in DOMAIN Anchors[e] : AsksFor(s \o AnchorDays(e), Anchors[e][i])
<1> DEFINE t == AnchorDays(e)
<1>1. Anchors[e] \in Seq(Days)
  BY RecomputeAssumption
<1>2. /\ DOMAIN t = DOMAIN Anchors[e]
      /\ \A i \in DOMAIN t : Anchors[e][i] \in Days /\ t[i] = Day(Anchors[e][i])
  BY <1>1 DEF AnchorDays
<1>3. \A i \in DOMAIN t :
        t[i] \in Request /\ DayShape(t[i]) /\ Spans(t[i], Anchors[e][i])
  BY <1>2, DayIsRequest
<1>4. t \in Seq(Request) /\ DOMAIN t = 1..Len(t)
  <2>1. DOMAIN t = 1..Len(Anchors[e]) /\ Len(Anchors[e]) \in Nat
    BY <1>1, <1>2
  <2>2. t = [i \in 1..Len(Anchors[e]) |-> Day(Anchors[e][i])]
    BY <1>1 DEF AnchorDays
  <2> HIDE DEF t
  <2>3. t \in [1..Len(Anchors[e]) -> Request]
    BY <1>2, <1>3, <2>1, <2>2
  <2>4. t \in Seq(Request)
    BY <2>1, <2>3, SeqDef
  <2> QED BY <2>4
<1> HIDE DEF t
<1>5. /\ s \o t \in Seq(Request)
      /\ \A i \in 1..Len(s) : (s \o t)[i] = s[i]
      /\ \A i \in 1..Len(t) : (s \o t)[Len(s) + i] = t[i]
      /\ DOMAIN s = 1..Len(s) /\ DOMAIN (s \o t) = 1..(Len(s) + Len(t))
  BY <1>4
<1>6. \A i \in DOMAIN (s \o t) :
        i \in DOMAIN s \/ \E j \in DOMAIN t : i = Len(s) + j
  <2> SUFFICES ASSUME NEW i \in 1..(Len(s) + Len(t)), i \notin 1..Len(s)
               PROVE  i - Len(s) \in 1..Len(t) /\ i = Len(s) + (i - Len(s))
    BY <1>4, <1>5
  <2> QED BY <1>4
<1>7. Shaped(s \o t)
  BY <1>3, <1>4, <1>5, <1>6, Zenon DEF Shaped
<1>8. \A d \in Days : AsksFor(s, d) => AsksFor(s \o t, d)
  BY <1>4, AsksConcat
<1>9. ASSUME NEW i \in DOMAIN Anchors[e] PROVE AsksFor(s \o t, Anchors[e][i])
  <2>1. AsksFor(t, Anchors[e][i])
    BY <1>2, <1>3 DEF AsksFor
  <2> QED BY <2>1, <1>4, AsksConcat
<1>10. t = AnchorDays(e)
  BY DEF t
<1> QED BY <1>5, <1>7, <1>8, <1>9, <1>10, Zenon

(* An event is among the requests for every day that reads it.              *)
LEMMA EventAsks ==
  ASSUME WindowsStayInside, NEW s \in Seq(Request), Shaped(s),
         NEW e \in Events, NEW d \in Days, e \in Claims[d]
  PROVE  AsksFor(s \o AnchorDays(e), d)
<1>1. CapturedAt[e] \in Nat /\ d \in Int /\ InWindow(CapturedAt[e], d)
  BY RecomputeAssumption DEF Claims, Days
<1>2. \E i \in DOMAIN anchor_dates_for_instant(CapturedAt[e]) :
        anchor_dates_for_instant(CapturedAt[e])[i] = d
  BY <1>1, AnchorsAreComplete
<1>3. Anchors[e] = anchor_dates_for_instant(CapturedAt[e])
  BY DEF Anchors
<1>4. PICK i \in DOMAIN Anchors[e] : Anchors[e][i] = d
  BY <1>2, <1>3, Zenon
<1> QED BY <1>4, AnchorRequests, Zenon

(* A producer appends requests, and of the rest changes the data only; a    *)
(* day that reads something else afterwards is asked for, or excepted.      *)
Sends ==
  /\ phase \in {"up", "joining", "flushing"} /\ writes' \in 0..MaxWrites
  /\ Produced
  /\ chan' \in Seq(Request) /\ Shaped(chan')
  /\ active' \in BOOLEAN /\ events' \subseteq Events
  /\ leaves' \in [Leaves -> {"none", "active", "cancelled"}]
  /\ excused' \subseteq Days /\ faults' \in 0..MaxFaults
  /\ active' => active
  /\ excused \subseteq excused'
  /\ \A d \in Days :
       /\ AsksFor(chan, d) => AsksFor(chan', d)
       /\ EventsOf(d) \subseteq EventsOf(d)'
       /\ EventsOf(d)' = EventsOf(d) \/ AsksFor(chan', d) \/ d \in excused'
       /\ LeaveOn(d)' = LeaveOn(d) \/ AsksFor(chan', d)

(* Every producer does.                                                     *)
LEMMA ProducerSends ==
  ASSUME WindowsStayInside, QueueInv, Producer
  PROVE  Sends
<1>1. /\ chan \in Seq(Request) /\ Shaped(chan) /\ active \in BOOLEAN
      /\ events \subseteq Events /\ leaves \in [Leaves -> {"none", "active", "cancelled"}]
      /\ excused \subseteq Days /\ faults \in 0..MaxFaults /\ writes \in 0..MaxWrites
  BY QueueWords DEF TypeOK, QueueInv
<1>2. ASSUME NEW r \in Request, DayShape(r), chan' = Append(chan, r)
       PROVE  /\ chan' \in Seq(Request) /\ Shaped(chan')
              /\ \A d \in Days : AsksFor(chan', d) <=> AsksFor(chan, d) \/ Spans(r, d)
  BY <1>1, <1>2, ShapedAppend, AsksAppend
<1>3. Committing => phase \in {"up", "joining", "flushing"} /\ writes' \in 0..MaxWrites
  BY <1>1, RecomputeAssumption DEF Committing, Accepted
<1>4. Fault => faults' \in 0..MaxFaults
  BY <1>1, RecomputeAssumption DEF Fault
<1>5. ASSUME leaves' = leaves PROVE \A d \in Days : LeaveOn(d)' = LeaveOn(d)
  BY <1>5 DEF LeaveOn, Covering
<1>6. ASSUME events' = events PROVE \A d \in Days : EventsOf(d)' = EventsOf(d)
  BY <1>6 DEF EventsOf
<1>7. ASSUME NEW e \in Events, persist_attendance_event(e) PROVE Sends
  <2>1. /\ Committing /\ Produced /\ events' = events \cup {e}
        /\ active' = active /\ leaves' = leaves
    BY <1>7 DEF persist_attendance_event
  <2>2. \A d \in Days :
          /\ EventsOf(d) \subseteq EventsOf(d)'
          /\ e \notin Claims[d] => EventsOf(d)' = EventsOf(d)
    BY <2>1 DEF EventsOf
  <2>3. CASE chan' = chan \o AnchorDays(e) /\ excused' = excused /\ faults' = faults
    <3>1. /\ chan' \in Seq(Request) /\ Shaped(chan')
          /\ \A d \in Days : AsksFor(chan, d) => AsksFor(chan', d)
      BY <2>3, <1>1, AnchorRequests
    <3>2. \A d \in Days : e \in Claims[d] => AsksFor(chan', d)
      BY <2>3, <1>1, EventAsks
    <3> QED BY <2>1, <2>2, <2>3, <3>1, <3>2, <1>1, <1>3, <1>5 DEF Sends
  <2>4. CASE /\ Fault
             /\ chan' = Append(chan, Day(OwnDate(CapturedAt[e])))
             /\ excused' = excused \cup
                  {d \in Days : e \in Claims[d] /\ d # OwnDate(CapturedAt[e])}
    <3> DEFINE own == OwnDate(CapturedAt[e])
    <3>1. own \in Days
      BY RecomputeAssumption
    <3> HIDE DEF own
    <3>2. Day(own) \in Request /\ DayShape(Day(own)) /\ Spans(Day(own), own)
      BY <3>1, DayIsRequest
    <3>3. chan' = Append(chan, Day(own))
      BY <2>4 DEF own
    <3>4. /\ chan' \in Seq(Request) /\ Shaped(chan')
          /\ \A d \in Days : AsksFor(chan', d) <=> AsksFor(chan, d) \/ Spans(Day(own), d)
      BY <3>2, <3>3, <1>2
    <3>5. \A d \in Days : e \in Claims[d] => AsksFor(chan', d) \/ d \in excused'
      BY <2>4, <3>1, <3>2, <3>4 DEF own
    <3>6. excused \subseteq excused' /\ excused' \subseteq Days
      BY <2>4, <1>1
    <3> QED BY <2>1, <2>2, <2>4, <3>4, <3>5, <3>6, <1>1, <1>3, <1>4, <1>5 DEF Sends
  <2> QED BY <1>7, <2>3, <2>4 DEF persist_attendance_event, AnchorDays
<1>8. ASSUME NEW l \in Leaves, NEW v \in {"active", "cancelled"},
             Committing, Produced, leaves' = [leaves EXCEPT ![l] = v],
             chan' = Append(chan, RangeOf(l)),
             UNCHANGED <<active, events, excused, faults>>
      PROVE  Sends
  <2>1. /\ RangeOf(l) \in Request /\ DayShape(RangeOf(l))
        /\ RangeOf(l).from = First[l] /\ RangeOf(l).to = Last[l]
    BY RecomputeAssumption DEF RangeOf, Request, DayShape
  <2>2. /\ chan' \in Seq(Request) /\ Shaped(chan')
        /\ \A d \in Days : AsksFor(chan', d) <=> AsksFor(chan, d) \/ Spans(RangeOf(l), d)
    BY <1>8, <2>1, <1>2
  <2>3. ASSUME NEW d \in Days, ~Spans(RangeOf(l), d) PROVE LeaveOn(d)' = LeaveOn(d)
    <3>1. ~(First[l] <= d /\ d <= Last[l])
      BY <2>1, <2>3 DEF Spans
    <3>2. Covering(d)' = Covering(d)
      BY <1>1, <1>8, <3>1 DEF Covering
    <3> QED BY <3>2 DEF LeaveOn
  <2>4. leaves' \in [Leaves -> {"none", "active", "cancelled"}]
    BY <1>1, <1>8
  <2> QED BY <1>8, <2>2, <2>3, <2>4, <1>1, <1>3, <1>6 DEF Sends
<1>9. ASSUME NEW l \in Leaves, create_leave(l) \/ cancel_leave(l) PROVE Sends
  BY <1>8, <1>9, Zenon DEF create_leave, cancel_leave
<1>10. ASSUME NEW d \in Days, create_override(d) PROVE Sends
  <2>1. /\ chan' = Append(chan, Day(d)) /\ Committing /\ Produced
        /\ UNCHANGED <<active, events, leaves, excused, faults>>
    BY <1>10 DEF create_override
  <2>2. /\ chan' \in Seq(Request) /\ Shaped(chan')
        /\ \A x \in Days : AsksFor(chan, x) => AsksFor(chan', x)
    BY <2>1, <1>2, DayIsRequest
  <2> QED BY <2>1, <2>2, <1>1, <1>3, <1>6, <1>5 DEF Sends
<1>11. CASE deactivate
  <2>1. /\ Committing /\ Produced /\ active' = FALSE
        /\ UNCHANGED <<events, leaves, chan, excused, faults>>
    BY <1>11 DEF deactivate
  <2> QED BY <2>1, <1>1, <1>3, <1>6, <1>5 DEF Sends
<1> QED BY <1>7, <1>9, <1>10, <1>11, Zenon DEF Producer

-----------------------------------------------------------------------------
(* The worker between two computations.                                     *)

(* It moves requests, and the days they ask for stay asked for.             *)
Moves ==
  /\ UNCHANGED <<dataVars, nightVars, phase, records, passed, excused, faults>>
  /\ worker \notin {"overlay", "write"} /\ worker' \notin {"overlay", "write"}
  /\ \A d \in Days : Asked(d) => Asked(d)'

(* What such a step leaves alone keeps its type.                            *)
LEMMA MoveTypes ==
  ASSUME TypeOK,
         UNCHANGED <<dataVars, nightVars, phase, records, passed, excused, faults>>,
         chan' \in Seq(Request), ready' \in Seq(Request), pending' \subseteq Days,
         worker' \in {"loop", "read", "overlay", "write", "next", "drain", "last", "stopped"},
         cur' \in Request, count' \in 0..(ChunkDays - 1), taken' \in 0..Burst,
         snap' \in Input
  PROVE  TypeOK'
BY DEF TypeOK, dataVars, nightVars

(* The locals at rest.                                                      *)
LEMMA IdleTypes ==
  ASSUME Idle
  PROVE  /\ cur' \in Request /\ DayShape(cur') /\ count' \in 0..(ChunkDays - 1)
         /\ taken' \in 0..Burst /\ snap' \in Input
<1>1. 1 \in Days
  BY RecomputeAssumption DEF Days
<1>2. cur' \in Request /\ DayShape(cur')
  BY <1>1, DayIsRequest DEF Idle
<1>3. count' \in 0..(ChunkDays - 1) /\ taken' \in 0..Burst
  BY RecomputeAssumption DEF Idle
<1>4. snap' \in Input
  BY DEF Idle, Nothing, Input
<1> QED BY <1>2, <1>3, <1>4

(* Every such step keeps the queues in order and forgets no request.        *)
LEMMA PopMoves == ASSUME QueueInv, pop_front PROVE QueueInv' /\ Moves
<1> USE DEF QueueInv
<1>1. /\ worker = "loop" /\ ready # <<>> /\ cur' = Head(ready) /\ ready' = Tail(ready)
      /\ pending' = PendingAfterPop(Head(ready)) /\ count' = 0 /\ worker' = "read"
      /\ UNCHANGED <<chan, taken, snap>>
      /\ UNCHANGED <<dataVars, nightVars, phase, records, passed, excused, faults>>
  BY DEF pop_front, WorkerFrame
<1>2. /\ chan \in Seq(Request) /\ ready \in Seq(Request) /\ pending \subseteq Days
      /\ snap \in Input /\ taken \in 0..Burst
  BY DEF TypeOK
<1>3. /\ pending = DaysIn(ready) /\ DaysOnce(ready)
      /\ Shaped(chan) /\ Shaped(ready)
  BY QueueWords
<1>4. Head(ready) \in Request /\ Tail(ready) \in Seq(Request)
  BY <1>1, <1>2
<1>5. pending' \subseteq Days /\ count' \in 0..(ChunkDays - 1)
  BY <1>1, <1>2, RecomputeAssumption DEF PendingAfterPop
<1>6. TypeOK'
  BY <1>1, <1>2, <1>4, <1>5, MoveTypes
<1>7. /\ DaysIn(Tail(ready)) =
           IF Head(ready).kind = "day" THEN DaysIn(ready) \ {Head(ready).from}
           ELSE DaysIn(ready)
      /\ DaysOnce(Tail(ready)) /\ Shaped(Tail(ready)) /\ DayShape(Head(ready))
  BY <1>1, <1>2, <1>3, PendingTail
<1>8. pending' = DaysIn(ready')
  BY <1>1, <1>3, <1>7 DEF PendingAfterPop
<1>9. PendingIsExact' /\ Shapes'
  BY <1>1, <1>3, <1>7, <1>8, QueueWords
<1>10. Flow'
  BY <1>1 DEF Flow, nightVars
<1>11. ASSUME NEW d \in Days, Asked(d) PROVE Asked(d)'
  <2>1. AsksFor(ready, d) <=> Spans(Head(ready), d) \/ AsksFor(Tail(ready), d)
    BY <1>1, <1>2, AsksTail
  <2> QED BY <1>1, <1>11, <2>1 DEF Asked, AsksFor
<1> QED BY <1>1, <1>6, <1>9, <1>10, <1>11 DEF Moves

(* recv and try_recv take the head of the channel.                          *)
LEMMA TakeMoves ==
  ASSUME QueueInv, chan # <<>>, enqueue(Head(chan)), chan' = Tail(chan),
         UNCHANGED <<dataVars, nightVars, phase, records, passed, excused, faults>>,
         UNCHANGED <<cur, count, snap>>, taken' \in 0..Burst,
         worker \in {"loop", "drain", "last"}, worker' \in {"drain", "last"},
         worker = "last" <=> worker' = "last"
  PROVE  QueueInv' /\ Moves
<1> USE DEF QueueInv
<1>1. /\ chan \in Seq(Request) /\ ready \in Seq(Request) /\ pending \subseteq Days
      /\ snap \in Input /\ cur \in Request /\ count \in 0..(ChunkDays - 1)
  BY DEF TypeOK
<1>2. /\ pending = DaysIn(ready) /\ DaysOnce(ready)
      /\ Shaped(chan) /\ Shaped(ready) /\ DayShape(cur)
  BY QueueWords
<1>3. Head(chan) \in Request /\ Tail(chan) \in Seq(Request)
  BY <1>1
<1>4. Shaped(Tail(chan)) /\ DayShape(Head(chan))
  <2>1. /\ Len(chan) > 0 /\ Len(Tail(chan)) = Len(chan) - 1 /\ Head(chan) = chan[1]
        /\ \A i \in 1..(Len(chan) - 1) : Tail(chan)[i] = chan[i + 1]
        /\ DOMAIN chan = 1..Len(chan) /\ DOMAIN Tail(chan) = 1..(Len(chan) - 1)
    BY <1>1
  <2>2. /\ 1 \in DOMAIN chan
        /\ \A i \in DOMAIN Tail(chan) : i + 1 \in DOMAIN chan /\ Tail(chan)[i] = chan[i + 1]
    BY <2>1
  <2> QED BY <1>2, <2>1, <2>2, Zenon DEF Shaped
<1>5. /\ ready' \in Seq(Request) /\ pending' \subseteq Days
      /\ PendingIsExact' /\ Shaped(ready') /\ ready' # <<>>
      /\ \A d \in Days : AsksFor(ready', d) <=> AsksFor(ready, d) \/ Spans(Head(chan), d)
  BY <1>1, <1>2, <1>3, <1>4, EnqueueKeeps
<1>6. TypeOK'
  BY <1>1, <1>3, <1>5, MoveTypes
<1>7. Shapes'
  <2>1. Shaped(chan') /\ DayShape(cur')
    BY <1>2, <1>4
  <2> QED BY <2>1, <1>5, QueueWords
<1>8. Flow'
  BY <1>5 DEF Flow, nightVars
<1>9. ASSUME NEW d \in Days, Asked(d) PROVE Asked(d)'
  <2>1. AsksFor(chan, d) <=> Spans(Head(chan), d) \/ AsksFor(Tail(chan), d)
    BY <1>1, AsksTail
  <2>2. AsksFor(chan, d) => AsksFor(chan', d) \/ AsksFor(ready', d)
    BY <1>5, <2>1
  <2>3. AsksFor(ready, d) => AsksFor(ready', d)
    BY <1>5
  <2>4. worker = "drain" => worker' = "drain"
    OBVIOUS
  <2> QED BY <1>9, <2>2, <2>3, <2>4 DEF Asked, AsksFor, Spans
<1> QED BY <1>5, <1>6, <1>7, <1>8, <1>9 DEF Moves

(* The end of a burst puts the rest of the chunk behind what arrived.       *)
LEMMA DrainedMoves == ASSUME QueueInv, drained PROVE QueueInv' /\ Moves
<1> USE DEF QueueInv
<1>1. /\ worker \in {"drain", "last"} /\ (taken = Burst \/ chan = <<>>)
      /\ ready' = ready \o Continuation(cur)
      /\ worker' = IF worker = "last" /\ ready' = <<>> THEN "stopped" ELSE "loop"
      /\ Idle /\ UNCHANGED <<chan, pending>>
      /\ UNCHANGED <<dataVars, nightVars, phase, records, passed, excused, faults>>
  BY DEF drained, WorkerFrame
<1>2. /\ chan \in Seq(Request) /\ ready \in Seq(Request) /\ pending \subseteq Days
      /\ cur \in Request
  BY DEF TypeOK
<1>3. /\ pending = DaysIn(ready) /\ DaysOnce(ready)
      /\ Shaped(chan) /\ Shaped(ready) /\ DayShape(cur)
  BY QueueWords
<1>4. /\ ready' \in Seq(Request) /\ DaysIn(ready') = DaysIn(ready)
      /\ DaysOnce(ready') /\ Shaped(ready')
      /\ \A d \in Days :
           AsksFor(ready', d) <=> AsksFor(ready, d) \/ (Spans(cur, d) /\ d # cur.from)
      /\ ready' = <<>> => ready = <<>>
  BY <1>1, <1>2, <1>3, ContinuationKeeps
<1>5. /\ cur' \in Request /\ DayShape(cur') /\ count' \in 0..(ChunkDays - 1)
      /\ taken' \in 0..Burst /\ snap' \in Input
  BY <1>1, IdleTypes
<1>6. TypeOK'
  BY <1>1, <1>2, <1>4, <1>5, MoveTypes
<1>7. PendingIsExact' /\ Shapes'
  <2>1. pending' = DaysIn(ready') /\ Shaped(chan')
    BY <1>1, <1>3, <1>4
  <2> QED BY <2>1, <1>4, <1>5, QueueWords
<1>8. Flow'
  <2>1. ASSUME worker' = "stopped"
        PROVE  phase' \in {"draining", "closed"} /\ chan' = <<>> /\ ready' = <<>>
    <3>1. worker = "last" /\ ready' = <<>> /\ phase = "draining" /\ ready = <<>>
      BY <1>1, <1>4, <2>1 DEF Flow, nightVars
    <3>2. ~(taken > 0)
      BY <3>1 DEF Flow, nightVars
    <3>3. taken # Burst
      BY <3>2, RecomputeAssumption
    <3> QED BY <1>1, <3>1, <3>3
  <2>2. worker' # "last"
    BY <1>1
  <2>3. phase' # "closed" /\ taken' = 0
    BY <1>1 DEF Flow, Idle, nightVars
  <2> QED BY <1>1, <2>1, <2>2, <2>3 DEF Flow, nightVars
<1>9. ASSUME NEW d \in Days, Asked(d) PROVE Asked(d)'
  <2>1. AsksFor(chan, d) => AsksFor(chan', d)
    BY <1>1
  <2> QED BY <1>1, <1>4, <1>9, <2>1 DEF Asked, AsksFor, Spans
<1> QED BY <1>1, <1>6, <1>7, <1>8, <1>9 DEF Moves

(* The other steps of the worker between two computations leave the queues  *)
(* alone.                                                                   *)
LEMMA TurnMoves ==
  ASSUME QueueInv, last_drain \/ next_day \/ end_chunk
  PROVE  QueueInv' /\ Moves
<1> USE DEF QueueInv
<1>1. /\ UNCHANGED <<chan, ready, pending, taken, snap>>
      /\ UNCHANGED <<dataVars, nightVars, phase, records, passed, excused, faults>>
  BY DEF last_drain, next_day, end_chunk, WorkerFrame, queueVars
<1>2. /\ chan \in Seq(Request) /\ ready \in Seq(Request) /\ pending \subseteq Days
      /\ cur \in Request /\ count \in 0..(ChunkDays - 1)
      /\ taken \in 0..Burst /\ snap \in Input
  BY DEF TypeOK
<1>3. /\ pending = DaysIn(ready) /\ DaysOnce(ready)
      /\ Shaped(chan) /\ Shaped(ready) /\ DayShape(cur)
  BY QueueWords
<1>4. ASSUME worker' \in {"last", "read", "drain"}, cur' \in Request, DayShape(cur'),
             count' \in 0..(ChunkDays - 1), Flow'
      PROVE  QueueInv'
  <2>1. TypeOK'
    BY <1>1, <1>2, <1>4, MoveTypes
  <2>2. PendingIsExact' /\ Shapes'
    BY <1>1, <1>3, <1>4, QueueWords
  <2> QED BY <2>1, <2>2, <1>4
<1>5. \A d \in Days : (AsksFor(chan, d) => AsksFor(chan', d))
                         /\ (AsksFor(ready, d) => AsksFor(ready', d))
  BY <1>1
<1>6. CASE last_drain
  <2>1. /\ worker = "loop" /\ ready = <<>> /\ phase = "draining" /\ worker' = "last"
        /\ UNCHANGED <<cur, count>>
    BY <1>6 DEF last_drain, Cancelled
  <2>2. Flow'
    BY <1>1, <2>1 DEF Flow, nightVars
  <2>3. QueueInv'
    BY <1>2, <1>3, <1>4, <2>1, <2>2
  <2>4. \A d \in Days : Asked(d) => Asked(d)'
    BY <1>5, <2>1 DEF Asked, AsksFor
  <2> QED BY <1>1, <2>1, <2>3, <2>4 DEF Moves
<1>7. CASE next_day
  <2>1. /\ worker = "next" /\ cur.from < cur.to /\ count + 1 < ChunkDays
        /\ cur' = [cur EXCEPT !.from = cur.from + 1] /\ count' = count + 1
        /\ worker' = "read"
    BY <1>7 DEF next_day, ChunkOpen
  <2>2. /\ cur.kind \in {"day", "range"} /\ cur.from \in Days /\ cur.to \in Days
        /\ cur = [kind |-> cur.kind, from |-> cur.from, to |-> cur.to]
    BY <1>2 DEF Request
  <2> DEFINE f == cur.from + 1
  <2>3. f \in Days
    BY <2>1, <2>2, RecomputeAssumption DEF Days
  <2>4. cur' = [kind |-> cur.kind, from |-> f, to |-> cur.to]
    BY <2>1, <2>2
  <2>5. cur' \in Request
    BY <2>2, <2>3, <2>4 DEF Request
  <2>6. DayShape(cur')
    <3>1. cur.from # cur.to
      BY <2>1, <2>2 DEF Days
    <3>2. cur'.kind # "day"
      BY <1>3, <2>4, <3>1 DEF DayShape
    <3> QED BY <3>2 DEF DayShape
  <2>7. count' \in 0..(ChunkDays - 1)
    <3>1. count \in Nat /\ ChunkDays \in Nat
      BY <1>2, RecomputeAssumption
    <3> QED BY <2>1, <3>1
  <2>8. Flow'
    BY <1>1, <2>1 DEF Flow, nightVars
  <2>9. QueueInv'
    BY <1>4, <2>1, <2>5, <2>6, <2>7, <2>8
  <2>10. ASSUME NEW d \in Days, Spans(cur, d), d # cur.from PROVE Spans(cur', d)
    BY <2>1, <2>2, <2>4, <2>10 DEF Spans, Days
  <2>11. ASSUME NEW d \in Days, Asked(d) PROVE Asked(d)'
    <3>1. CASE AsksFor(chan, d) \/ AsksFor(ready, d)
      BY <3>1, <1>5 DEF Asked, AsksFor
    <3>2. CASE Spans(cur, d) /\ d # cur.from
      BY <3>2, <2>1, <2>10 DEF Asked, Spans
    <3> QED BY <2>1, <2>11, <3>1, <3>2 DEF Asked
  <2> QED BY <1>1, <2>1, <2>9, <2>11 DEF Moves
<1>8. CASE end_chunk
  <2>1. /\ worker = "next" /\ worker' = "drain" /\ count' = 0 /\ cur' = cur
    BY <1>8 DEF end_chunk
  <2>2. Flow' /\ count' \in 0..(ChunkDays - 1)
    BY <1>1, <2>1, RecomputeAssumption DEF Flow, nightVars
  <2>3. QueueInv'
    BY <1>2, <1>3, <1>4, <2>1, <2>2
  <2>4. \A d \in Days : Asked(d) => Asked(d)'
    BY <1>5, <2>1 DEF Asked, AsksFor, Spans
  <2> QED BY <1>1, <2>1, <2>3, <2>4 DEF Moves
<1> QED BY <1>6, <1>7, <1>8

(* All of them together.                                                    *)
LEMMA WorkerMoves ==
  ASSUME QueueInv,
         pop_front \/ recv \/ last_drain \/ drain_receiver \/ drained \/ next_day \/ end_chunk
  PROVE  QueueInv' /\ Moves
<1>1. CASE recv
  <2>1. /\ worker = "loop" /\ worker' = "drain" /\ chan # <<>> /\ enqueue(Head(chan))
        /\ chan' = Tail(chan) /\ UNCHANGED <<cur, count, taken, snap>>
        /\ UNCHANGED <<dataVars, nightVars, phase, records, passed, excused, faults>>
    BY <1>1 DEF recv, WorkerFrame
  <2>2. taken' \in 0..Burst
    BY <2>1 DEF QueueInv, TypeOK
  <2> QED BY <2>1, <2>2, TakeMoves
<1>2. CASE drain_receiver
  <2>1. /\ worker \in {"drain", "last"} /\ taken < Burst /\ chan # <<>>
        /\ enqueue(Head(chan)) /\ chan' = Tail(chan) /\ taken' = taken + 1
        /\ UNCHANGED <<worker, cur, count, snap>>
        /\ UNCHANGED <<dataVars, nightVars, phase, records, passed, excused, faults>>
    BY <1>2 DEF drain_receiver, WorkerFrame
  <2>2. taken' \in 0..Burst
    BY <2>1, RecomputeAssumption DEF QueueInv, TypeOK
  <2> QED BY <2>1, <2>2, TakeMoves
<1> QED BY <1>1, <1>2, PopMoves, DrainedMoves, TurnMoves

-----------------------------------------------------------------------------
(* The other steps leave the queues alone.                                  *)

(* A step that takes nothing from a queue and adds nothing to one.          *)
LEMMA QueuesStay ==
  ASSUME QueueInv, TypeOK', Flow', UNCHANGED <<chan, ready, pending>>, DayShape(cur')
  PROVE  QueueInv'
<1>1. /\ pending = DaysIn(ready) /\ DaysOnce(ready)
      /\ Shaped(chan) /\ Shaped(ready)
  BY QueueWords DEF QueueInv
<1>2. PendingIsExact' /\ Shapes'
  BY <1>1, QueueWords
<1> QED BY <1>2 DEF QueueInv

(* A producer: the worker has not stopped, so nothing is sent to nobody.    *)
LEMMA SendQueues == ASSUME QueueInv, Sends PROVE QueueInv'
<1>1. /\ UNCHANGED <<ready, pending, worker, cur, count, taken, snap>>
      /\ UNCHANGED <<nightly, night, nightSnap, records, passed, phase>>
  BY DEF Sends, Produced, queueVars, workerVars, nightVars
<1>2. TypeOK'
  BY <1>1 DEF QueueInv, TypeOK, Sends
<1>3. /\ pending = DaysIn(ready) /\ DaysOnce(ready) /\ Shaped(ready) /\ DayShape(cur)
      /\ Shaped(chan')
  BY QueueWords DEF QueueInv, Sends
<1>4. PendingIsExact' /\ Shapes'
  BY <1>1, <1>3, QueueWords
<1>5. Flow'
  BY <1>1 DEF QueueInv, Flow, Sends
<1> QED BY <1>2, <1>4, <1>5 DEF QueueInv

(* The steps of recompute_for_day in the worker.                            *)
LEMMA ComputeQueues ==
  ASSUME QueueInv, read_events \/ read_leave \/ upsert \/ read_fails
  PROVE  QueueInv'
<1> USE DEF QueueInv
<1>1. /\ UNCHANGED <<chan, ready, pending, cur, count, taken>>
      /\ UNCHANGED <<dataVars, nightVars, phase>>
      /\ worker \in {"read", "overlay", "write"} /\ worker' \in {"overlay", "write", "next"}
  BY DEF read_events, read_leave, upsert, read_fails, WorkerFrame, queueVars
<1>2. cur \in Request /\ cur.from \in Days /\ snap \in Input /\ Nothing \in Input
  BY DEF TypeOK, Request, Nothing, Input
<1>3. Fault => faults' \in 0..MaxFaults
  BY RecomputeAssumption DEF TypeOK, Fault
<1>4. /\ snap' \in Input /\ records' \in [Days -> Input \cup {NoRecord}]
      /\ passed' \in BOOLEAN /\ excused' \subseteq Days /\ faults' \in 0..MaxFaults
  <2>1. CASE read_events
    <3>1. snap' \in Input
      BY <1>2, <2>1, ReadTypes DEF read_events
    <3>2. passed' \in BOOLEAN
      BY <2>1 DEF read_events
    <3> QED BY <2>1, <3>1, <3>2 DEF read_events, TypeOK
  <2>2. CASE read_leave
    <3>1. LeaveOn(cur.from) \in Leaves \cup {NoLeave}
      BY <1>2, ReadTypes
    <3>2. snap' \in Input
      BY <1>2, <2>2, <3>1 DEF read_leave, Input
    <3> QED BY <2>2, <3>2 DEF read_leave, TypeOK
  <2>3. CASE upsert
    <3>1. snap' \in Input /\ passed' \in BOOLEAN
      BY <1>2, <2>3 DEF upsert, TypeOK
    <3>2. excused' \subseteq Days /\ faults' \in 0..MaxFaults
      BY <1>2, <1>3, <2>3 DEF upsert, TypeOK
    <3>3. records' \in [Days -> Input \cup {NoRecord}]
      BY <1>2, <2>3 DEF upsert, TypeOK
    <3> QED BY <3>1, <3>2, <3>3
  <2>4. CASE read_fails
    BY <1>2, <1>3, <2>4 DEF read_fails, TypeOK
  <2> QED BY <2>1, <2>2, <2>3, <2>4
<1>5. TypeOK'
  BY <1>1, <1>4 DEF TypeOK, dataVars, nightVars
<1>6. Flow'
  BY <1>1 DEF Flow, nightVars
<1>7. DayShape(cur')
  BY <1>1 DEF Shapes
<1> QED BY <1>1, <1>5, <1>6, <1>7, QueuesStay

(* The nightly pass.                                                        *)
LEMMA NightQueues == ASSUME QueueInv, wake \/ NightStep PROVE QueueInv'
<1> USE DEF QueueInv
<1>1. /\ UNCHANGED <<chan, ready, pending, worker, cur, count, taken, snap>>
      /\ UNCHANGED <<dataVars, phase>>
  BY DEF wake, NightStep, night_events, night_leave, night_upsert, NightFrame,
         queueVars, workerVars
<1>2. Nothing \in Input /\ nightSnap \in Input /\ (night \in 0..MaxNight)
  BY DEF TypeOK, Nothing, Input
<1>3. Fault => faults' \in 0..MaxFaults
  BY RecomputeAssumption DEF TypeOK, Fault
<1>4. /\ nightly' \in {"asleep", "read", "overlay", "write"} /\ night' \in 0..MaxNight
      /\ nightSnap' \in Input /\ records' \in [Days -> Input \cup {NoRecord}]
      /\ passed' \in BOOLEAN /\ excused' \subseteq Days /\ faults' \in 0..MaxFaults
  <2>1. CASE wake
    <3>1. night' \in 0..MaxNight
      BY <1>2, <2>1, RecomputeAssumption DEF wake
    <3> QED BY <2>1, <3>1 DEF wake, TypeOK
  <2>2. CASE night_events
    <3>1. [events |-> EventsOf(night), leave |-> NoLeave] \in Input
      BY DEF TypeOK, EventsOf, Input
    <3> QED BY <1>2, <2>2, <3>1 DEF night_events, TypeOK
  <2>3. CASE night_leave
    <3>1. LeaveOn(night) \in Leaves \cup {NoLeave}
      BY <2>3, ReadTypes DEF night_leave, Flow
    <3>2. nightSnap' \in Input
      BY <1>2, <2>3, <3>1 DEF night_leave, Input
    <3> QED BY <2>3, <3>2 DEF night_leave, TypeOK
  <2>4. CASE night_upsert
    <3>1. night \in Days
      BY <2>4 DEF night_upsert, Flow
    <3>2. records' \in [Days -> Input \cup {NoRecord}]
      BY <1>2, <2>4 DEF night_upsert, TypeOK
    <3>3. excused' \subseteq Days /\ faults' \in 0..MaxFaults
      BY <1>3, <2>4, <3>1 DEF night_upsert, TypeOK
    <3> QED BY <1>2, <2>4, <3>2, <3>3 DEF night_upsert, TypeOK
  <2> QED BY <2>1, <2>2, <2>3, <2>4 DEF NightStep
<1>5. TypeOK'
  BY <1>1, <1>4 DEF TypeOK, dataVars
<1>6. nightly' # "asleep" => night' \in Days
  <2>1. CASE wake
    BY <1>2, <2>1, RecomputeAssumption DEF wake, Days
  <2>2. CASE NightStep
    BY <2>2 DEF NightStep, night_events, night_leave, night_upsert, Flow
  <2> QED BY <2>1, <2>2
<1>7. Flow'
  BY <1>1, <1>6 DEF Flow
<1>8. DayShape(cur')
  BY <1>1 DEF Shapes
<1> QED BY <1>1, <1>5, <1>7, <1>8, QueuesStay

-----------------------------------------------------------------------------
(* The records.                                                             *)

RecordParts == WorkerReads /\ NightReads /\ Earlier /\ Answered

(* What a day reads depends on the data alone.                              *)
LEMMA SameData ==
  ASSUME UNCHANGED dataVars, NEW d
  PROVE  EventsOf(d)' = EventsOf(d) /\ LeaveOn(d)' = LeaveOn(d) /\ Current(d)' = Current(d)
<1>1. EventsOf(d)' = EventsOf(d)
  BY DEF dataVars, EventsOf
<1>2. LeaveOn(d)' = LeaveOn(d)
  BY DEF dataVars, LeaveOn, Covering
<1> QED BY <1>1, <1>2 DEF Current

(* An input is what its day reads when both parts are.                      *)
LEMMA InputParts ==
  ASSUME NEW i \in Input, NEW d
  PROVE  i = Current(d) <=> i.events = EventsOf(d) /\ i.leave = LeaveOn(d)
BY DEF Input, Current

(* Between two computations only requests matter.                           *)
LEMMA MoveRecords ==
  ASSUME RecordInv, QueueInv', Moves
  PROVE  RecordParts'
<1> USE DEF RecordInv
<1>1. /\ UNCHANGED <<dataVars, records, passed, excused, nightly, night, nightSnap>>
      /\ worker \notin {"overlay", "write"} /\ worker' \notin {"overlay", "write"}
      /\ active' = active
  BY DEF Moves, nightVars, dataVars
<1>2. \A d \in Days : Queued(d) => Queued(d)'
  BY <1>1 DEF Moves, Queued
<1>3. \A d : EventsOf(d)' = EventsOf(d) /\ Current(d)' = Current(d)
  BY <1>1, SameData
<1>4. \A d : Excepted(d)' <=> Excepted(d)
  BY <1>1 DEF Excepted
<1>5. WorkerReads'
  BY <1>1 DEF WorkerReads
<1>6. NightReads'
  <2>1. nightly # "asleep" => night \in Days
    BY DEF QueueInv, Flow
  <2> QED BY <1>1, <1>2, <1>3, <1>4, <2>1 DEF NightReads
<1>7. Earlier'
  BY <1>1 DEF Earlier, Computing
<1>8. Answered'
  <2>1. \A d \in Days : Stale(d)' <=> Stale(d)
    BY <1>1, <1>3 DEF Stale
  <2> QED BY <1>2, <1>4, <2>1 DEF Answered
<1> QED BY <1>5, <1>6, <1>7, <1>8 DEF RecordParts

(* A change that somebody may have read before it is asked for.             *)
LEMMA SendRecords ==
  ASSUME RecordInv, Sends
  PROVE  RecordParts'
<1> USE DEF RecordInv
<1>1. /\ UNCHANGED <<ready, pending, worker, cur, count, taken, snap>>
      /\ UNCHANGED <<nightly, night, nightSnap, records, passed, phase>>
  BY DEF Sends, Produced, queueVars, workerVars, nightVars
<1>2. /\ snap \in Input /\ nightSnap \in Input /\ cur.from \in Days
      /\ nightly # "asleep" => night \in Days
  BY DEF QueueInv, TypeOK, Flow, Request
<1>3. ASSUME NEW d \in Days PROVE /\ Asked(d) => Asked(d)'
                                  /\ AsksFor(chan', d) => Asked(d)'
  <2>1. AsksFor(chan, d) => AsksFor(chan', d)
    BY DEF Sends
  <2>2. AsksFor(chan, d)' <=> AsksFor(chan', d)
    BY DEF AsksFor, Spans
  <2>3. AsksFor(ready, d)' <=> AsksFor(ready, d)
    BY <1>1 DEF AsksFor, Spans
  <2>4. Spans(cur, d)' <=> Spans(cur, d)
    BY <1>1 DEF Spans
  <2> QED BY <1>1, <2>1, <2>2, <2>3, <2>4 DEF Asked
<1>4. \A d \in Days : Excepted(d) => Excepted(d)'
  BY DEF Sends, Excepted
<1>5. \A d \in Days : /\ EventsOf(d) \subseteq EventsOf(d)'
                      /\ EventsOf(d)' = EventsOf(d) \/ Asked(d)' \/ Excepted(d)'
                      /\ LeaveOn(d)' = LeaveOn(d) \/ Asked(d)'
                      /\ Current(d)' = Current(d) \/ Asked(d)' \/ Excepted(d)'
  BY <1>3 DEF Sends, Excepted, Current
<1>6. \A d \in Days : Queued(d) => Queued(d)' \/ Excepted(d)'
  BY <1>1, <1>3, <1>5 DEF Queued
<1>7. WorkerReads'
  BY <1>1, <1>2, <1>3, <1>4, <1>5 DEF WorkerReads
<1>8. NightReads'
  <2>1. \A d \in Days : Asked(d)' => Queued(d)'
    BY DEF Queued
  <2> QED BY <1>1, <1>2, <1>4, <1>5, <1>6, <2>1 DEF NightReads
<1>9. Earlier'
  <2>1. active' => active
    BY DEF Sends
  <2>2. Computing(night)' <=> Computing(night)
    BY <1>1 DEF Computing
  <2> QED BY <1>1, <1>2, <1>3, <1>5, <2>1, <2>2 DEF Earlier
<1>10. Answered'
  <2>1. ASSUME NEW d \in Days, Stale(d)', Current(d)' = Current(d)
        PROVE  Queued(d)' \/ Excepted(d)'
    <3>1. Stale(d)
      BY <1>1, <2>1 DEF Stale
    <3> QED BY <1>4, <1>6, <3>1 DEF Answered
  <2>2. \A d \in Days : Asked(d)' => Queued(d)'
    BY DEF Queued
  <2> QED BY <1>5, <2>1, <2>2 DEF Answered
<1> QED BY <1>7, <1>8, <1>9, <1>10 DEF RecordParts

-----------------------------------------------------------------------------
(* recompute_for_day in the worker.                                         *)

(* What its steps share: the requests stay, the data stays.                 *)
LEMMA ComputeFrame ==
  ASSUME QueueInv, read_events \/ read_leave \/ upsert \/ read_fails
  PROVE  /\ UNCHANGED <<active, nightly, night, nightSnap, cur, phase>>
         /\ cur.from \in Days /\ snap \in Input /\ nightSnap \in Input
         /\ nightly # "asleep" => night \in Days
         /\ worker \in {"read", "overlay", "write"}
         /\ worker' \in {"overlay", "write", "next"}
         /\ \A d : /\ EventsOf(d)' = EventsOf(d) /\ LeaveOn(d)' = LeaveOn(d)
                   /\ Current(d)' = Current(d)
         /\ \A d : AsksFor(chan, d)' = AsksFor(chan, d) /\ AsksFor(ready, d)' = AsksFor(ready, d)
         /\ \A d : /\ Asked(d) /\ d # cur.from => Asked(d)'
                   /\ worker # "read" /\ Asked(d) => Asked(d)'
<1>1. /\ UNCHANGED <<chan, ready, cur, dataVars, nightVars, phase>>
      /\ worker \in {"read", "overlay", "write"}
      /\ worker' \in {"overlay", "write", "next"}
  BY DEF read_events, read_leave, upsert, read_fails, WorkerFrame, queueVars
<1>2. /\ cur.from \in Days /\ snap \in Input /\ nightSnap \in Input
      /\ nightly # "asleep" => night \in Days
  BY DEF QueueInv, TypeOK, Flow, Request
<1>3. \A d : EventsOf(d)' = EventsOf(d) /\ LeaveOn(d)' = LeaveOn(d) /\ Current(d)' = Current(d)
  BY <1>1, SameData
<1>4. \A d : AsksFor(chan, d)' = AsksFor(chan, d) /\ AsksFor(ready, d)' = AsksFor(ready, d)
  BY <1>1 DEF AsksFor, Spans
<1>5. \A d : Spans(cur, d)' = Spans(cur, d)
  BY <1>1 DEF Spans
<1>6. \A d : /\ Asked(d) /\ d # cur.from => Asked(d)'
             /\ worker # "read" /\ Asked(d) => Asked(d)'
  BY <1>1, <1>4, <1>5 DEF Asked
<1>7. UNCHANGED <<active, nightly, night, nightSnap, cur, phase>>
  BY <1>1 DEF dataVars, nightVars
<1> QED BY <1>1, <1>2, <1>3, <1>4, <1>6, <1>7

(* The events are read: the day is at work with what it reads now, and a    *)
(* pass under way knows that it is overtaken.                               *)
LEMMA ReadRecords == ASSUME RecordInv, read_events PROVE RecordParts'
<1> USE DEF RecordInv
<1>1. CASE ~active
  <2>1. ~active'
    BY <1>1, ComputeFrame
  <2>2. worker' = "next"
    BY <1>1 DEF read_events
  <2>3. nightly \in {"overlay", "write"} => nightSnap.events \subseteq EventsOf(night)
    BY DEF NightReads
  <2>4. NightReads'
    BY <2>1, <2>3, ComputeFrame DEF NightReads, Excepted
  <2> QED BY <2>1, <2>2, <2>4
          DEF RecordParts, WorkerReads, Earlier, Computing, Answered, Excepted
<1>2. CASE active
  <2>1. /\ worker = "read" /\ worker' = "overlay"
        /\ snap' = [events |-> EventsOf(cur.from), leave |-> NoLeave]
        /\ passed' = (passed \/ (nightly # "asleep" /\ cur.from = night))
        /\ UNCHANGED <<records, excused>>
    BY <1>2 DEF read_events
  <2>2. snap'.events = EventsOf(cur.from)
    BY <2>1
  <2>3. \A d \in Days : Queued(d) => Queued(d)'
    <3>1. ASSUME NEW d \in Days, Queued(d), d = cur.from PROVE Queued(d)'
      BY <2>1, <2>2, <3>1, ComputeFrame DEF Queued
    <3>2. ASSUME NEW d \in Days, Queued(d), d # cur.from PROVE Queued(d)'
      <4>1. Asked(d)
        BY <2>1, <3>2 DEF Queued
      <4> QED BY <3>2, <4>1, ComputeFrame DEF Queued
    <3> QED BY <3>1, <3>2
  <2>4. \A d : Excepted(d)' <=> Excepted(d)
    BY <2>1, ComputeFrame DEF Excepted
  <2>5. WorkerReads'
    BY <2>1, <2>2, ComputeFrame DEF WorkerReads
  <2>6. NightReads'
    BY <2>1, <2>3, <2>4, ComputeFrame DEF NightReads
  <2>7. Earlier'
    <3>1. ASSUME Computing(night)', nightly' \in {"overlay", "write"} PROVE passed'
      BY <2>1, <3>1, ComputeFrame DEF Computing
    <3> QED BY <3>1 DEF Earlier
  <2>8. Answered'
    <3>1. \A d \in Days : Stale(d)' <=> Stale(d)
      BY <2>1, ComputeFrame DEF Stale
    <3> QED BY <2>3, <2>4, <3>1 DEF Answered
  <2> QED BY <2>5, <2>6, <2>7, <2>8 DEF RecordParts
<1> QED BY <1>1, <1>2

(* The leave is read: the reading is complete if the events still hold.     *)
LEMMA OverlayRecords == ASSUME RecordInv, read_leave PROVE RecordParts'
<1> USE DEF RecordInv
<1>1. /\ worker = "overlay" /\ worker' = "write"
      /\ snap' = [snap EXCEPT !.leave = LeaveOn(cur.from)]
      /\ UNCHANGED <<records, passed, excused>>
  BY DEF read_leave
<1>2. /\ snap'.events = snap.events /\ snap'.leave = LeaveOn(cur.from)
      /\ snap' = Current(cur.from) <=> snap.events = EventsOf(cur.from)
  <2>1. snap = [events |-> snap.events, leave |-> snap.leave]
    BY ComputeFrame DEF Input
  <2>2. snap' = [events |-> snap.events, leave |-> LeaveOn(cur.from)]
    BY <1>1, <2>1
  <2> QED BY <2>2 DEF Current
<1>3. \A d \in Days : Asked(d) => Asked(d)'
  BY <1>1, ComputeFrame
<1>4. \A d \in Days : Queued(d) => Queued(d)'
  BY <1>1, <1>2, <1>3, ComputeFrame DEF Queued
<1>5. \A d : Excepted(d)' <=> Excepted(d)
  BY <1>1, ComputeFrame DEF Excepted
<1>6. WorkerReads'
  BY <1>1, <1>2, <1>3, <1>5, ComputeFrame DEF WorkerReads
<1>7. NightReads'
  BY <1>1, <1>4, <1>5, ComputeFrame DEF NightReads
<1>8. Earlier'
  BY <1>1, <1>2, <1>3, ComputeFrame DEF Earlier, Computing
<1>9. Answered'
  <2>1. \A d \in Days : Stale(d)' <=> Stale(d)
    BY <1>1, ComputeFrame DEF Stale
  <2> QED BY <1>4, <1>5, <2>1 DEF Answered
<1> QED BY <1>6, <1>7, <1>8, <1>9 DEF RecordParts

(* The record is stored: it is current, or the day is asked for again.  A   *)
(* pass that knew less than the worker finds the same.                      *)
LEMMA StoreRecords ==
  ASSUME RecordInv, worker = "write", upsert,
         records' = [records EXCEPT ![cur.from] = snap],
         excused' = IF snap = Current(cur.from) THEN excused \ {cur.from} ELSE excused
  PROVE  RecordParts'
<1> USE DEF RecordInv
<1>1. worker' = "next" /\ passed' = passed
  BY DEF upsert
<1>2. \A d \in Days : Asked(d) => Asked(d)'
  BY ComputeFrame
<1>3. \A d \in Days : d # cur.from /\ Queued(d) => Queued(d)'
  BY <1>2 DEF Queued
<1>4. \A d \in Days : /\ d # cur.from /\ Excepted(d) => Excepted(d)'
                      /\ snap # Current(cur.from) /\ Excepted(d) => Excepted(d)'
                      /\ ~active => Excepted(d)'
  BY ComputeFrame DEF Excepted
<1>5. \A d \in Days : Asked(d)' => Queued(d)'
  BY DEF Queued
<1>6. WorkerReads' /\ Earlier'
  BY <1>1 DEF WorkerReads, Earlier, Computing
<1>7. snap # Current(cur.from) => Asked(cur.from)' \/ Excepted(cur.from)'
  BY <1>2, <1>4, ComputeFrame DEF WorkerReads
<1>8. NightReads'
  <2>1. CASE /\ nightly \in {"overlay", "write"} /\ night = cur.from
             /\ snap = Current(cur.from) /\ ~passed
    <3>1. Computing(night)
      BY <2>1 DEF Computing
    <3>2. snap.events = EventsOf(night)
      BY <2>1 DEF Current
    <3>3. nightSnap.events = EventsOf(night)
      BY <2>1, <3>1, <3>2 DEF Earlier, NightReads
    <3>4. nightly = "write" /\ nightSnap # Current(night) => Asked(night) \/ ~active
      <4>1. nightSnap # Current(night) => nightSnap.leave # LeaveOn(night)
        BY <3>3, InputParts, ComputeFrame
      <4> QED BY <2>1, <3>1, <4>1 DEF Earlier
    <3> QED BY <2>1, <3>3, <3>4, <1>2, <1>4, <1>5, ComputeFrame DEF NightReads
  <2>2. CASE nightly \in {"overlay", "write"} /\ night = cur.from /\ snap # Current(cur.from)
    BY <2>2, <1>5, <1>7, ComputeFrame DEF NightReads
  <2>3. CASE nightly \in {"overlay", "write"} /\ night # cur.from
    BY <2>3, <1>1, <1>3, <1>4, ComputeFrame DEF NightReads
  <2>4. CASE nightly \in {"overlay", "write"} /\ passed
    BY <2>4, <1>1, ComputeFrame DEF NightReads
  <2>5. CASE nightly \notin {"overlay", "write"}
    BY <2>5, ComputeFrame DEF NightReads
  <2> QED BY <2>1, <2>2, <2>3, <2>4, <2>5
<1>9. Answered'
  <2>1. \A d \in Days : d # cur.from => (Stale(d)' <=> Stale(d))
    BY ComputeFrame DEF Stale
  <2>2. \A d \in Days : d = cur.from /\ Stale(d)' => snap # Current(d)
    BY ComputeFrame DEF Stale, QueueInv, TypeOK
  <2>3. ASSUME NEW d \in Days, d # cur.from, Stale(d)' PROVE Queued(d)' \/ Excepted(d)'
    BY <1>3, <1>4, <2>1, <2>3 DEF Answered
  <2>4. ASSUME NEW d \in Days, d = cur.from, Stale(d)' PROVE Queued(d)' \/ Excepted(d)'
    BY <1>5, <1>7, <2>2, <2>4, ComputeFrame
  <2> QED BY <2>3, <2>4 DEF Answered
<1> QED BY <1>6, <1>8, <1>9 DEF RecordParts

(* A refusal or a failed read excepts the day.                              *)
LEMMA FailRecords ==
  ASSUME RecordInv, upsert \/ read_fails, worker' = "next", passed' = passed,
         excused' = excused \cup {cur.from}, records' = records
  PROVE  RecordParts'
<1> USE DEF RecordInv
<1>1. \A d \in Days : d # cur.from /\ Asked(d) => Asked(d)'
  BY ComputeFrame
<1>2. \A d \in Days : /\ Excepted(d) => Excepted(d)'
                      /\ d = cur.from => Excepted(d)'
  BY ComputeFrame DEF Excepted
<1>3. \A d \in Days : Queued(d) => Queued(d)' \/ Excepted(d)'
  BY <1>1, <1>2 DEF Queued
<1>4. WorkerReads' /\ Earlier'
  BY DEF WorkerReads, Earlier, Computing
<1>5. NightReads'
  BY <1>2, <1>3, ComputeFrame DEF NightReads
<1>6. Answered'
  <2>1. \A d \in Days : Stale(d)' <=> Stale(d)
    BY ComputeFrame DEF Stale
  <2> QED BY <1>2, <1>3, <2>1 DEF Answered
<1> QED BY <1>4, <1>5, <1>6 DEF RecordParts

(* The four together.                                                       *)
LEMMA ComputeRecords ==
  ASSUME RecordInv, read_events \/ read_leave \/ upsert \/ read_fails
  PROVE  RecordParts'
<1>1. CASE upsert
  <2>1. worker = "write" /\ worker' = "next" /\ passed' = passed
    BY <1>1 DEF upsert
  <2>2. \/ /\ records' = [records EXCEPT ![cur.from] = snap]
           /\ excused' = IF snap = Current(cur.from) THEN excused \ {cur.from} ELSE excused
        \/ excused' = excused \cup {cur.from} /\ records' = records
    BY <1>1 DEF upsert
  <2> QED BY <1>1, <2>1, <2>2, StoreRecords, FailRecords
<1>2. CASE read_fails
  <2>1. /\ worker' = "next" /\ passed' = passed
        /\ excused' = excused \cup {cur.from} /\ records' = records
    BY <1>2 DEF read_fails
  <2> QED BY <1>2, <2>1, FailRecords
<1> QED BY <1>1, <1>2, ReadRecords, OverlayRecords

-----------------------------------------------------------------------------
(* The nightly pass, and the life of the process.                           *)

(* What the pass leaves alone.                                              *)
LEMMA NightFrames ==
  ASSUME QueueInv, wake \/ NightStep
  PROVE  /\ UNCHANGED <<active, chan, ready, worker, cur, snap, phase>>
         /\ cur.from \in Days /\ snap \in Input /\ nightSnap \in Input
         /\ nightly # "asleep" => night \in Days
         /\ \A d : /\ EventsOf(d)' = EventsOf(d) /\ LeaveOn(d)' = LeaveOn(d)
                   /\ Current(d)' = Current(d)
         /\ \A d : (Asked(d)' <=> Asked(d)) /\ (Queued(d)' <=> Queued(d))
<1>1. UNCHANGED <<chan, ready, worker, cur, snap, dataVars, phase>>
  BY DEF wake, NightStep, night_events, night_leave, night_upsert, NightFrame,
         queueVars, workerVars
<1>2. /\ cur.from \in Days /\ snap \in Input /\ nightSnap \in Input
      /\ nightly # "asleep" => night \in Days
  BY DEF QueueInv, TypeOK, Flow, Request
<1>3. \A d : EventsOf(d)' = EventsOf(d) /\ LeaveOn(d)' = LeaveOn(d) /\ Current(d)' = Current(d)
  BY <1>1, SameData
<1>4. \A d : Asked(d)' <=> Asked(d)
  BY <1>1 DEF Asked, AsksFor, Spans
<1>5. \A d : Queued(d)' <=> Queued(d)
  BY <1>1, <1>3, <1>4 DEF Queued
<1>6. active' = active
  BY <1>1 DEF dataVars
<1> QED BY <1>1, <1>2, <1>3, <1>4, <1>5, <1>6

(* Its readings: the worker's are older if it is computing the day now.     *)
LEMMA NightReadRecords ==
  ASSUME RecordInv, wake \/ night_events \/ night_leave
  PROVE  RecordParts'
<1> USE DEF RecordInv
<1>1. wake \/ NightStep
  BY DEF NightStep
<1>2. UNCHANGED <<records, excused>>
  BY DEF wake, night_events, night_leave
<1>3. \A d : Excepted(d)' <=> Excepted(d)
  BY <1>1, <1>2, NightFrames DEF Excepted
<1>4. WorkerReads'
  BY <1>1, <1>3, NightFrames DEF WorkerReads
<1>5. Answered'
  <2>1. \A d \in Days : Stale(d)' <=> Stale(d)
    BY <1>1, <1>2, NightFrames DEF Stale
  <2> QED BY <1>1, <1>3, <2>1, NightFrames DEF Answered
<1>6. CASE wake
  <2>1. nightly' \notin {"overlay", "write"}
    BY <1>6 DEF wake
  <2> QED BY <1>4, <1>5, <2>1 DEF RecordParts, NightReads, Earlier
<1>7. CASE night_events
  <2>1. CASE ~active
    <3>1. nightly' = "asleep"
      BY <1>7, <2>1 DEF night_events
    <3> QED BY <1>4, <1>5, <3>1 DEF RecordParts, NightReads, Earlier
  <2>2. CASE active
    <3>1. /\ nightly = "read" /\ nightly' = "overlay" /\ night' = night
          /\ nightSnap' = [events |-> EventsOf(night), leave |-> NoLeave]
      BY <1>7, <2>2 DEF night_events
    <3>2. NightReads'
      BY <1>1, <3>1, NightFrames DEF NightReads
    <3>3. Earlier'
      <4>1. Computing(night)' => snap.events \subseteq EventsOf(night)
        BY <1>1, <3>1, NightFrames DEF Computing, WorkerReads
      <4> QED BY <1>1, <3>1, <4>1, NightFrames DEF Earlier
    <3> QED BY <1>4, <1>5, <3>2, <3>3 DEF RecordParts
  <2> QED BY <2>1, <2>2
<1>8. CASE night_leave
  <2>1. /\ nightly = "overlay" /\ nightly' = "write"
        /\ nightSnap' = [nightSnap EXCEPT !.leave = LeaveOn(night)]
        /\ UNCHANGED <<night, passed>>
    BY <1>8 DEF night_leave
  <2>2. /\ nightSnap'.events = nightSnap.events /\ nightSnap'.leave = LeaveOn(night)
        /\ nightSnap' = Current(night) <=> nightSnap.events = EventsOf(night)
    <3>1. nightSnap = [events |-> nightSnap.events, leave |-> nightSnap.leave]
      BY <1>1, NightFrames DEF Input
    <3>2. nightSnap' = [events |-> nightSnap.events, leave |-> LeaveOn(night)]
      BY <2>1, <3>1
    <3> QED BY <3>2 DEF Current
  <2>3. NightReads'
    BY <1>1, <1>3, <2>1, <2>2, NightFrames DEF NightReads
  <2>4. Earlier'
    BY <1>1, <2>1, <2>2, NightFrames DEF Earlier, Computing
  <2> QED BY <1>4, <1>5, <2>3, <2>4 DEF RecordParts
<1> QED BY <1>6, <1>7, <1>8

(* The later transaction wins; what it loses is asked for or excepted.      *)
LEMMA NightStoreRecords == ASSUME RecordInv, night_upsert PROVE RecordParts'
<1> USE DEF RecordInv
<1>1. wake \/ NightStep
  BY DEF NightStep
<1>2. /\ nightly = "write" /\ nightly' = "asleep" /\ night' = night
      /\ \/ /\ records' = [records EXCEPT ![night] = nightSnap]
            /\ excused' = IF nightSnap = Current(night) /\ ~Computing(night)
                            THEN excused \ {night}
                          ELSE IF passed THEN excused \cup {night} ELSE excused
         \/ UNCHANGED <<records, excused>>
  BY DEF night_upsert
<1>3. night \in Days
  BY <1>1, <1>2, NightFrames
<1>4. NightReads' /\ Earlier'
  BY <1>2 DEF NightReads, Earlier
<1>5. CASE UNCHANGED <<records, excused>>
  <2>1. \A d : Excepted(d)' <=> Excepted(d)
    BY <1>1, <1>5, NightFrames DEF Excepted
  <2>2. WorkerReads'
    BY <1>1, <2>1, NightFrames DEF WorkerReads
  <2>3. \A d \in Days : Stale(d)' <=> Stale(d)
    BY <1>1, <1>5, NightFrames DEF Stale
  <2>4. Answered'
    BY <1>1, <2>1, <2>3, NightFrames DEF Answered
  <2> QED BY <1>4, <2>2, <2>4 DEF RecordParts
<1>6. CASE /\ records' = [records EXCEPT ![night] = nightSnap]
           /\ excused' = IF nightSnap = Current(night) /\ ~Computing(night)
                           THEN excused \ {night}
                         ELSE IF passed THEN excused \cup {night} ELSE excused
  <2>1. \A d \in Days : /\ d # night /\ Excepted(d) => Excepted(d)'
                        /\ ~(nightSnap = Current(night) /\ ~Computing(night)) /\ Excepted(d)
                             => Excepted(d)'
    BY <1>1, <1>6, NightFrames DEF Excepted
  <2>2. WorkerReads'
    <3>1. worker \in {"overlay", "write"} /\ Excepted(cur.from) => Excepted(cur.from)'
      BY <1>1, <2>1, NightFrames DEF Computing
    <3> QED BY <1>1, <3>1, NightFrames DEF WorkerReads
  <2>3. ASSUME nightSnap # Current(night)
        PROVE  Queued(night)' \/ Excepted(night)'
    <3>1. Queued(night) \/ passed \/ Excepted(night)
      BY <1>2, <2>3 DEF NightReads
    <3>2. passed => night \in excused'
      BY <1>6, <2>3
    <3> QED BY <1>1, <1>2, <1>3, <2>1, <2>3, <3>1, <3>2, NightFrames DEF Excepted
  <2>4. \A d \in Days : d = night /\ Stale(d)' => nightSnap # Current(d)
    BY <1>1, <1>6, NightFrames DEF Stale, QueueInv, TypeOK
  <2>5. ASSUME NEW d \in Days, d = night, Stale(d)' PROVE Queued(d)' \/ Excepted(d)'
    BY <1>2, <2>3, <2>4, <2>5
  <2>6. ASSUME NEW d \in Days, d # night, Stale(d)' PROVE Queued(d)' \/ Excepted(d)'
    <3>1. Stale(d)
      BY <1>1, <1>6, <2>6, NightFrames DEF Stale
    <3> QED BY <1>1, <2>1, <2>6, <3>1, NightFrames DEF Answered
  <2>7. Answered'
    BY <2>5, <2>6 DEF Answered
  <2> QED BY <1>4, <2>2, <2>7 DEF RecordParts
<1> QED BY <1>2, <1>5, <1>6

(* A step that changes the phase at most.                                   *)
LEMMA StillRecords ==
  ASSUME RecordInv,
         UNCHANGED <<chan, ready, pending, worker, cur, count, taken, snap>>,
         UNCHANGED <<dataVars, records, nightly, night, nightSnap, passed, excused, faults>>,
         phase' \in {"up", "joining", "flushing", "draining", "closed"}, Flow'
  PROVE  RecordInv'
<1> USE DEF RecordInv
<1>1. TypeOK'
  BY DEF QueueInv, TypeOK, dataVars
<1>2. DayShape(cur')
  BY DEF QueueInv, Shapes
<1>3. QueueInv'
  BY <1>1, <1>2, QueuesStay
<1>4. \A d : EventsOf(d)' = EventsOf(d) /\ LeaveOn(d)' = LeaveOn(d) /\ Current(d)' = Current(d)
  BY SameData
<1>5. \A d : (Asked(d)' <=> Asked(d)) /\ (Queued(d)' <=> Queued(d))
  <2>1. \A d : Asked(d)' <=> Asked(d)
    BY DEF Asked, AsksFor, Spans
  <2> QED BY <1>4, <2>1 DEF Queued
<1>6. \A d : Excepted(d)' <=> Excepted(d)
  BY DEF Excepted, dataVars
<1>7. WorkerReads' /\ NightReads'
  BY <1>4, <1>5, <1>6 DEF WorkerReads, NightReads
<1>8. Earlier'
  <2>1. active' = active
    BY DEF dataVars
  <2> QED BY <1>4, <1>5, <2>1 DEF Earlier, Computing
<1>9. Answered'
  <2>1. \A d \in Days : Stale(d)' <=> Stale(d)
    BY <1>4 DEF Stale
  <2> QED BY <1>5, <1>6, <2>1 DEF Answered
<1> QED BY <1>3, <1>7, <1>8, <1>9

(* Each stage of the shutdown waits for the one before it.                  *)
LEMMA ShutdownStep == ASSUME RecordInv, shutdown PROVE RecordInv'
<1>1. /\ UNCHANGED <<chan, ready, pending, worker, cur, count, taken, snap>>
      /\ UNCHANGED <<dataVars, records, nightly, night, nightSnap, passed, excused, faults>>
  BY DEF shutdown, LifeFrame, queueVars, workerVars, nightVars
<1>2. /\ phase' \in {"up", "joining", "flushing", "draining", "closed"}
      /\ phase' = "closed" => worker = "stopped"
      /\ worker \in {"stopped", "last"} => phase \in {"draining", "closed"}
      /\ phase = "draining" => phase' = "closed"
      /\ phase # "closed"
  BY DEF shutdown, RecordInv, QueueInv, Flow
<1>3. Flow'
  BY <1>1, <1>2 DEF RecordInv, QueueInv, Flow
<1> QED BY <1>1, <1>2, <1>3, StillRecords

(* A new process begins with nothing in memory: days that are stale then    *)
(* are excepted, by the crash or already when the old one closed.           *)
LEMMA StartStep == ASSUME RecordInv, Restart \/ Crash PROVE RecordInv'
<1> USE DEF RecordInv
<1>1. /\ Fresh /\ Missed /\ UNCHANGED <<dataVars, records>>
      /\ excused \subseteq excused'
      /\ \A d \in Days : Stale(d) => d \in excused' \/ ~active
      /\ excused' \subseteq Days /\ faults' \in 0..MaxFaults
  <2>1. CASE Restart
    <3>1. phase = "closed" /\ worker = "stopped" /\ chan = <<>> /\ ready = <<>>
      BY <2>1 DEF Restart, QueueInv, Flow
    <3>2. \A d : ~Queued(d)
      BY <3>1 DEF Queued, Asked, AsksFor
    <3>3. \A d \in Days : Stale(d) => d \in excused \/ ~active
      BY <3>2 DEF Answered, Excepted
    <3> QED BY <2>1, <3>3 DEF Restart, LifeFrame, QueueInv, TypeOK
  <2>2. CASE Crash
    BY <2>2, RecomputeAssumption DEF Crash, Fault, LifeFrame, QueueInv, TypeOK
  <2> QED BY <2>1, <2>2
<1>2. /\ chan' = <<>> /\ ready' = <<>> /\ pending' = {} /\ worker' = "loop" /\ Idle
      /\ nightly' = "asleep" /\ nightSnap' = Nothing /\ passed' = FALSE /\ phase' = "up"
  BY <1>1 DEF Fresh
<1>3. /\ cur' \in Request /\ DayShape(cur') /\ count' \in 0..(ChunkDays - 1)
      /\ taken' \in 0..Burst /\ snap' \in Input
  BY <1>2, IdleTypes
<1>4. night' \in 0..MaxNight
  BY <1>1, RecomputeAssumption DEF Missed, QueueInv, TypeOK
<1>5. TypeOK'
  <2>1. chan' \in Seq(Request) /\ ready' \in Seq(Request) /\ nightSnap' \in Input
    BY <1>2 DEF Nothing, Input
  <2> QED BY <1>1, <1>2, <1>3, <1>4, <2>1 DEF QueueInv, TypeOK, dataVars
<1>6. QueueInv'
  <2>1. PendingIsExact' /\ Shapes'
    BY <1>2, <1>3, QueueWords DEF DaysIn, DaysOnce, Shaped
  <2>2. Flow'
    BY <1>2 DEF Flow, Idle
  <2> QED BY <1>5, <2>1, <2>2 DEF QueueInv
<1>7. WorkerReads' /\ NightReads' /\ Earlier'
  BY <1>2 DEF WorkerReads, NightReads, Earlier
<1>8. Answered'
  <2>1. \A d : Current(d)' = Current(d)
    BY <1>1, SameData
  <2>2. \A d \in Days : Stale(d)' <=> Stale(d)
    BY <1>1, <2>1 DEF Stale
  <2>3. active' = active
    BY <1>1 DEF dataVars
  <2> QED BY <1>1, <2>2, <2>3 DEF Answered, Excepted
<1> QED BY <1>6, <1>7, <1>8

(* The first process.                                                       *)
LEMMA RecordInit == Init => RecordInv
<1> SUFFICES ASSUME Init PROVE RecordInv
  OBVIOUS
<1>1. 1 \in Days
  BY RecomputeAssumption DEF Days
<1>2. cur \in Request /\ DayShape(cur)
  BY <1>1, DayIsRequest DEF Init
<1>3. Nothing \in Input
  BY DEF Nothing, Input
<1>4. TypeOK
  <2>1. leaves \in [Leaves -> {"none", "active", "cancelled"}]
    BY DEF Init
  <2>2. records \in [Days -> Input \cup {NoRecord}]
    BY DEF Init
  <2>3. /\ writes \in 0..MaxWrites /\ faults \in 0..MaxFaults /\ night \in 0..MaxNight
        /\ count \in 0..(ChunkDays - 1) /\ taken \in 0..Burst
    BY RecomputeAssumption DEF Init
  <2>4. chan \in Seq(Request) /\ ready \in Seq(Request)
    BY DEF Init
  <2> QED BY <1>2, <1>3, <2>1, <2>2, <2>3, <2>4 DEF Init, TypeOK
<1>5. PendingIsExact /\ Shapes
  BY <1>2, QueueWords DEF Init, DaysIn, DaysOnce, Shaped
<1>6. Flow
  BY DEF Init, Flow
<1>7. WorkerReads /\ NightReads /\ Earlier
  BY DEF Init, WorkerReads, NightReads, Earlier
<1>8. Answered
  <2>1. \A d : EventsOf(d) = {} /\ Covering(d) = {}
    BY DEF Init, EventsOf, Covering
  <2>2. \A d : Current(d) = Nothing
    BY <2>1 DEF Current, LeaveOn, Nothing
  <2> QED BY <2>2 DEF Init, Answered, Stale
<1> QED BY <1>4, <1>5, <1>6, <1>7, <1>8 DEF RecordInv, QueueInv

(* Every step.                                                              *)
LEMMA RecordStep ==
  ASSUME WindowsStayInside, RecordInv, [Next]_vars
  PROVE  RecordInv'
<1> USE DEF RecordInv, RecordParts
<1>1. CASE Producer
  BY <1>1, ProducerSends, SendQueues, SendRecords
<1>2. CASE pop_front \/ recv \/ last_drain \/ drain_receiver \/ drained \/ next_day \/ end_chunk
  BY <1>2, WorkerMoves, MoveRecords
<1>3. CASE read_events \/ read_leave \/ upsert \/ read_fails
  BY <1>3, ComputeQueues, ComputeRecords
<1>4. CASE wake \/ NightStep
  BY <1>4, NightQueues, NightReadRecords, NightStoreRecords DEF NightStep
<1>5. CASE shutdown \/ Restart \/ Crash
  BY <1>5, ShutdownStep, StartStep
<1>6. CASE UNCHANGED vars
  <2>1. /\ UNCHANGED <<chan, ready, pending, worker, cur, count, taken, snap, phase>>
        /\ UNCHANGED <<dataVars, records, nightly, night, nightSnap, passed, excused, faults>>
    BY <1>6 DEF vars, dataVars
  <2>2. Flow'
    BY <2>1 DEF QueueInv, Flow
  <2>3. phase' \in {"up", "joining", "flushing", "draining", "closed"}
    BY <2>1 DEF QueueInv, TypeOK
  <2> QED BY <2>1, <2>2, <2>3, StillRecords
<1> QED BY <1>1, <1>2, <1>3, <1>4, <1>5, <1>6 DEF Next, WorkerStep

(* Every record is what its day says, or a recomputation that will see the  *)
(* change is on its way, or the day is excepted; the queues are in order.   *)
THEOREM RecordsAreInvariant ==
  ASSUME WindowsStayInside
  PROVE  Spec => []RecordInv
<1>1. Init => RecordInv
  BY RecordInit
<1>2. RecordInv /\ [Next]_vars => RecordInv'
  BY RecordStep
<1> QED BY <1>1, <1>2, PTL DEF Spec

(* No change is forgotten, for any events, leaves, chunks and bursts, as    *)
(* long as the tolerances do not carry a shift's window over midnight.      *)
THEOREM StaleIsQueuedHolds ==
  ASSUME WindowsStayInside
  PROVE  Spec => []StaleIsQueued
<1>1. RecordInv => StaleIsQueued
  <2> SUFFICES ASSUME RecordInv PROVE StaleIsQueued
    OBVIOUS
  <2>1. ASSUME phase = "closed", NEW d PROVE ~Queued(d)
    BY <2>1 DEF RecordInv, QueueInv, Flow, Queued, Asked, AsksFor
  <2>2. \A d \in Days :
          Stale(d) => (Queued(d) /\ phase # "closed") \/ d \in excused \/ ~active
    BY <2>1 DEF RecordInv, Answered, Excepted
  <2> QED BY <2>2 DEF RecordInv, QueueInv, StaleIsQueued
<1>2. Spec => []RecordInv
  BY RecordsAreInvariant
<1> QED BY <1>1, <1>2, PTL
=============================================================================
