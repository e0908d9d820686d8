-------------------------------- MODULE Calc --------------------------------
(***************************************************************************)
(* The calculation engine of backend/src/calc: which punches belong to an  *)
(* anchor date, which of them pair up into worked time, what the day's     *)
(* record says, and which anomalies it carries.  Every operator is a       *)
(* function of its arguments: the engine does no I/O.                      *)
(*                                                                         *)
(* Instants are seconds of UTC and days are numbered; day d begins at      *)
(* (d - 1) * Day on the local clock, and day 7k is a Monday.  A zone has   *)
(* one change of offset: zone.before until zone.change, zone.after from    *)
(* then on.                                                                *)
(***************************************************************************)
EXTENDS Integers, FiniteSetsExt

CONSTANTS
  DailyCap,   \* most minutes of work in a day (600 in the code)
  WeeklyCap,  \* most minutes of overtime in a week (600 in the code)
  AnnualCap   \* most minutes of overtime in a year (6000 in the code)

ASSUME CapsAssumption == DailyCap \in Nat /\ WeeklyCap \in Nat /\ AnnualCap \in Nat

Minute == 60
Hour   == 60 * Minute
Day    == 24 * Hour

(* Mutant: a shortfall is not cut off at zero.                              *)
Unclamped(n) == n

AtLeastZero(n) == Max({n, 0})     \* .max(0)

Weekday(d) == d % 7              \* num_days_from_monday
IsWeekend(d) == Weekday(d) >= 5

-----------------------------------------------------------------------------
(* overnight.rs: local clock readings and the window of a shift.            *)

Offset(zone, t) == IF t < zone.change THEN zone.before ELSE zone.after
LocalDate(zone, t) == (t + Offset(zone, t)) \div Day + 1

(* The instants at which the local clock shows l: none in a gap, two when   *)
(* the clock was set back.                                                  *)
InstantsOf(zone, l) ==
  {t \in {l - zone.before, l - zone.after} : t + Offset(zone, t) = l}

(* Mutant: only a reading that does not exist is reported.                  *)
ResolveQuietly(zone, l) ==
  LET tries == {b \in 0..2 : InstantsOf(zone, l + b * Hour) # {}}
  IN  [epoch     |-> IF tries = {} THEN l ELSE Min(InstantsOf(zone, l + Min(tries) * Hour)),
       ambiguous |-> InstantsOf(zone, l) = {}]

(* The earliest instant; out of a gap one hour on, then two, then as UTC.   *)
resolve_local_epoch(zone, l) ==
  LET tries == {b \in 0..2 : InstantsOf(zone, l + b * Hour) # {}}
  IN  [epoch     |-> IF tries = {} THEN l ELSE Min(InstantsOf(zone, l + Min(tries) * Hour)),
       ambiguous |-> ~(\E t \in InstantsOf(zone, l) : InstantsOf(zone, l) = {t})]

ShiftStart(d, dept) == (d - 1) * Day + dept.start
ShiftEnd(d, dept)   == (IF dept.overnight THEN d ELSE d - 1) * Day + dept.end

GraceBefore(rules) == (rules.late + rules.bonus) * Minute
GraceAfter(rules)  == (rules.early + rules.bonus) * Minute

(* The nominal times widened by the tolerances.                             *)
Widened(start, end, rules) ==
  [start         |-> start.epoch - GraceBefore(rules),
   end           |-> end.epoch + GraceAfter(rules),
   nominal_start |-> start.epoch,
   nominal_end   |-> end.epoch,
   ambiguous     |-> start.ambiguous \/ end.ambiguous]

shift_window(d, dept, rules, zone) ==
  Widened(resolve_local_epoch(zone, ShiftStart(d, dept)),
          resolve_local_epoch(zone, ShiftEnd(d, dept)), rules)

InWindow(t, w) == w.start <= t /\ t <= w.end

(* The anchor dates that an event captured at t asks to recompute.          *)
anchor_dates_for_instant(t, dept, rules, zone) ==
  LET own   == LocalDate(zone, t)
      In(d) == InWindow(t, shift_window(d, dept, rules, zone))
  IN  IF ~dept.overnight \/ ~In(own - 1) THEN {own}
      ELSE IF In(own) THEN {own - 1, own} ELSE {own - 1}

-----------------------------------------------------------------------------
(* aggregation.rs: the punches of the window and the time they pair up to.  *)

Times(events) == {e.at : e \in events}
Entries(events) == {e \in events : ~e.unknown /\ e.direction = "entry"}
Exits(events)   == {e \in events : ~e.unknown /\ e.direction = "exit"}

EarliestOf(S) == IF S = {} THEN {} ELSE {Min(S)}
LatestOf(S)   == IF S = {} THEN {} ELSE {Max(S)}

aggregate_events(events, w) ==
  LET inside == {e \in events : InWindow(e.at, w)}
  IN  [canonical_entry   |-> EarliestOf(Times(Entries(inside))),
       canonical_exit    |-> LatestOf(Times(Exits(inside))),
       unknown_in_window |-> \E e \in inside : e.unknown,
       entries           |-> Times(Entries(inside)),
       exits             |-> Times(Exits(inside))]

(* The punches, each badge of one instant and direction once, as in the     *)
(* scan, which a second one does not change.                                *)
Timeline(entries, exits) ==
  {[at |-> t, exit |-> FALSE] : t \in entries} \cup {[at |-> t, exit |-> TRUE] : t \in exits}

(* Time order, an entry before an exit of the same instant: the stable sort *)
(* keeps the order entries, then exits.                                     *)
Before(a, b) == a.at < b.at \/ (a.at = b.at /\ ~a.exit /\ b.exit)

LastPunch(S) == CHOOSE p \in S : \A q \in S \ {p} : Before(q, p)

(* Mutant: an entry while one is open opens the interval anew.              *)
ScanReopening(scan, punch) ==
  IF ~punch.exit THEN [scan EXCEPT !.open = {punch.at}]
  ELSE [seconds |-> scan.seconds + (IF scan.open = {} THEN 0
                                    ELSE punch.at - Min(scan.open)),
        blocks  |-> scan.blocks + (IF scan.open = {} THEN 0 ELSE 1),
        open    |-> {}]

(* A second entry changes nothing; an exit with nothing open closes nothing.*)
Scan(scan, punch) ==
  IF ~punch.exit THEN [scan EXCEPT !.open = IF @ = {} THEN {punch.at} ELSE @]
  ELSE [seconds |-> scan.seconds + (IF scan.open = {} THEN 0
                                    ELSE punch.at - Min(scan.open)),
        blocks  |-> scan.blocks + (IF scan.open = {} THEN 0 ELSE 1),
        open    |-> {}]

Unscanned == [seconds |-> 0, blocks |-> 0, open |-> {}]

(* One scan of the punches in time order.  The closed intervals are kept as *)
(* their total length and their number, next to the entry left open.        *)
pair_work_intervals(entries, exits) ==
  MapThenFoldSet(LAMBDA punch, scan : Scan(scan, punch), Unscanned, LAMBDA p : p, LastPunch,
                 Timeline(entries, exits))

-----------------------------------------------------------------------------
(* lunch.rs, overtime.rs and expected.rs.                                   *)

Codes(condition, code) == IF condition THEN {code} ELSE {}

compute_lunch_deduction(worked, broke, dept) ==
  CASE dept.lunch_mode = "fixed" ->
         [minutes |-> IF worked > dept.lunch THEN dept.lunch ELSE 0, codes |-> {}]
    [] dept.lunch_mode = "punch" ->
         IF broke THEN [minutes |-> 0, codes |-> {}]
         ELSE [minutes |-> dept.lunch, codes |-> {"LunchPunchMissing"}]
    [] OTHER -> [minutes |-> dept.lunch, codes |-> {}]

check_overtime_caps(work, overtime, week, year) ==
  Codes(work > DailyCap, "OtCapExceededDaily")
    \cup Codes(week + overtime > WeeklyCap, "OtCapExceededWeekly")
    \cup Codes(year + overtime > AnnualCap, "OtCapExceededAnnual")

expected_minutes(ordinary, d, on_leave) ==
  IF on_leave \/ ordinary <= 0 \/ IsWeekend(d) THEN 0 ELSE ordinary

deficit_minutes(expected, worked) == AtLeastZero(expected - worked)

-----------------------------------------------------------------------------
(* engine.rs.                                                               *)

(* Lateness and early departure are all or nothing past the grace.          *)
PastGrace(seconds, grace) == IF seconds > grace THEN seconds \div Minute ELSE 0

(* Mutant: only a day without any exit misses one.                          *)
HasNoExit(agg, scan) == agg.canonical_exit = {}

LeftOpen(agg, scan) == agg.canonical_exit = {} \/ scan.open # {}

OnLeave(input) ==
  [work_minutes |-> 0, overtime_minutes |-> 0, late_minutes |-> 0,
   early_departure_minutes |-> 0, is_rest_day_worked |-> FALSE,
   entry_at |-> {}, exit_at |-> {}, leave_id |-> input.leave,
   anomalies |-> Codes(input.events # {}, "EventsOnLeaveDay")
                   \cup Codes(input.prior, "RecomputeAfterEdit")]

(* The record of a day from its window, its punches and their intervals.    *)
DayRecord(input, w, agg, scan) ==
  LET dept   == input.dept
      rules  == input.rules
      paired == agg.canonical_entry # {} /\ agg.canonical_exit # {}
      raw    == scan.seconds \div Minute
      lunch  == compute_lunch_deduction(raw, scan.blocks > 1, dept)
      work   == IF paired THEN AtLeastZero(raw - lunch.minutes) ELSE 0
      extra  == AtLeastZero(work - dept.ordinary)
  IN  [work_minutes     |-> work,
       overtime_minutes |-> extra,
       late_minutes     |->
         IF paired THEN PastGrace(AtLeastZero(Min(agg.canonical_entry) - w.nominal_start),
                                  GraceBefore(rules)) ELSE 0,
       early_departure_minutes |->
         IF paired THEN PastGrace(AtLeastZero(w.nominal_end - Max(agg.canonical_exit)),
                                  GraceAfter(rules)) ELSE 0,
       is_rest_day_worked |-> IsWeekend(input.day) /\ work > 0,
       entry_at |-> agg.canonical_entry,
       exit_at  |-> agg.canonical_exit,
       leave_id |-> 0,
       anomalies |->
         Codes(w.ambiguous, "OvernightInferenceAmbiguous")
           \cup Codes(agg.unknown_in_window, "UnknownFaceInWindow")
           \cup Codes(agg.canonical_entry = {}, "MissingEntry")
           \cup Codes(agg.canonical_entry # {} /\ LeftOpen(agg, scan), "MissingExit")
           \cup (IF paired THEN lunch.codes ELSE {})
           \cup (IF work > 0 THEN check_overtime_caps(work, extra, input.week, input.year)
                 ELSE {})
           \cup Codes(input.prior, "RecomputeAfterEdit")]

AtWork(input) ==
  LET w   == shift_window(input.day, input.dept, input.rules, input.zone)
      agg == aggregate_events(input.events, w)
  IN  DayRecord(input, w, agg, pair_work_intervals(agg.entries, agg.exits))

(* leave_id is 0 when no active leave covers the day.                       *)
compute_daily_record(input) == IF input.leave # 0 THEN OnLeave(input) ELSE AtWork(input)
=============================================================================
