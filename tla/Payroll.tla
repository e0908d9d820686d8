------------------------------- MODULE Payroll -------------------------------
(***************************************************************************)
(* What an employee's punches, leaves and overrides come to in a pre-      *)
(* payroll report: recompute_for_day of daily_records/service.rs, which    *)
(* feeds the engine of Calc, create_override of daily_records/handlers.rs, *)
(* the money of reports/money.rs, the periods of reports/periods.rs, and   *)
(* compute_report with the handlers around it.                             *)
(*                                                                         *)
(* One employee; the other employees' rows are computed alike and apart.   *)
(* A behaviour is about one setting: a department, the rules, a zone, a    *)
(* salary, and what may happen.  The queue of recompute requests is the    *)
(* set of days it holds and recompute_for_day is one step: how the queue   *)
(* loses nothing, and how its reads interleave with writes, is the subject *)
(* of Recompute.                                                           *)
(***************************************************************************)
EXTENDS Calc

CONSTANTS
  Settings,     \* the settings a behaviour may be about
  MonthStarts,  \* the first days of the calendar's months
  YearStarts,   \* those that begin a year
  MaxInt,       \* i64::MAX, scaled down
  MaxPeriod,    \* longest period of a report, last minus first (366 in the code)
  MaxLeaves     \* bound: leaves created in one behaviour

(* Months have 28 to 31 days.                                               *)
ASSUME CalendarAssumption ==
  /\ YearStarts \subseteq MonthStarts /\ MonthStarts \subseteq Int
  /\ \A m, n \in MonthStarts : m < n => n - m >= 28
  /\ \A m \in MonthStarts : (\E n \in MonthStarts : n > m) =>
       \E n \in MonthStarts : n - m \in 28..31

ASSUME BoundsAssumption == MaxInt \in Nat /\ MaxLeaves \in Nat

(* What a setting is, and: its days follow one another, every day that a    *)
(* punch or a leave asks for is one of them, and the calendar reaches from  *)
(* before them to the end of the month of reference.  No handler sets the   *)
(* minutes of an ordinary day (a column with a default) below zero.         *)
ASSUME SettingsAssumption ==
  \A s \in Settings :
    /\ s.dept.ordinary \in Nat /\ s.dept.lunch \in Int
    /\ s.kind \in {"none", "daily", "monthly", "hourly"} /\ s.base \in Nat
    /\ s.days # {} /\ s.days \subseteq Int /\ IsFiniteSet(s.days)
    /\ s.days = Min(s.days)..Max(s.days)
    /\ \A p \in s.punches :
         /\ DOMAIN p = {"at", "direction", "device", "unknown"} /\ p.at \in Int
         /\ anchor_dates_for_instant(p.at, s.dept, s.rules, s.zone) \subseteq s.days
    /\ \A m \in s.overrides : m \subseteq Int /\ \A i, j \in m : i = j
    /\ \A l \in s.leave : l.from \in Int /\ l.to \in Int /\ l.from <= l.to /\ l.from..l.to \subseteq s.days
    /\ \A l, k \in s.leave : l = k
    /\ s.hire \subseteq Int /\ s.ends \subseteq Int
    /\ \A d \in s.days : \E y \in YearStarts : y <= d
    /\ s.ref \in Int /\ (\E m \in MonthStarts : m <= s.ref) /\ \E m \in MonthStarts : m > s.ref

VARIABLES
  setting,     \* chosen once
  punches,     \* attendance_events
  record,      \* daily_records, by anchor date
  override,    \* the active daily_record_overrides, by anchor date
  leave,       \* the last leave created and whether it is active
  terminated,  \* employees.terminated_on, if deactivated
  pending,     \* days with a recompute request
  tonight,     \* the day the next nightly pass recomputes
  report       \* the report being generated

inputVars == <<setting, punches, override, leave, terminated>>
vars == <<setting, punches, record, override, leave, terminated, pending, tonight, report>>

(* f with v at x.                                                           *)
Put(f, x, v) == [y \in DOMAIN f \cup {x} |-> IF y = x THEN v ELSE f[y]]

SatAdd(a, b) == Min({MaxInt, a + b})
SatSum(f(_), S) == FoldFunction(SatAdd, 0, [x \in S |-> f(x)])

-----------------------------------------------------------------------------
(* reports/money.rs: integer cents, one division, half a cent rounds up.    *)

to_daily(kind, ordinary) ==
  CASE kind = "daily"   -> [num |-> 1, den |-> 1]
    [] kind = "monthly" -> [num |-> 1, den |-> 30]
    [] kind = "hourly"  -> [num |-> ordinary, den |-> 60]

Fits(p, q) == q = 0 \/ p <= MaxInt \div q
CheckedMul(p, q) == IF p = -1 \/ ~Fits(p, q) THEN -1 ELSE p * q   \* -1: overflowed

(* minutes at the base salary times percent times premium, over scale       *)
(* ordinary days; 0 when it overflows.                                      *)
Cents(s, minutes, percent, premium, scale) ==
  LET frac  == to_daily(s.kind, s.dept.ordinary)
      denom == scale * frac.den * s.dept.ordinary
      num   == CheckedMul(CheckedMul(CheckedMul(CheckedMul(minutes, s.base), percent), premium),
                          frac.num)
  IN  IF s.dept.ordinary <= 0 \/ num = -1 \/ num > MaxInt - denom \div 2 THEN 0
      ELSE (num + denom \div 2) \div denom

work_pay_cents(s, minutes)           == Cents(s, minutes, 1, 1, 1)
ot_pay_cents(s, minutes, premium)    == Cents(s, minutes, 150, premium, 100 * 100)
night_premium_cents(s, minutes)      == Cents(s, minutes, 30, 1, 100)
rest_day_surcharge_cents(s, minutes) == Cents(s, minutes, 50, 1, 100)
late_deduction_cents(s, minutes)     == Cents(s, minutes, 1, 1, 1)

total_a_pagar_cents(work, ot, night, rest, late) ==
  SatAdd(SatAdd(SatAdd(work, ot), night), rest) - late

-----------------------------------------------------------------------------
(* reports/periods.rs.                                                      *)

MonthOf(d) == Max({m \in MonthStarts : m <= d})

(* Mutant: the first fortnight ends a day late.                             *)
SixteenthOf(d) == MonthOf(d) + 15

FifteenthOf(d) == MonthOf(d) + 14

last_day_of_month(d) == Min({m \in MonthStarts : m > d}) - 1

resolve_period(q) ==
  CASE q.period = "weekly" ->
         [from |-> q.from - Weekday(q.from), to |-> q.from - Weekday(q.from) + 6]
    [] q.period = "biweekly_first"  -> [from |-> MonthOf(q.from), to |-> FifteenthOf(q.from)]
    [] q.period = "biweekly_second" ->
         [from |-> MonthOf(q.from) + 15, to |-> last_day_of_month(q.from)]
    [] q.period = "monthly" -> [from |-> MonthOf(q.from), to |-> last_day_of_month(q.from)]
    [] q.period = "custom"  -> [from |-> q.from, to |-> q.to]

Presets == {"weekly", "biweekly_first", "biweekly_second", "monthly", "custom"}

(* What parse_period and compute_report turn down before they read.         *)
Acceptable(q) ==
  /\ q.period \in Presets
  /\ LET p == resolve_period(q) IN p.to - p.from <= MaxPeriod /\ p.from <= p.to

PeriodDays(q) == LET p == resolve_period(q) IN p.from..p.to

-----------------------------------------------------------------------------
(* compute_report, over a state db of the database.                         *)

Db == [record |-> record, override |-> override, leave |-> leave, terminated |-> terminated]

(* epoch_to_naive_date: the date in UTC.                                    *)
DateOf(t) == t \div Day + 1

(* The employees of the report: employment overlaps the period.             *)
InUniverse(s, q, db) ==
  LET p == resolve_period(q)
  IN  /\ \A t \in db.terminated : t >= (p.from - 1) * Day
      /\ \A h \in s.hire : h <= p.to

ShiftMatches(q, shift) == \A f \in q.filter : f = shift

(* The daily records of the first query.                                    *)
Swept(q, db) ==
  {d \in PeriodDays(q) \cap DOMAIN db.record : ShiftMatches(q, db.record[d].shift_type)}

(* The type of the active leave that the record of a day is attached to.    *)
LeaveKind(s, db, d) ==
  IF db.leave.active /\ db.record[d].leave_id = db.leave.id
  THEN {l.type : l \in s.leave} ELSE {}

effective_work_min(db, d) ==
  IF d \in DOMAIN db.override /\ db.override[d] # {} THEN Max(db.override[d])
  ELSE db.record[d].work_minutes

(* Mutant: the overtime slice is also paid at the ordinary rate (C-01).     *)
OrdinaryIsAll(db, d) == AtLeastZero(effective_work_min(db, d))

ordinary_min(db, d) ==
  AtLeastZero(effective_work_min(db, d) - db.record[d].overtime_minutes)

Night(db, d) == db.record[d].shift_type = "night"
Rest(db, d)  == db.record[d].is_rest_day_worked

day_premium_pct(db, d) ==
  100 + (IF Night(db, d) THEN 30 ELSE 0) + (IF Rest(db, d) THEN 50 ELSE 0)

NoPay == [work |-> 0, ot |-> 0, night |-> 0, rest |-> 0, late |-> 0, total |-> 0]

(* Lateness already shrank the worked minutes, so it is shown and not taken *)
(* off again.                                                               *)
Pay(work, ot, night, rest, late) ==
  [work |-> work, ot |-> ot, night |-> night, rest |-> rest, late |-> late,
   total |-> total_a_pagar_cents(work, ot, night, rest, 0)]

(* The money of a standard work day.                                        *)
DayPay(s, db, d) ==
  LET minutes == ordinary_min(db, d)
  IN  Pay(work_pay_cents(s, minutes),
          ot_pay_cents(s, db.record[d].overtime_minutes, day_premium_pct(db, d)),
          IF Night(db, d) THEN night_premium_cents(s, minutes) ELSE 0,
          IF Rest(db, d) THEN rest_day_surcharge_cents(s, minutes) ELSE 0,
          late_deduction_cents(s, db.record[d].late_minutes))

(* A salary without a unit pays nothing.                                    *)
StandardPay(s, db, d) == IF s.kind = "none" THEN NoPay ELSE DayPay(s, db, d)

(* A vacation day on record is paid as one ordinary day.                    *)
VacationPay(s) ==
  IF s.kind = "none" THEN 0 ELSE work_pay_cents(s, s.dept.ordinary)

(* The accumulator of the employee over the days of the first query; pay is *)
(* the money of each.                                                       *)
Accumulate(s, db, days, pay) ==
  LET onLeave  == {d \in days : LeaveKind(s, db, d) # {}}
      vacation == {d \in days : "vacation" \in LeaveKind(s, db, d)}
      standard == days \ onLeave
      worked   == {d \in standard : effective_work_min(db, d) > 0}
      Sum(f(_)) == SatSum(f, standard)
      paidLeave == SatSum(LAMBDA d : VacationPay(s), vacation)
  IN  [worked_dates   |-> worked,
       leave_dates    |-> onLeave,
       worked_by_date |-> [d \in standard |-> effective_work_min(db, d)],
       days_worked    |-> Cardinality(worked),
       work_min       |-> Sum(LAMBDA d : effective_work_min(db, d)),
       ot_min         |-> Sum(LAMBDA d : db.record[d].overtime_minutes),
       late_min       |-> Sum(LAMBDA d : db.record[d].late_minutes),
       work_pay       |-> SatAdd(Sum(LAMBDA d : pay[d].work), paidLeave),
       ot_pay         |-> Sum(LAMBDA d : pay[d].ot),
       night_premium  |-> Sum(LAMBDA d : pay[d].night),
       rest_surcharge |-> Sum(LAMBDA d : pay[d].rest),
       late_deduction |-> Sum(LAMBDA d : pay[d].late),
       total          |-> SatAdd(Sum(LAMBDA d : pay[d].total), paidLeave),
       days_on_leave  |-> 0,
       anomalies      |->
         UNION {db.record[d].anomalies : d \in days}
           \cup Codes(s.kind = "none" /\ standard \cup vacation # {}, "SalaryKindMissing")]

(* The sweep of the daily records.                                          *)
Sweep(s, q, db) ==
  LET days == Swept(q, db)
  IN  Accumulate(s, db, days, [d \in days |-> StandardPay(s, db, d)])

CoveredBy(leaves) == UNION {l.from..l.to : l \in leaves}

(* The second query: the days of the leaves themselves.                     *)
LeaveDays(s, q, db) ==
  IF ~db.leave.active \/ ~ShiftMatches(q, s.dept.shift_type) THEN {}
  ELSE CoveredBy(s.leave) \cap PeriodDays(q)

(* Mutant: a leave day on record is counted by both queries.                *)
CountLeavesTwice(s, q, db, acc) ==
  [acc EXCEPT !.days_on_leave = @ + Cardinality(acc.leave_dates) + Cardinality(LeaveDays(s, q, db)),
              !.leave_dates = @ \cup LeaveDays(s, q, db)]

CountLeaves(s, q, db, acc) ==
  [acc EXCEPT !.days_on_leave = @ + Cardinality(LeaveDays(s, q, db)),
              !.leave_dates = @ \cup LeaveDays(s, q, db)]

(* The weekdays of the period within the employment.                        *)
EmployedWeekdays(s, q, db) ==
  {d \in PeriodDays(q) : /\ Weekday(d) < 5
                         /\ \A h \in s.hire : d >= h
                         /\ \A t \in db.terminated : d <= DateOf(t)}

WorkedOn(acc, d) == IF d \in DOMAIN acc.worked_by_date THEN acc.worked_by_date[d] ELSE 0

(* Mutant: every absent or short day owes the whole ordinary day (the       *)
(* deficit the code had before it compared day by day).                     *)
DeficitOfAbsence(s, acc, days) ==
  SatSum(LAMBDA d : IF d \in acc.worked_dates
                    THEN deficit_minutes(expected_minutes(s.dept.ordinary, d, FALSE), WorkedOn(acc, d))
                    ELSE 2 * expected_minutes(s.dept.ordinary, d, FALSE), days)

DeficitMin(s, acc, days) ==
  SatSum(LAMBDA d : deficit_minutes(expected_minutes(s.dept.ordinary, d, FALSE), WorkedOn(acc, d)),
         days)

Finish(s, q, db, acc) ==
  LET employed == EmployedWeekdays(s, q, db)
      due      == employed \ acc.leave_dates
  IN  [amounts   |-> acc,
       days_absent  |-> Cardinality(due \ acc.worked_dates),
       expected_min |-> SatSum(LAMBDA d : expected_minutes(s.dept.ordinary, d, FALSE), due),
       deficit_min  |-> DeficitMin(s, acc, due),
       anomalies    |-> acc.anomalies \cup Codes(s.hire = {}, "HireDateMissing")]

(* The employee's rows: one, or none outside the universe.                  *)
RowsOf(s, q, db, acc) ==
  IF InUniverse(s, q, db) THEN {Finish(s, q, db, CountLeaves(s, q, db, acc))} ELSE {}

compute_report(s, q, db) == RowsOf(s, q, db, Sweep(s, q, db))

-----------------------------------------------------------------------------
(* recompute_for_day.                                                       *)

Window(d) == shift_window(d, setting.dept, setting.rules, setting.zone)

PunchesIn(w) == {p \in punches : InWindow(p.at, w)}

(* The employee's events, and the unknown faces at a device that the        *)
(* employee used in the window.                                             *)
OwnAndUnknown(inside) ==
  {p \in inside : p.unknown => \E o \in inside : ~o.unknown /\ o.device = p.device}

EventsOf(d) == OwnAndUnknown(PunchesIn(Window(d)))

OvertimeOf(days) ==
  SumFunction([x \in days \cap DOMAIN record |-> record[x].overtime_minutes])

OvertimeBetween(from, d) == OvertimeOf(from..(d - 1))

YearStart(d) == Max({y \in YearStarts : y <= d})

(* Mutant: the week is cut off at the turn of the year.                     *)
WeekOfThisYear(d) == OvertimeBetween(Max({d - Weekday(d), YearStart(d)}), d)

WeekSoFar(d) == OvertimeBetween(d - Weekday(d), d)
YearSoFar(d) == OvertimeBetween(YearStart(d), d)

fetch_active_leave_for_date(d) ==
  IF leave.active /\ \E l \in setting.leave : l.from <= d /\ d <= l.to THEN leave.id ELSE 0

InputOf(d) ==
  [events |-> EventsOf(d), dept |-> setting.dept, rules |-> setting.rules,
   leave |-> fetch_active_leave_for_date(d), day |-> d, zone |-> setting.zone,
   week |-> WeekSoFar(d), year |-> YearSoFar(d), prior |-> d \in DOMAIN record]

(* The upsert, with the anomalies of the record replaced.                   *)
Recomputed(d) ==
  Put(record, d, Put(compute_daily_record(InputOf(d)), "shift_type", setting.dept.shift_type))

(* An inactive employee's day is left as it is.                             *)
recompute_for_day(d) ==
  record' = IF terminated = {} THEN Recomputed(d) ELSE record

-----------------------------------------------------------------------------
Idle == [phase |-> "idle", request |-> {}, snap |-> {}, acc |-> {}, rows |-> {}]
ReportIn(phase) == [Idle EXCEPT !.phase = phase]

Init ==
  /\ setting \in Settings
  /\ punches = {} /\ record = <<>> /\ override = <<>>
  /\ leave = [id |-> 0, active |-> FALSE]
  /\ terminated = {}
  /\ pending = {}
  /\ tonight = Min(setting.days)
  /\ report = Idle

(* The days an attributed punch asks for.                                   *)
AsksFor(p) ==
  anchor_dates_for_instant(p.at, setting.dept, setting.rules, setting.zone)

(* A punch delivered after the employee was deactivated is attributed while *)
(* the device's mapping is there, and belongs to nobody after that.         *)
Punch(p) ==
  /\ p \notin {[o EXCEPT !.unknown = p.unknown] : o \in punches}
  /\ \E unknown \in {p.unknown, p.unknown \/ terminated # {}} :
       /\ punches' = punches \cup {[p EXCEPT !.unknown = unknown]}
       /\ pending' = IF unknown THEN pending ELSE pending \cup AsksFor(p)
  /\ UNCHANGED <<setting, record, override, leave, terminated, tonight, report>>

Recompute(d) ==
  /\ d \in pending
  /\ recompute_for_day(d)
  /\ pending' = pending \ {d}
  /\ UNCHANGED <<inputVars, tonight, report>>

reconcile_prior_day ==
  /\ setting.nights /\ tonight <= Max(setting.days)
  /\ recompute_for_day(tonight)
  /\ tonight' = tonight + 1
  /\ UNCHANGED <<inputVars, pending, report>>

(* Replaces an older override of the same record; the minutes are optional  *)
(* and any number.                                                          *)
create_override(d, minutes) ==
  /\ d \in DOMAIN record
  /\ override' = Put(override, d, minutes)
  /\ pending' = pending \cup {d}
  /\ UNCHANGED <<setting, punches, record, leave, terminated, tonight, report>>

LeaveRange == CoveredBy(setting.leave)

create_leave ==
  /\ setting.leave # {}
  /\ ~leave.active /\ leave.id < MaxLeaves
  /\ leave' = [id |-> leave.id + 1, active |-> TRUE]
  /\ pending' = pending \cup LeaveRange
  /\ UNCHANGED <<setting, punches, record, override, terminated, tonight, report>>

cancel_leave ==
  /\ leave.active
  /\ leave' = [leave EXCEPT !.active = FALSE]
  /\ pending' = pending \cup LeaveRange
  /\ UNCHANGED <<setting, punches, record, override, terminated, tonight, report>>

(* terminated_on is the instant of the deactivation.                        *)
deactivate(t) ==
  /\ terminated = {}
  /\ terminated' = {t}
  /\ UNCHANGED <<setting, punches, record, override, leave, pending, tonight, report>>

-----------------------------------------------------------------------------
(* generate_json and generate_excel.                                        *)

KeepsData == UNCHANGED <<inputVars, record, pending, tonight>>

(* Validation, then the snapshot and the query over the daily records.      *)
StartReport(q) ==
  /\ report.phase = "idle"
  /\ report' = IF ~Acceptable(q) THEN ReportIn("refused")
               ELSE [phase |-> "swept", request |-> {q}, snap |-> {Db},
                     acc |-> {Sweep(setting, q, Db)}, rows |-> {}]
  /\ KeepsData

(* Mutant: the second query reads what has been committed since.            *)
SeesLive == {Db}

(* What the second query reads: the snapshot of the first.                  *)
SeesSnapshot == report.snap

FinishReport ==
  /\ report.phase = "swept"
  /\ \E q \in report.request, db \in SeesSnapshot, acc \in report.acc :
       report' = [report EXCEPT !.phase = "computed", !.rows = RowsOf(setting, q, db, acc)]
  /\ KeepsData

build_workbook ==
  /\ report.phase = "computed"
  /\ \E q \in report.request : q.format = "excel"
  /\ report' = [report EXCEPT !.phase = "built"]
  /\ KeepsData

(* The audit row, then the answer.                                          *)
record_export ==
  /\ \E q \in report.request :
       report.phase = (IF q.format = "excel" THEN "built" ELSE "computed")
  /\ report' = ReportIn("answered")
  /\ KeepsData

(* A read, the workbook or the audit row fails.                             *)
ReportFails ==
  /\ report.phase \in {"swept", "computed", "built"}
  /\ report' = ReportIn("failed")
  /\ KeepsData

Next ==
  \/ \E p \in setting.punches : Punch(p)
  \/ \E d \in setting.days : Recompute(d)
  \/ reconcile_prior_day
  \/ \E d \in setting.days, m \in setting.overrides : create_override(d, m)
  \/ create_leave
  \/ cancel_leave
  \/ \E t \in setting.ends : deactivate(t)
  \/ \E q \in setting.requests : StartReport(q)
  \/ FinishReport
  \/ build_workbook
  \/ record_export
  \/ ReportFails

Spec == Init /\ [][Next]_vars
-----------------------------------------------------------------------------
(* The state a settled setting is in: no day is waiting to be recomputed.   *)
Settled == pending = {} /\ terminated = {}

Reports(period) == compute_report(setting, [period |-> period, from |-> setting.ref,
                     to |-> setting.ref, filter |-> {}, format |-> "json"], Db)

(* Types of the variables; a record exists before its override does.        *)
TypeOK ==
  /\ setting \in Settings
  /\ DOMAIN record \subseteq setting.days
  /\ DOMAIN override \subseteq DOMAIN record
  /\ leave \in [id: 0..MaxLeaves, active: BOOLEAN]
  /\ terminated \subseteq setting.ends /\ Cardinality(terminated) <= 1
  /\ pending \subseteq setting.days
  /\ report.phase \in {"idle", "refused", "swept", "computed", "built", "answered", "failed"}
  /\ \A d \in DOMAIN record :
       /\ record[d].work_minutes \in Nat
       /\ record[d].overtime_minutes \in 0..record[d].work_minutes

(* The scan of pair_work_intervals measures presence: between each exit and *)
(* the one before it, from the first entry; an entry nothing closes counts  *)
(* for nothing, whatever order the punches were delivered in, duplicated,   *)
(* odd or simultaneous.                                                     *)
WorkIsPresence ==
  \A d \in setting.days :
    LET agg == aggregate_events(EventsOf(d), Window(d))
        since(x) == {e \in agg.entries :
                       e <= x /\ \A y \in agg.exits : y < x => y < e}
        closing == {x \in agg.exits : since(x) # {}}
        scan == pair_work_intervals(agg.entries, agg.exits)
    IN  /\ scan.seconds = SumFunction([x \in closing |-> x - Min(since(x))])
        /\ scan.blocks = Cardinality(closing)

(* What the engine says of a day now, apart from the mark of a recompute.   *)
Unmarked(codes) == codes \ {"RecomputeAfterEdit"}
Fresh(d) ==
  /\ d \in DOMAIN record
  /\ LET now == compute_daily_record(InputOf(d))
     IN  /\ \A f \in DOMAIN now \ {"anomalies"} : record[d][f] = now[f]
         /\ Unmarked(record[d].anomalies) = Unmarked(now.anomalies)

(* A record that is up to date carries MissingExit exactly when the last    *)
(* attributed punch of its window is an entry, so a day that was left open  *)
(* never passes for a complete one; and a day whose boundary the local      *)
(* clock shows twice or never says so.                                      *)
OpenDayIsFlagged ==
  /\ TypeOK
  /\ \A d \in DOMAIN record : record[d].leave_id = 0 =>
       /\ Fresh(d) =>
            LET agg  == aggregate_events(EventsOf(d), Window(d))
                last == \E e \in agg.entries : \A x \in agg.exits : x < e
            IN  "MissingExit" \in record[d].anomalies <=> last
       /\ "OvernightInferenceAmbiguous" \notin record[d].anomalies =>
            \A l \in {ShiftStart(d, setting.dept), ShiftEnd(d, setting.dept)} :
              Cardinality(InstantsOf(setting.zone, l)) = 1

WeekOf(d) == (d - Weekday(d))..(d - Weekday(d) + 6)
YearOf(d) == {x \in setting.days : \A y \in YearStarts : y <= x <=> y <= d}

FlaggedIn(days, code) == \E x \in days \cap DOMAIN record : code \in record[x].anomalies

(* When every record is up to date, a week or a year of too much overtime   *)
(* shows on one of its days: the totals that recompute_for_day looks back   *)
(* over miss no day of the week, also across the turn of the year.          *)
BreachIsSeen ==
  (\A d \in DOMAIN record : Fresh(d)) =>
    \A d \in DOMAIN record :
      /\ OvertimeOf(WeekOf(d)) > WeeklyCap => FlaggedIn(WeekOf(d), "OtCapExceededWeekly")
      /\ OvertimeOf(YearOf(d)) > AnnualCap => FlaggedIn(YearOf(d), "OtCapExceededAnnual")

(* Once every request has been answered and the nightly pass is past the    *)
(* week, a week of too much overtime shows on one of its days               *)
(* (calc/overtime.rs: "running weekly OT ... must not exceed 600 minutes.   *)
(* Breach -> OtCapExceededWeekly").                                         *)
WeekBreachIsFlagged ==
  Settled /\ tonight > Max(setting.days) =>
    \A d \in DOMAIN record :
      OvertimeOf(WeekOf(d)) > WeeklyCap => FlaggedIn(WeekOf(d), "OtCapExceededWeekly")

(* A day without an override is paid minute by minute: ordinary minutes at  *)
(* the day's loaded rate, overtime at one and a half times that rate, to    *)
(* within the rounding of the four amounts; nothing is paid twice and       *)
(* lateness is not taken off a second time.  Amounts that overflow are 0.   *)
PaidPerMinute ==
  \A d \in DOMAIN record \ DOMAIN override :
    setting.kind # "none" /\ setting.dept.ordinary > 0 =>
      LET frac    == to_daily(setting.kind, setting.dept.ordinary)
          premium == day_premium_pct(Db, d)
          over    == record[d].overtime_minutes
          whole   == 100 * frac.den * setting.dept.ordinary
          percent == (record[d].work_minutes - over) * premium + over * ((150 * premium) \div 100)
          rate    == setting.base * frac.num
          total   == StandardPay(setting, Db, d).total
          fits    == /\ whole <= MaxInt \div 400
                     /\ \A p \in {over * 150 * premium, percent} :
                          rate = 0 \/ p <= (MaxInt - 50 * whole) \div rate
      IN  fits => LET owed == percent * rate
                  IN  /\ total * whole - owed <= 2 * whole
                      /\ owed - total * whole <= 2 * whole

(* The ordinary day is either worked or missing: the deficit never exceeds  *)
(* what was expected, and with the worked minutes it makes up for it        *)
(* (overrides below zero, which the handler accepts, apart).  In a settled  *)
(* state a day stands in one column: none is both worked and on leave, and  *)
(* each leave day is counted once although both queries see it.  A report   *)
(* under way shows the one state it began in, whatever is committed between *)
(* its queries.                                                             *)
DayIsAccountedFor ==
  /\ \A row \in Reports("monthly") :
       /\ (\A d \in DOMAIN override : \A m \in override[d] : m >= 0) =>
            /\ row.deficit_min <= row.expected_min
            /\ row.expected_min <= row.amounts.work_min + row.deficit_min
       /\ Settled =>
            /\ row.amounts.worked_dates \cap row.amounts.leave_dates = {}
            /\ row.amounts.days_on_leave = Cardinality(row.amounts.leave_dates)
  /\ report.phase \in {"computed", "built"} =>
       \E q \in report.request, db \in report.snap :
         report.rows = compute_report(setting, q, db)

AddUp(first, second, month) ==
  LET of(f(_), rows) == SumFunction([row \in rows |-> f(row)])
      adds(f(_)) == of(f, month) = of(f, first) + of(f, second)
  IN  /\ adds(LAMBDA row : row.amounts.total)
      /\ adds(LAMBDA row : row.amounts.work_min)
      /\ adds(LAMBDA row : row.amounts.days_on_leave)
      /\ adds(LAMBDA row : row.days_absent)
      /\ adds(LAMBDA row : row.deficit_min)

(* The first fortnight shows an employee hired in it; one hired later has   *)
(* nothing on file before the day of hire.                                  *)
HiredInTime ==
  \A h \in setting.hire :
    h <= FifteenthOf(setting.ref) \/ \A d \in DOMAIN record \cup LeaveRange : h <= d

(* No sum of the month is cut off at the largest integer.                   *)
NothingSaturates ==
  /\ \A row \in Reports("monthly") : row.amounts.total < MaxInt /\ row.deficit_min < MaxInt
  /\ \A d \in DOMAIN record : effective_work_min(Db, d) <= MaxInt \div 31

(* The two fortnights of a month pay, expect and miss what the month does:  *)
(* no day is in both or in none.                                            *)
FortnightsAddUp ==
  terminated = {} /\ HiredInTime /\ NothingSaturates =>
    AddUp(Reports("biweekly_first"), Reports("biweekly_second"), Reports("monthly"))
=============================================================================
