------------------------------ MODULE MCPayroll ------------------------------
(* Settings of Payroll.  Day 1 is Tuesday, 1 December 2026: day 28 is a     *)
(* Monday, day 32 is New Year's Day and day 33 a Saturday.                  *)
EXTENDS Payroll

At(d, h, m) == (d - 1) * Day + h * Hour + m * Minute
In(t)       == [at |-> t, direction |-> "entry", device |-> "door", unknown |-> FALSE]
Out(t)      == [at |-> t, direction |-> "exit", device |-> "door", unknown |-> FALSE]
Face(t, dv) == [at |-> t, direction |-> "entry", device |-> dv, unknown |-> TRUE]

Utc      == [change |-> 0, before |-> 0, after |-> 0]
Rules    == [late |-> 10, early |-> 10, bonus |-> 5]
DayDept  == [start |-> 8 * Hour, end |-> 17 * Hour, overnight |-> FALSE, ordinary |-> 480,
             lunch_mode |-> "fixed", lunch |-> 60, shift_type |-> "day"]
LongDept == [DayDept EXCEPT !.start = 6 * Hour, !.end = 20 * Hour, !.lunch = 0]
NightDept == [DayDept EXCEPT !.start = 22 * Hour, !.end = 6 * Hour, !.overnight = TRUE,
              !.lunch_mode = "punch", !.lunch = 30, !.shift_type = "night"]

Plain == [dept |-> DayDept, rules |-> Rules, zone |-> Utc, kind |-> "daily", base |-> 97,
          days |-> {28}, punches |-> {}, overrides |-> {}, leave |-> {}, hire |-> {1},
          ends |-> {}, nights |-> FALSE, ref |-> 28, requests |-> {}]

(* Punches of one day: duplicates, a break, a tie, odd ones, strangers.     *)
Pairing == [Plain EXCEPT
  !.dept = [DayDept EXCEPT !.lunch_mode = "punch"],
  !.punches = {In(At(28, 8, 16)), In(At(28, 9, 0)), Out(At(28, 9, 0)), Out(At(28, 12, 0)),
               In(At(28, 13, 0) + 30), Out(At(28, 16, 40)),
               Face(At(28, 10, 0), "door"), Face(At(28, 10, 0), "gate")}]

(* A week of long days over the turn of the year.                           *)
Week == [Plain EXCEPT
  !.dept = LongDept, !.days = 30..32, !.ref = 31, !.nights = TRUE,
  !.punches = UNION {{In(At(d, 6, 0)), Out(At(d, 20, 0))} : d \in 30..32}]

(* Two nights, the second into a Saturday, with the clock set back or       *)
(* forward within the shift.                                                *)
Nights(change, before, after) == [Plain EXCEPT
  !.dept = NightDept, !.days = 32..33, !.ref = 33, !.kind = "monthly", !.base = 151,
  !.zone = [change |-> change, before |-> before, after |-> after],
  !.punches = {In(At(32, 22, 0) - before), Out(At(33, 6, 10) - after),
               In(At(33, 21, 50) - after), Out(At(34, 6, 0) - after)}]

SetBack  == Nights(At(33, 6, 30) + 4 * Hour, -4 * Hour, -5 * Hour)
SetAhead == Nights(At(33, 5, 30) + 5 * Hour, -5 * Hour, -4 * Hour)
NoChange == Nights(0, -4 * Hour, -4 * Hour)

(* A leave over the middle of a month.                                      *)
Month == [Plain EXCEPT
  !.days = 15..16, !.ref = 15, !.hire = {3},
  !.punches = {In(At(15, 8, 0)), Out(At(15, 17, 0)), In(At(16, 8, 0)), Out(At(16, 12, 0))},
  !.leave = {[type |-> "vacation", from |-> 15, to |-> 16]}]

(* Overrides with and without minutes, and an employee who leaves at nine   *)
(* in the evening, west of Greenwich.                                       *)
Leaver == [Month EXCEPT
  !.overrides = {{}, {600}, {-60}}, !.leave = {}, !.ends = {At(16, 21, 0) + 4 * Hour},
  !.days = {16}, !.punches = {In(At(16, 8, 0)), Out(At(16, 12, 0)), Out(At(16, 16, 59))}]

Request(period, from, to, format) ==
  [period |-> period, from |-> from, to |-> to, filter |-> {}, format |-> format]

(* Reports while the leave of a worked day comes and goes.                  *)
Reporting == [Month EXCEPT
  !.days = {15}, !.punches = {In(At(15, 8, 0)), Out(At(15, 17, 0))},
  !.leave = {[type |-> "medical", from |-> 15, to |-> 15]},
  !.requests = {Request("custom", 15, 16, "json"), Request("weekly", 16, 16, "excel"),
                Request("custom", 16, 15, "json"), Request("yearly", 1, 1, "json"),
                [Request("monthly", 15, 15, "excel") EXCEPT !.filter = {"night"}]}]

(* Salaries: by the hour, without a unit, too large, an empty ordinary day. *)
Salary(kind, base, ordinary) == [Plain EXCEPT
  !.kind = kind, !.base = base, !.hire = {}, !.days = {33}, !.ref = 33,
  !.dept = [LongDept EXCEPT !.ordinary = ordinary, !.lunch_mode = "none"],
  !.punches = {In(At(33, 6, 0)), Out(At(33, 8, 0)), Out(At(33, 19, 59) + 59)}]

MCSettings ==
  {Pairing, Week, SetBack, SetAhead, NoChange, Month, Leaver, Reporting,
   Salary("hourly", 7, 60), Salary("none", 97, 480), Salary("daily", 900000, 480),
   Salary("daily", 97, 0)}
WeekOnly == {Week}
Months == {1, 32, 63}
Years == {1, 32}
=============================================================================
