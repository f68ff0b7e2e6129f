------------------------------ MODULE Schedules ------------------------------
(***************************************************************************)
(* Notification schedules (app/services/notification_scheduler.py): every  *)
(* hour each web process looks for schedules that are due, sends their     *)
(* template to the candidates and then writes last_run_at.  Time is        *)
(* counted in hours; month m begins on day FIRST_DAY[m].                   *)
(***************************************************************************)
EXTENDS Integers, FiniteSets

CONSTANTS
  Slots,      \* schedules of one template
  Processes,  \* web processes, and administrators who press Run Now
  HOURS,      \* hours of a day
  WEEK,       \* days of a week
  MONTHS,     \* months of the calendar
  FIRST_DAY,  \* the first day of each, and the day after the last of them
  Fires,      \* hours at which the cron expression fires
  MaxHour     \* bound

SchedulesAssumption ==
  /\ HOURS \in Nat \ {0} /\ WEEK \in Nat \ {0} /\ MaxHour \in Nat /\ Fires \subseteq Nat
  /\ MONTHS \in Nat /\ FIRST_DAY \in [1 .. MONTHS + 1 -> Nat]
  /\ \A m, n \in 1 .. MONTHS + 1 : m < n => FIRST_DAY[m] < FIRST_DAY[n]
  /\ \A h \in 0 .. MaxHour : \E m \in 1 .. MONTHS :
       FIRST_DAY[m] <= h \div HOURS /\ h \div HOURS < FIRST_DAY[m + 1]

VARIABLES
  hour,      \* now
  template,  \* message_templates: the template is missing, active or switched off
  rows,      \* notification_schedules
  run,       \* the run of each process
  served,    \* history: hours at which a run found each schedule due and sent it
  passed,    \* history: the last hour at which a run looked at each and ended well
  again      \* history: schedules whose run overlapped another or did not end well

vars == <<hour, template, rows, run, served, passed, again>>

FREQUENCIES == {"daily", "weekly", "monthly", "custom"}

Never == -1

\* day: day_of_week or day_of_month
Row == {row \in [frequency : FREQUENCIES, day : Nat, is_active : BOOLEAN, last_run_at : Int] :
          row.frequency = "monthly" => row.day # 0}

\* left: schedules not looked at; sending: the one whose messages go out
Run == [left : SUBSET Slots, now : Nat, sending : SUBSET Slots]

TypeOK ==
  /\ hour \in 0 .. MaxHour /\ template \in {"none", "active", "off"}
  /\ DOMAIN rows \subseteq Slots
  /\ \A s \in DOMAIN rows : rows[s] \in Row /\ rows[s].last_run_at \in Never .. hour
  /\ DOMAIN run \subseteq Processes
  /\ \A p \in DOMAIN run : run[p] \in Run /\ run[p].now <= hour
  /\ \A p \in DOMAIN run : run[p].sending \subseteq run[p].left /\ \A s, t \in run[p].sending : s = t
  /\ served \in [Slots -> SUBSET (0 .. hour)] /\ passed \in [Slots -> Never .. hour]
  /\ again \subseteq Slots

Init ==
  /\ hour = 0 /\ template = "none"
  /\ rows = [s \in {} |-> {}] /\ run = [p \in {} |-> {}]
  /\ served = [s \in Slots |-> {}] /\ passed = [s \in Slots |-> Never] /\ again = {}

------------------------------------------------------------------------------
(* The calendar                                                             *)

Day(h) == h \div HOURS

Month(h) == CHOOSE m \in 1 .. MONTHS : FIRST_DAY[m] <= Day(h) /\ Day(h) < FIRST_DAY[m + 1]

MonthLength(m) == FIRST_DAY[m + 1] - FIRST_DAY[m]

WeekDay(h) == Day(h) % WEEK

DayOfMonth(h) == Day(h) - FIRST_DAY[Month(h)] + 1

------------------------------------------------------------------------------
(* _is_due                                                                  *)

\* Mutant: the 31st is awaited in every month.
ThatDay(row, h) == row.day

\* A month without that day: its last day
DueDay(row, h) ==
  IF row.day <= MonthLength(Month(h)) THEN row.day ELSE MonthLength(Month(h))

\* get_next after the last run, or after an hour ago
CronDue(row, h) ==
  LET base == IF row.last_run_at = Never THEN h - 1 ELSE row.last_run_at
  IN  \E f \in Fires : base < f /\ f <= h

MonthlyDue(row, h) ==
  /\ DayOfMonth(h) >= DueDay(row, h)
  /\ row.last_run_at # Never =>
       Day(row.last_run_at) < FIRST_DAY[Month(h)] + DueDay(row, h) - 1

\* Mutant: what ran today runs again.
TodayToo(row, h) ==
  CASE row.frequency = "custom"  -> CronDue(row, h)
    [] row.frequency = "daily"   -> TRUE
    [] row.frequency = "weekly"  -> WeekDay(h) = row.day
    [] row.frequency = "monthly" -> MonthlyDue(row, h)

_is_due(row, h) ==
  \/ row.frequency = "custom" /\ CronDue(row, h)
  \/ /\ row.last_run_at # Never => Day(row.last_run_at) # Day(h)
     /\ \/ row.frequency = "daily"
        \/ row.frequency = "weekly" /\ WeekDay(h) = row.day
        \/ row.frequency = "monthly" /\ MonthlyDue(row, h)

------------------------------------------------------------------------------

\* The hourly job of a process, or Run Now: the active schedules
Start(p) ==
  LET found == {s \in DOMAIN rows : rows[s].is_active}
      new   == [left |-> found, now |-> hour, sending |-> {}]
  IN
  /\ p \in Processes \ DOMAIN run /\ found # {}
  /\ run' = [q \in {p} \cup DOMAIN run |-> IF q = p THEN new ELSE run[q]]
  /\ again' = IF DOMAIN run = {} THEN again ELSE Slots
  /\ UNCHANGED <<hour, template, rows, served, passed>>

Finish(p, s) ==
  IF run[p].left = {s} THEN run' = [q \in DOMAIN run \ {p} |-> run[q]]
  ELSE run' = [run EXCEPT ![p].left = @ \ {s}, ![p].sending = {}]

\* It is not due, its template is inactive, or it was deleted meanwhile
Skip(p, s) ==
  /\ p \in DOMAIN run /\ s \in run[p].left /\ run[p].sending = {}
  /\ s \in DOMAIN rows => template # "active" \/ ~_is_due(rows[s], run[p].now)
  /\ Finish(p, s)
  /\ passed' = IF template = "active" /\ s \in DOMAIN rows THEN [passed EXCEPT ![s] = run[p].now] ELSE passed
  /\ UNCHANGED <<hour, template, rows, served, again>>

\* The messages of the schedule go out
Send(p, s) ==
  /\ p \in DOMAIN run /\ s \in run[p].left /\ run[p].sending = {}
  /\ s \in DOMAIN rows /\ template = "active" /\ _is_due(rows[s], run[p].now)
  /\ run' = [run EXCEPT ![p].sending = {s}]
  /\ served' = [served EXCEPT ![s] = @ \cup {run[p].now}]
  /\ UNCHANGED <<hour, template, rows, passed, again>>

\* last_run_at is the time at the end
Sent(p, s) ==
  /\ p \in DOMAIN run /\ s \in run[p].sending /\ s \in DOMAIN rows
  /\ rows' = [rows EXCEPT ![s].last_run_at = hour]
  /\ Finish(p, s)
  /\ passed' = [passed EXCEPT ![s] = run[p].now]
  /\ UNCHANGED <<hour, template, served, again>>

\* An exception, or the row is gone: the schedule is left as it was
Failed(p, s) ==
  /\ p \in DOMAIN run /\ s \in run[p].sending
  /\ Finish(p, s)
  /\ again' = again \cup {s}
  /\ UNCHANGED <<hour, template, rows, served, passed>>

Crash(p) ==
  /\ p \in DOMAIN run
  /\ run' = [q \in DOMAIN run \ {p} |-> run[q]]
  /\ again' = again \cup run[p].left
  /\ UNCHANGED <<hour, template, rows, served, passed>>

FormDays(frequency) ==
  CASE frequency = "weekly"  -> 0 .. WEEK - 1
    [] frequency = "monthly" -> UNION {1 .. MonthLength(m) : m \in 1 .. MONTHS}
    [] OTHER                 -> {0}

\* super_admin_notification_schedule_create; a new row has no history
Create(s, frequency, day, active) ==
  LET row == [frequency |-> frequency, is_active |-> active, last_run_at |-> Never, day |-> day] IN
  /\ s \notin DOMAIN rows /\ template # "none" /\ \A p \in DOMAIN run : s \notin run[p].left
  /\ rows' = [x \in {s} \cup DOMAIN rows |-> IF x = s THEN row ELSE rows[x]]
  /\ served' = [served EXCEPT ![s] = {}] /\ passed' = [passed EXCEPT ![s] = Never]
  /\ again' = again \ {s}
  /\ UNCHANGED <<hour, template, run>>

\* super_admin_notification_schedule_toggle
Toggle(s) ==
  /\ s \in DOMAIN rows
  /\ rows' = [rows EXCEPT ![s].is_active = ~@]
  /\ UNCHANGED <<hour, template, run, served, passed, again>>

\* super_admin_notification_schedule_delete
Delete(s) ==
  /\ s \in DOMAIN rows
  /\ rows' = [x \in DOMAIN rows \ {s} |-> rows[x]]
  /\ UNCHANGED <<hour, template, run, served, passed, again>>

\* super_admin_message_template_create
CreateTemplate(state) ==
  /\ template = "none" /\ template' = state
  /\ UNCHANGED <<hour, rows, run, served, passed, again>>

\* super_admin_message_template_edit
EditTemplate(state) ==
  /\ template # "none" /\ template' = state
  /\ UNCHANGED <<hour, rows, run, served, passed, again>>

\* super_admin_message_template_delete: its schedules go with it
DeleteTemplate ==
  /\ template # "none" /\ template' = "none"
  /\ rows' = [s \in {} |-> {}]
  /\ UNCHANGED <<hour, run, served, passed, again>>

\* A run lasts at most one hour
Tick ==
  /\ hour < MaxHour /\ hour' = hour + 1
  /\ \A p \in DOMAIN run : run[p].now = hour
  /\ UNCHANGED <<template, rows, run, served, passed, again>>

Next ==
  \/ \E p \in Processes : Start(p) \/ Crash(p)
  \/ \E p \in Processes, s \in Slots : Skip(p, s) \/ Send(p, s) \/ Sent(p, s) \/ Failed(p, s)
  \/ \E s \in Slots, f \in FREQUENCIES, active \in BOOLEAN : \E day \in FormDays(f) : Create(s, f, day, active)
  \/ \E s \in Slots : Toggle(s) \/ Delete(s)
  \/ \E state \in {"active", "off"} : CreateTemplate(state) \/ EditTemplate(state)
  \/ DeleteTemplate \/ Tick

Spec == Init /\ [][Next]_vars

------------------------------------------------------------------------------
(* Properties                                                               *)

\* The period a run at hour h belongs to
Period(row, h) ==
  CASE row.frequency \in {"daily", "weekly"} -> Day(h)
    [] row.frequency = "monthly" -> Month(h)
    [] row.frequency = "custom"  -> Cardinality({f \in Fires : f <= h})

\* A schedule does not fire twice for the same period (last_run_at), unless its run
\* overlapped another one or died after it had sent messages.
OncePerPeriod ==
  \A s \in DOMAIN rows \ again : \A g, h \in served[s] :
    Period(rows[s], g) = Period(rows[s], h) => g = h

\* A schedule that a run looked at on the last day of a period was sent in that
\* period, in short months too; at the latest by a run of the period before that
\* ended after midnight.
EveryPeriod ==
  \A s \in DOMAIN rows \ again :
    LET row == rows[s] IN
    row.frequency # "custom" /\ passed[s] # Never
      /\ (row.frequency = "weekly" => WeekDay(passed[s]) = row.day)
      /\ (row.frequency = "monthly" => DayOfMonth(passed[s]) = MonthLength(Month(passed[s]))) =>
      \/ \E h \in served[s] : Period(row, h) = Period(row, passed[s])
      \/ row.last_run_at # Never /\ Period(row, row.last_run_at) = Period(row, passed[s])

------------------------------------------------------------------------------
(* The invariant behind them                                                *)

\* One run at most has a schedule to look at, and no run has ended for it since that
\* one began.  What a run is sending is noted at its hour.
OneRunEach ==
  \A s \in DOMAIN rows \ again, p \in DOMAIN run :
    s \in run[p].left =>
      /\ \A q \in DOMAIN run : s \in run[q].left => q = p
      /\ rows[s].last_run_at <= run[p].now
      /\ s \in run[p].sending => run[p].now \in served[s]

\* Each time it was sent the day of the month had come, and last_run_at tells, or
\* the run that sent it has not ended.
ServedNoted ==
  \A s \in DOMAIN rows \ again : \A h \in served[s] :
    /\ h <= rows[s].last_run_at \/ \E p \in DOMAIN run : s \in run[p].sending /\ run[p].now = h
    /\ rows[s].frequency = "monthly" => DayOfMonth(h) >= DueDay(rows[s], h)

IInv == TypeOK /\ OneRunEach /\ ServedNoted /\ OncePerPeriod /\ EveryPeriod
==============================================================================
