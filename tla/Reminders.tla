------------------------------ MODULE Reminders ------------------------------
(***************************************************************************)
(* Reminders to placed candidates to upload their documents                *)
(* (app/services/document_reminders.py).  Every web process runs the job   *)
(* hourly.  A run reads what was sent once, at its start; it mails a       *)
(* candidate and records the mail afterwards.  Days are counted from 0.    *)
(***************************************************************************)
EXTENDS Integers

CONSTANTS
  Cands,                     \* placed candidates with an account and an e-mail
  Processes,                 \* web processes, each with the hourly job
  Steps, DEFAULT_REMINDER_DAY,  \* values of doc_reminder_days, and the first one
  REPEAT_DAYS, GRACE_DAYS,
  MaxDay                     \* bound

RemindersAssumption ==
  /\ Steps \in SUBSET (Nat \ {0}) /\ DEFAULT_REMINDER_DAY \in Steps
  /\ REPEAT_DAYS \in Nat /\ GRACE_DAYS \in Nat \ {0} /\ GRACE_DAYS < REPEAT_DAYS
  /\ MaxDay \in Nat

VARIABLES
  day,      \* today
  step,     \* platform_settings.doc_reminder_days
  joined,   \* joining_date of each candidate
  missing,  \* candidates with a required document missing
  logged,   \* document_reminder_logs: reminder_day of the rows of each candidate
  run,      \* the run of each process
  mails,    \* history: reminders sent
  twice     \* history: reminders that overlapping runs, or a lost record, may repeat

vars == <<day, step, joined, missing, logged, run, mails, twice>>

Mail == [cand : Cands, due : 1 .. MaxDay, joined : 0 .. MaxDay, step : Steps, now : 0 .. MaxDay]

\* left: candidates not done; seen: sent_days; mail: the mail sent and not recorded
Run == [left : SUBSET Cands, now : 0 .. MaxDay, step : Steps,
        seen : [Cands -> SUBSET (1 .. MaxDay)], mail : SUBSET Mail]

TypeOK ==
  /\ day \in 0 .. MaxDay /\ step \in Steps
  /\ joined \in [Cands -> 0 .. MaxDay] /\ missing \subseteq Cands
  /\ logged \in [Cands -> SUBSET (1 .. MaxDay)]
  /\ DOMAIN run \subseteq Processes
  /\ \A p \in DOMAIN run : run[p] \in Run /\ run[p].now <= day /\ \A m, n \in run[p].mail : m = n
  /\ mails \subseteq Mail /\ twice \subseteq Cands \X (1 .. MaxDay)

Init ==
  /\ day = 0 /\ step = DEFAULT_REMINDER_DAY
  /\ joined = [c \in Cands |-> 0] /\ missing = Cands
  /\ logged = [c \in Cands |-> {}]
  /\ run = [p \in {} |-> {}] /\ mails = {} /\ twice = {}

------------------------------------------------------------------------------

\* Midnight; a run lasts less than a day
Tick ==
  /\ day < MaxDay /\ day' = day + 1
  /\ \A p \in DOMAIN run : run[p].now = day
  /\ UNCHANGED <<step, joined, missing, logged, run, mails, twice>>

\* super_admin_document_settings
SetStep(n) ==
  /\ step' = n
  /\ UNCHANGED <<day, joined, missing, logged, run, mails, twice>>

\* organization_candidate_edit: a new joining date
Join(c) ==
  /\ joined' = [joined EXCEPT ![c] = day]
  /\ UNCHANGED <<day, step, missing, logged, run, mails, twice>>

\* _missing_documents: one is uploaded, removed or required from now on
SetMissing(c) ==
  /\ missing' = IF c \in missing THEN missing \ {c} ELSE missing \cup {c}
  /\ UNCHANGED <<day, step, joined, logged, run, mails, twice>>

\* run_document_reminders: the settings, the candidates and their log rows
NewRun == [left |-> Cands, now |-> day, step |-> step, seen |-> logged, mail |-> {}]

Start(p) ==
  /\ p \in Processes \ DOMAIN run
  /\ run' = [q \in {p} \cup DOMAIN run |-> IF q = p THEN NewRun ELSE run[q]]
  /\ UNCHANGED <<day, step, joined, missing, logged, mails, twice>>

Days(p, c) == run[p].now - joined[c]

\* due_day
Due(p, c) == run[p].step + ((Days(p, c) - run[p].step) \div REPEAT_DAYS) * REPEAT_DAYS

\* Mutant: a reminder is late without limit.
NoGrace(p, c) == Days(p, c) >= Due(p, c)

\* Only within GRACE_DAYS of the due day
InGrace(p, c) == Days(p, c) - Due(p, c) < GRACE_DAYS

\* Mutant: only this run's own log is asked.
NotInLeft(p, c) == c \in run[p].left

NotSent(p, c) == Due(p, c) \notin run[p].seen[c]

ToSend(p, c) == Days(p, c) >= run[p].step /\ InGrace(p, c) /\ NotSent(p, c) /\ c \in missing

Finish(p, c) ==
  IF run[p].left = {c} THEN run' = [q \in DOMAIN run \ {p} |-> run[q]]
  ELSE run' = [run EXCEPT ![p].left = @ \ {c}, ![p].mail = {}]

\* There is nothing to send, or the mail fails
Pass(p, c) ==
  /\ p \in DOMAIN run /\ c \in run[p].left /\ run[p].mail = {}
  /\ Finish(p, c)
  /\ UNCHANGED <<day, step, joined, missing, logged, mails, twice>>

\* send_notification_email.  History: another run has sent it and not recorded it
Send(p, c) ==
  LET m == [cand |-> c, due |-> Due(p, c), joined |-> joined[c], step |-> run[p].step,
            now |-> run[p].now]
  IN
  /\ p \in DOMAIN run /\ c \in run[p].left /\ run[p].mail = {} /\ ToSend(p, c)
  /\ mails' = mails \cup {m}
  /\ run' = [run EXCEPT ![p].mail = {m}]
  /\ twice' = IF \E q \in DOMAIN run, n \in mails : n \in run[q].mail /\ n.cand = c /\ n.due = m.due
              THEN twice \cup {<<c, m.due>>} ELSE twice
  /\ UNCHANGED <<day, step, joined, missing, logged>>

\* The row is inserted; one that is there already is an IntegrityError.
\* History: a run that has read the log before may send it too
Record(p, m) ==
  /\ p \in DOMAIN run /\ m \in run[p].mail
  /\ logged' = [logged EXCEPT ![m.cand] = @ \cup {m.due}]
  /\ Finish(p, m.cand)
  /\ twice' = IF \E q \in DOMAIN run \ {p} : m.cand \in run[q].left /\ m.due \notin run[q].seen[m.cand]
              THEN twice \cup {<<m.cand, m.due>>} ELSE twice
  /\ UNCHANGED <<day, step, joined, missing, mails>>

\* The worker is killed, or the row cannot be written
Fail(p) ==
  /\ p \in DOMAIN run
  /\ run' = [q \in DOMAIN run \ {p} |-> run[q]]
  /\ twice' = twice \cup {<<m.cand, m.due>> : m \in run[p].mail}
  /\ UNCHANGED <<day, step, joined, missing, logged, mails>>

Next ==
  \/ Tick
  \/ \E n \in Steps : SetStep(n)
  \/ \E c \in Cands : Join(c) \/ SetMissing(c)
  \/ \E p \in Processes : Start(p) \/ Fail(p)
  \/ \E p \in Processes, c \in Cands : Pass(p, c) \/ Send(p, c)
  \/ \E p \in Processes, m \in mails : Record(p, m)

Spec == Init /\ [][Next]_vars

------------------------------------------------------------------------------
(* Properties                                                               *)

\* Document_reminder_logs makes each reminder go out only once: one that was sent is
\* sent again only by a run that read the log before the other run wrote it, or after
\* a worker died between the mail and its record.
SentOnce ==
  \A m \in UNION {run'[p].mail : p \in DOMAIN run'} :
     (\E n \in mails : n.cand = m.cand /\ n.due = m.due) =>
       \/ <<m.cand, m.due>> \in twice'
       \/ \E p \in DOMAIN run : m \in run[p].mail

ReminderOnce == [][SentOnce]_vars

\* Two different reminders of the same employment and the same setting are more than
\* REPEAT_DAYS - GRACE_DAYS days apart, however late the job comes to each.
RemindersApart ==
  \A m, n \in mails :
    m.cand = n.cand /\ m.joined = n.joined /\ m.step = n.step /\ m.due < n.due =>
      n.now - m.now > REPEAT_DAYS - GRACE_DAYS

------------------------------------------------------------------------------
(* The invariant behind them                                                *)

\* The day that a mail is due is some repetitions after the first one, and the mail
\* went out on that day or within the grace.
MailsInGrace ==
  \A m \in mails :
    /\ m.now - m.joined - m.due \in 0 .. GRACE_DAYS - 1
    /\ \E k \in 0 .. MaxDay : m.due = m.step + k * REPEAT_DAYS

\* A mail that went out is in the hands of a run, or it is in the log and each run
\* that still has its candidate to do knows, or it may go out again.
Held(m) == \E p \in DOMAIN run : \E n \in run[p].mail : n.cand = m.cand /\ n.due = m.due

Known(m) ==
  /\ m.due \in logged[m.cand]
  /\ \A p \in DOMAIN run : m.cand \in run[p].left => m.due \in run[p].seen[m.cand]

MailsKnown == \A m \in mails : <<m.cand, m.due>> \in twice \/ Held(m) \/ Known(m)

MailsOfRuns == \A p \in DOMAIN run : run[p].mail \subseteq mails

IInv == TypeOK /\ MailsInGrace /\ MailsKnown /\ MailsOfRuns
==============================================================================
