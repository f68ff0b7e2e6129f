------------------------------ MODULE CallCentre ------------------------------
(***************************************************************************)
(* The call centre of one organization.  A task is one call an executive   *)
(* makes; tasks are put into the table by other programs.  A call is       *)
(* logged once and its log may be corrected; every correction leaves a row *)
(* of its own.  Each form reads the rows first and writes them later.      *)
(***************************************************************************)
EXTENDS Integers, Sequences, FiniteSets

CONSTANTS
  Tasks,
  Dispositions,
  PROTECTED_DISPOSITION_CODES,  \* may not be deactivated, nor chosen (HOLD_DISPOSITION_CODES)
  Durations,  \* values of a log's duration and notes, taken together
  Requests,   \* forms served at the same time
  MaxEdits    \* bound, for each log

CallCentreAssumption ==
  PROTECTED_DISPOSITION_CODES \subseteq Dispositions /\ MaxEdits \in Nat

VARIABLES
  task_status,   \* call_tasks
  active,        \* call_dispositions: status of each row
  logs,          \* call_logs of each task, each with its call_log_edits
  forms,         \* what each form has read and is about to write
  overlapped     \* history: tasks of which two forms were saved at the same time

vars == <<task_status, active, logs, forms, overlapped>>

Values == [disposition : Dispositions, duration : Durations]
Edit   == [old : Values, new : Values]

\* entered: history, the values as they were logged
Log  == [entered : Values, now : Values, edits : Seq(Edit)]
Form == [task : Tasks, log : Nat, old : Values, new : Values]

TypeOK ==
  /\ task_status \in [Tasks -> {"pending", "completed"}]
  /\ DOMAIN active \subseteq Dispositions /\ \A d \in DOMAIN active : active[d] \in BOOLEAN
  /\ logs \in [Tasks -> Seq(Log)]
  /\ DOMAIN forms \subseteq Requests
  /\ \A r \in DOMAIN forms : forms[r] \in Form /\ forms[r].log \in 0 .. Len(logs[forms[r].task])
  /\ overlapped \subseteq Tasks

Init ==
  /\ task_status = [t \in Tasks |-> "pending"]
  /\ active = [d \in PROTECTED_DISPOSITION_CODES |-> TRUE]
  /\ logs = [t \in Tasks |-> <<>>]
  /\ forms = [r \in {} |-> {}] /\ overlapped = {}

------------------------------------------------------------------------------
(* Dispositions                                                             *)

\* super_admin_call_disposition_create; the code is unique
CreateDisposition(d) ==
  /\ d \notin DOMAIN active
  /\ active' = [e \in DOMAIN active \cup {d} |-> IF e = d THEN TRUE ELSE active[e]]
  /\ UNCHANGED <<task_status, logs, forms, overlapped>>

\* super_admin_call_disposition_toggle
ToggleDisposition(d) ==
  /\ d \in DOMAIN active \ PROTECTED_DISPOSITION_CODES
  /\ active' = [active EXCEPT ![d] = ~@]
  /\ UNCHANGED <<task_status, logs, forms, overlapped>>

Offered == {d \in DOMAIN active : active[d]} \ PROTECTED_DISPOSITION_CODES

------------------------------------------------------------------------------
(* Calls                                                                    *)

Close(r) == forms' = [q \in DOMAIN forms \ {r} |-> forms[q]]

\* log: the log that is corrected, 0 for a first one
Open(r, t, i, old, new) ==
  /\ r \in Requests \ DOMAIN forms /\ new.disposition \in Offered
  /\ forms' = [q \in DOMAIN forms \cup {r} |->
                IF q = r THEN [task |-> t, log |-> i, old |-> old, new |-> new] ELSE forms[q]]
  /\ overlapped' = IF \E q \in DOMAIN forms : forms[q].task = t THEN overlapped \cup {t} ELSE overlapped
  /\ UNCHANGED <<task_status, active, logs>>

\* Mutant: a call can be logged for as long as its task is there.
AnyTask(t) == t \in Tasks

NotLogged(t) == task_status[t] # "completed"

\* call_center_log_call
LogCall(r, t, new) == NotLogged(t) /\ Open(r, t, 0, new, new)

SaveLog(r) ==
  LET f == forms[r] IN
  /\ r \in DOMAIN forms /\ f.log = 0
  /\ logs' = [logs EXCEPT ![f.task] = Append(@, [entered |-> f.new, now |-> f.new, edits |-> <<>>])]
  /\ task_status' = [task_status EXCEPT ![f.task] = "completed"]
  /\ Close(r)
  /\ UNCHANGED <<active, overlapped>>

\* call_center_edit_call_log: whichever log first() finds, and something changes
EditLog(r, t, i, new) ==
  /\ task_status[t] = "completed" /\ new # logs[t][i].now
  /\ Len(logs[t][i].edits) < MaxEdits
  /\ Open(r, t, i, logs[t][i].now, new)

\* Mutant: the row of the correction is made from the values already changed.
OldIsNew(f) == f.new

\* Read before they are changed
OldOf(f) == f.old

\* Columns that were changed are written, over the row as it is now
SaveEdit(r) ==
  LET f == forms[r] IN
  /\ r \in DOMAIN forms /\ f.log # 0
  /\ logs' = [logs EXCEPT
       ![f.task][f.log].now = [x \in DOMAIN @ |-> IF f.new[x] # f.old[x] THEN f.new[x] ELSE @[x]],
       ![f.task][f.log].edits = Append(@, [old |-> OldOf(f), new |-> f.new])]
  /\ Close(r)
  /\ UNCHANGED <<task_status, active, overlapped>>

\* The save fails and is rolled back, or the worker is killed
Drop(r) ==
  /\ r \in DOMAIN forms /\ Close(r)
  /\ UNCHANGED <<task_status, active, logs, overlapped>>

Next ==
  \/ \E d \in Dispositions : CreateDisposition(d) \/ ToggleDisposition(d)
  \/ \E r \in Requests, t \in Tasks, new \in Values : LogCall(r, t, new)
  \/ \E r \in Requests, t \in Tasks, new \in Values : \E i \in DOMAIN logs[t] : EditLog(r, t, i, new)
  \/ \E r \in Requests : SaveLog(r) \/ SaveEdit(r) \/ Drop(r)

Spec == Init /\ [][Next]_vars

------------------------------------------------------------------------------
(* Properties                                                               *)

\* A call is logged once, and a completed task has its log: two logs of a task come
\* only from two forms that were sent at the same time.
LoggedOnce ==
  \A t \in Tasks :
    /\ Len(logs[t]) > 1 => t \in overlapped
    /\ task_status[t] = "completed" <=> logs[t] # <<>>

\* "The full history of changes is kept": the corrections of a log lead from what was
\* entered, one to the next, to what it says now, unless two were saved at the same time.
CorrectionsKept ==
  \A t \in Tasks \ overlapped : \A i \in DOMAIN logs[t] :
    LET log == logs[t][i]
        n   == Len(log.edits)
        was == [k \in 1 .. n + 1 |-> IF k = 1 THEN log.entered ELSE log.edits[k - 1].new]
    IN  log.now = was[n + 1] /\ \A k \in 1 .. n : log.edits[k].old = was[k]

------------------------------------------------------------------------------
(* The invariant behind them                                                *)

\* The corrections of a log lead, one to the next, from what was entered to what it says
Was(log, k) == IF k = 1 THEN log.entered ELSE log.edits[k - 1].new

Led(log) ==
  /\ log.now = Was(log, Len(log.edits) + 1)
  /\ \A k \in 1 .. Len(log.edits) : log.edits[k].old = Was(log, k)

OneForm(t) ==
  \A q, r \in DOMAIN forms : forms[q].task = t /\ forms[r].task = t => q = r

\* What a form has read of a call is still so when it is saved
Current(r) ==
  LET t == forms[r].task IN
  IF forms[r].log = 0 THEN logs[t] = <<>> ELSE forms[r].old = logs[t][forms[r].log].now

CompletedWithLog == \A t \in Tasks : task_status[t] = "completed" <=> logs[t] # <<>>

\* A call of which no two forms overlapped
InOrder(t) ==
  /\ OneForm(t) /\ \A r \in DOMAIN forms : forms[r].task = t => Current(r)
  /\ Len(logs[t]) <= 1
  /\ \A i \in DOMAIN logs[t] : Led(logs[t][i])

IInv ==
  /\ TypeOK /\ CompletedWithLog
  /\ \A t \in Tasks \ overlapped : InOrder(t)
==============================================================================
