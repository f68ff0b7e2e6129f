------------------------------ MODULE FollowUps ------------------------------
(***************************************************************************)
(* Follow-up checkpoints of placed candidates and the notifications about  *)
(* overdue ones.  Whoever opens a placement makes the checkpoints, whoever *)
(* opens the notifications makes those of overdue checkpoints: each looks  *)
(* first and inserts later, and no key of the tables stops a second row.   *)
(***************************************************************************)
EXTENDS Integers

CONSTANTS
  Cands, Names,       \* candidates, and names that may be shared
  FOLLOW_UP_CHECKPOINTS,  \* label -> days after the joining date
  Requests,           \* requests served at the same time
  MaxDay, MaxMade     \* bounds

Labels == DOMAIN FOLLOW_UP_CHECKPOINTS

FollowUpsAssumption ==
  /\ FOLLOW_UP_CHECKPOINTS \in [Labels -> Nat] /\ Labels # {}
  /\ MaxDay \in Nat /\ MaxMade \in Nat

VARIABLES
  full_name,      \* of each candidate
  joining_date,   \* of each candidate, NoDate for one without a placement
  today,
  checkpoints,    \* follow_up_checkpoints
  notifications,  \* those of overdue checkpoints
  made,           \* rows inserted so far, for their ids
  work,           \* what each request has read
  raced           \* history: candidates whose rows two requests made at the same time

vars == <<full_name, joining_date, today, checkpoints, notifications, made, work, raced>>

NoDate == MaxDay + 1

\* completed: completed or missed, which differ only on the screen
STATUSES == {"pending", "completed"}

\* first: made by the n-th insert into the table
Checkpoint   == [cand : Cands, label : Labels, due_date : Nat, first : Nat,
                 status : STATUSES]
Notification == [name : Names, label : Labels, cand : Cands, is_read : BOOLEAN, first : Nat]

\* What a request has read: no checkpoint of a candidate; overdue checkpoints, those left
\* and the one that nobody was told of
Ensuring == [does : {"ensure"}, cand : Cands]
Syncing  == [does : {"sync"}, left : SUBSET Checkpoint, new : SUBSET Checkpoint]

TypeOK ==
  /\ full_name \in [Cands -> Names] /\ joining_date \in [Cands -> 0 .. NoDate]
  /\ today \in 0 .. MaxDay /\ made \in Nat
  /\ checkpoints \subseteq Checkpoint /\ notifications \subseteq Notification
  /\ \A x \in checkpoints \cup notifications : x.first <= made
  /\ DOMAIN work \subseteq Requests /\ work \in [DOMAIN work -> Ensuring \cup Syncing]
  /\ \A r \in DOMAIN work : work[r].does = "sync" => work[r].new \subseteq work[r].left
  /\ raced \subseteq Cands

Init ==
  /\ full_name \in [Cands -> Names] /\ joining_date = [c \in Cands |-> NoDate]
  /\ today = 0 /\ checkpoints = {} /\ notifications = {} /\ made = 0
  /\ work = [r \in {} |-> {}] /\ raced = {}

------------------------------------------------------------------------------
(* Checkpoints                                                              *)

Begin(r, w) == work' = [q \in DOMAIN work \cup {r} |-> IF q = r THEN w ELSE work[q]]

Drop(r) == work' = [q \in DOMAIN work \ {r} |-> work[q]]

\* candidate_report_placement, organization_candidate_edit
Join(c) ==
  /\ joining_date' = [joining_date EXCEPT ![c] = today]
  /\ UNCHANGED <<full_name, today, checkpoints, notifications, made, work, raced>>

\* Mutant: only open checkpoints are counted.
OpenRows(c) == {k \in checkpoints : k.cand = c /\ k.status = "pending"}

RowsOf(c) == {k \in checkpoints : k.cand = c}

\* ensure_follow_ups: there is a joining date, and no row yet
Ensure(r, c) ==
  /\ r \in Requests \ DOMAIN work /\ joining_date[c] # NoDate /\ RowsOf(c) = {}
  /\ Begin(r, [does |-> "ensure", cand |-> c])
  /\ raced' = IF \E q \in DOMAIN work : work[q].does = "ensure" /\ work[q].cand = c
              THEN raced \cup {c} ELSE raced
  /\ UNCHANGED <<full_name, joining_date, today, checkpoints, notifications, made>>

Insert(r) ==
  LET c == work[r].cand IN
  /\ r \in DOMAIN work /\ work[r].does = "ensure" /\ made < MaxMade
  /\ made' = made + 1
  /\ checkpoints' = checkpoints \cup
       {[cand |-> c, label |-> l, due_date |-> joining_date[c] + FOLLOW_UP_CHECKPOINTS[l],
         first |-> made + 1, status |-> "pending"] : l \in Labels}
  /\ Drop(r)
  /\ UNCHANGED <<full_name, joining_date, today, notifications, raced>>

\* organization_placement_checkpoint_update, organization_tracking_checkpoint_update
Update(k, status) ==
  /\ checkpoints' = (checkpoints \ {k}) \cup {[k EXCEPT !.status = status]}
  /\ UNCHANGED <<full_name, joining_date, today, notifications, made, work, raced>>

\* organization_tracking_checkpoint_delete
Delete(k) ==
  /\ checkpoints' = checkpoints \ {k}
  /\ UNCHANGED <<full_name, joining_date, today, notifications, made, work, raced>>

------------------------------------------------------------------------------
(* Notifications                                                            *)

\* _sync_overdue_notifications: the overdue checkpoints are read
Sync(r) ==
  LET overdue == {k \in checkpoints : k.status = "pending" /\ k.due_date < today} IN
  /\ r \in Requests \ DOMAIN work /\ overdue # {}
  /\ Begin(r, [does |-> "sync", left |-> overdue, new |-> {}])
  /\ UNCHANGED <<full_name, joining_date, today, checkpoints, notifications, made, raced>>

\* Mutant: a notification that was read does not count.
ToldUnread(k) ==
  \E n \in notifications : n.name = full_name[k.cand] /\ n.label = k.label /\ ~n.is_read

\* By the title, whichever candidate it was made for and whether it was read
Told(k) == \E n \in notifications : n.name = full_name[k.cand] /\ n.label = k.label

Next1(r, k) ==
  IF work[r].left = {k} THEN Drop(r)
  ELSE work' = [work EXCEPT ![r].left = @ \ {k}, ![r].new = {}]

Skip(r, k) ==
  /\ r \in DOMAIN work /\ work[r].does = "sync" /\ k \in work[r].left /\ work[r].new = {}
  /\ Told(k) /\ Next1(r, k)
  /\ UNCHANGED <<full_name, joining_date, today, checkpoints, notifications, made, raced>>

NotTold(r, k) ==
  /\ r \in DOMAIN work /\ work[r].does = "sync" /\ k \in work[r].left /\ work[r].new = {}
  /\ ~Told(k)
  /\ work' = [work EXCEPT ![r].new = {k}]
  /\ raced' = IF \E q \in DOMAIN work : work[q].does = "sync" /\ work[q].new # {}
              THEN Cands ELSE raced
  /\ UNCHANGED <<full_name, joining_date, today, checkpoints, notifications, made>>

\* _create_notification
Tell(r, k) ==
  /\ r \in DOMAIN work /\ work[r].does = "sync" /\ k \in work[r].new /\ made < MaxMade
  /\ made' = made + 1
  /\ notifications' = notifications \cup
       {[name |-> full_name[k.cand], label |-> k.label, cand |-> k.cand, is_read |-> FALSE,
         first |-> made + 1]}
  /\ Next1(r, k)
  /\ UNCHANGED <<full_name, joining_date, today, checkpoints, raced>>

\* notification_mark_read, notification_open
Read(n) ==
  /\ notifications' = (notifications \ {n}) \cup {[n EXCEPT !.is_read = TRUE]}
  /\ UNCHANGED <<full_name, joining_date, today, checkpoints, made, work, raced>>

\* notifications_mark_all_read
ReadAll ==
  /\ notifications' = {[n EXCEPT !.is_read = TRUE] : n \in notifications}
  /\ UNCHANGED <<full_name, joining_date, today, checkpoints, made, work, raced>>

\* notification_delete
Remove(n) ==
  /\ notifications' = notifications \ {n}
  /\ UNCHANGED <<full_name, joining_date, today, checkpoints, made, work, raced>>

\* notifications_clear_read
ClearRead ==
  /\ notifications' = {n \in notifications : ~n.is_read}
  /\ UNCHANGED <<full_name, joining_date, today, checkpoints, made, work, raced>>

\* The worker is killed
Crash(r) ==
  /\ r \in DOMAIN work /\ Drop(r)
  /\ UNCHANGED <<full_name, joining_date, today, checkpoints, notifications, made, raced>>

Tick ==
  /\ today < MaxDay /\ today' = today + 1
  /\ UNCHANGED <<full_name, joining_date, checkpoints, notifications, made, work, raced>>

Next ==
  \/ \E c \in Cands : Join(c)
  \/ \E r \in Requests, c \in Cands : Ensure(r, c)
  \/ \E r \in Requests : Insert(r) \/ Sync(r) \/ Crash(r)
  \/ \E k \in checkpoints, status \in STATUSES : Update(k, status)
  \/ \E k \in checkpoints : Delete(k)
  \/ \E r \in Requests : \E k \in IF r \in DOMAIN work /\ work[r].does = "sync" THEN work[r].left ELSE {} :
       Skip(r, k) \/ NotTold(r, k) \/ Tell(r, k)
  \/ \E n \in notifications : Read(n) \/ Remove(n)
  \/ ReadAll \/ ClearRead \/ Tick

Spec == Init /\ [][Next]_vars

------------------------------------------------------------------------------
(* Properties                                                               *)

\* A candidate has each checkpoint once, whatever was completed, missed or deleted and
\* however often the placement is opened, unless two requests first opened it together.
OneCheckpointEach ==
  \A k, l \in checkpoints :
    k.cand = l.cand /\ k.label = l.label /\ k.first # l.first => k.cand \in raced

\* The note at the duplicate check: reading notifications does not bring fresh ones for
\* the same checkpoint; two need two requests that sync at the same time.
OverdueToldOnce ==
  \A m, n \in notifications :
    m.name = n.name /\ m.label = n.label /\ m.first # n.first => m.cand \in raced

------------------------------------------------------------------------------
(* The invariant behind them                                                *)

\* Who is to insert the checkpoints of a candidate is alone, and there are none
FirstRows ==
  \A r \in DOMAIN work : work[r].does = "ensure" /\ work[r].cand \notin raced =>
    /\ RowsOf(work[r].cand) = {}
    /\ \A q \in DOMAIN work \ {r} : work[q].does = "ensure" => work[q].cand # work[r].cand

Telling(r) == work[r].does = "sync" /\ work[r].new # {}

\* Who is to tell of a checkpoint is alone, and nobody was told of it
FirstTold ==
  Cands \subseteq raced \/
  /\ \A m, n \in notifications : m.name = n.name /\ m.label = n.label => m.first = n.first
  /\ \A r \in DOMAIN work : Telling(r) =>
       (\A k \in work[r].new : ~Told(k)) /\ \A q \in DOMAIN work : Telling(q) => q = r

IInv == TypeOK /\ OneCheckpointEach /\ FirstRows /\ FirstTold
==============================================================================
