----------------------------- MODULE Attendance ------------------------------
(***************************************************************************)
(* Batches of an organization and the attendance of their candidates.  A   *)
(* page shows a batch's sheet for a day; it is sent back as a whole, the   *)
(* rows that are there are updated and the others inserted in one commit.  *)
(***************************************************************************)
EXTENDS Integers, Sequences

CONSTANTS
  Cands,
  Batches, NoBatch,
  Dates,
  STATUSES,
  Requests,  \* sheets open at the same time
  present    \* the status shown for who is not marked

AttendanceAssumption == NoBatch \notin Batches /\ present \in STATUSES

VARIABLES
  batches,     \* batches that are there
  batch_of,    \* candidates.batch_id
  attendance,  \* rows of a candidate and a day
  sheets       \* what each page shows, and what it is saving

vars == <<batches, batch_of, attendance, sheets>>

Row == [batch : Batches, status : STATUSES]

\* Statuses of some candidates
Marks == UNION {[cs -> STATUSES] : cs \in SUBSET Cands}

\* marks: of the sheet's candidates.  old: of those that had a row when it was sent
Sheet == [at : {"none", "shown", "saving"}, batch : Batches \cup {NoBatch}, marks : Marks, old : Marks]

NoMarks == [c \in {} |-> present]

NoSheet == [at |-> "none", batch |-> NoBatch, marks |-> NoMarks, old |-> NoMarks]

TypeOK ==
  /\ batches \subseteq Batches
  /\ batch_of \in [Cands -> batches \cup {NoBatch}]
  /\ attendance \in [Cands \X Dates -> Seq(Row)]
  /\ \A k \in Cands \X Dates : \A i \in DOMAIN attendance[k] : attendance[k][i].batch \in batches
  /\ sheets \in [Requests \X Dates -> Sheet]

Init ==
  /\ batches = {} /\ batch_of = [c \in Cands |-> NoBatch]
  /\ attendance = [k \in Cands \X Dates |-> <<>>]
  /\ sheets = [k \in Requests \X Dates |-> NoSheet]

------------------------------------------------------------------------------
(* Batches                                                                  *)

\* organization_batch_create; an id is not used again
organization_batch_create(b) ==
  /\ b \notin batches /\ \A k \in DOMAIN sheets : sheets[k].batch # b
  /\ batches' = batches \cup {b}
  /\ UNCHANGED <<batch_of, attendance, sheets>>

\* Mutant: rows of the attendance do not name the batch.
NoneInside(b) == \A c \in Cands : batch_of[c] # b

\* The foreign keys of candidates and of attendance
Unreferenced(b) ==
  /\ \A c \in Cands : batch_of[c] # b
  /\ \A k \in DOMAIN attendance : \A i \in DOMAIN attendance[k] : attendance[k][i].batch # b

organization_batch_delete(b) ==
  /\ b \in batches /\ Unreferenced(b)
  /\ batches' = batches \ {b}
  /\ UNCHANGED <<batch_of, attendance, sheets>>

\* organization_candidate_edit
Move(c, b) ==
  /\ b \in (batches \cup {NoBatch}) \ {batch_of[c]}
  /\ batch_of' = [batch_of EXCEPT ![c] = b]
  /\ UNCHANGED <<batches, attendance, sheets>>

------------------------------------------------------------------------------
(* Sheets                                                                   *)

Members(b) == {c \in Cands : batch_of[c] = b}

\* The last row of the batch is shown; the report counts the rows of any batch
Shown(c, b, d) ==
  LET rows == {i \in DOMAIN attendance[<<c, d>>] : attendance[<<c, d>>][i].batch = b} IN
  IF rows = {} THEN present
  ELSE attendance[<<c, d>>][CHOOSE i \in rows : \A j \in rows : j <= i].status

\* organization_attendance
organization_attendance(r, b, d) ==
  /\ sheets[<<r, d>>].at # "saving" /\ b \in batches
  /\ sheets' = [sheets EXCEPT ![<<r, d>>] =
       [NoSheet EXCEPT !.at = "shown", !.batch = b,
                       !.marks = [c \in Members(b) |-> Shown(c, b, d)]]]
  /\ UNCHANGED <<batches, batch_of, attendance>>

\* organization_attendance_mark looks for the rows of the day, of whatever batch
organization_attendance_mark(r, d, marks) ==
  LET s      == sheets[<<r, d>>]
      marked == {c \in DOMAIN s.marks : attendance[<<c, d>>] # <<>>}
  IN
  /\ s.at = "shown" /\ s.batch \in batches
  /\ sheets' = [sheets EXCEPT ![<<r, d>>] =
       [s EXCEPT !.at = "saving", !.marks = marks,
                 !.old = [c \in marked |-> attendance[<<c, d>>][1].status]]]
  /\ UNCHANGED <<batches, batch_of, attendance>>

\* Mutant: a candidate may have several rows for a day.
NoKey(s, c, d) == c \in DOMAIN s.marks

\* uq_attendance_candidate_date, of a row to be inserted
KeyFree(s, c, d) == c \in DOMAIN s.old \/ attendance[<<c, d>>] = <<>>

\* The batch is still there for the rows that name it
Accepted(s, d) ==
  /\ \A c \in DOMAIN s.marks : KeyFree(s, c, d)
  /\ DOMAIN s.marks \subseteq DOMAIN s.old \/ s.batch \in batches

\* A row is updated where the mark is another than it was read
Saved(s, c, d) ==
  CASE c \notin DOMAIN s.marks -> attendance[<<c, d>>]
    [] c \in DOMAIN s.marks \ DOMAIN s.old ->
         Append(attendance[<<c, d>>], [batch |-> s.batch, status |-> s.marks[c]])
    [] OTHER -> IF s.marks[c] = s.old[c] THEN attendance[<<c, d>>]
                ELSE [attendance[<<c, d>>] EXCEPT ![1].status = s.marks[c]]

Save(r, d) ==
  LET s == sheets[<<r, d>>] IN
  /\ s.at = "saving" /\ Accepted(s, d)
  /\ attendance' = [k \in DOMAIN attendance |->
                      IF k[2] = d THEN Saved(s, k[1], d) ELSE attendance[k]]
  /\ sheets' = [sheets EXCEPT ![<<r, d>>] = NoSheet]
  /\ UNCHANGED <<batches, batch_of>>

\* Nothing of the sheet is saved: a key is taken, or the worker is killed
Refused(r, d) ==
  /\ sheets[<<r, d>>].at = "saving"
  /\ sheets' = [sheets EXCEPT ![<<r, d>>] = NoSheet]
  /\ UNCHANGED <<batches, batch_of, attendance>>

Next ==
  \/ \E b \in Batches : organization_batch_create(b) \/ organization_batch_delete(b)
  \/ \E c \in Cands, b \in Batches \cup {NoBatch} : Move(c, b)
  \/ \E r \in Requests, d \in Dates, b \in Batches : organization_attendance(r, b, d)
  \/ \E r \in Requests, d \in Dates :
       \E marks \in [DOMAIN sheets[<<r, d>>].marks -> STATUSES] : organization_attendance_mark(r, d, marks)
  \/ \E r \in Requests, d \in Dates : Save(r, d) \/ Refused(r, d)

Spec == Init /\ [][Next]_vars

------------------------------------------------------------------------------
(* Properties                                                               *)

\* A candidate is marked once a day, whichever sheets, of whichever batches, are
\* saved at the same time.
MarkedOnce == \A k \in DOMAIN attendance : Len(attendance[k]) <= 1

------------------------------------------------------------------------------

IInv == TypeOK /\ MarkedOnce
==============================================================================
