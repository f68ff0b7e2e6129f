----------------------------- MODULE Candidates -----------------------------
(***************************************************************************)
(* Candidates of one organization, the employers they are placed with and  *)
(* the placements that record it: the candidate, employer and placement    *)
(* forms of app/routes/frontend.py.                                        *)
(*                                                                         *)
(* A request reads the tables in one snapshot (old), computes what it      *)
(* writes (new) and commits: by primary key, only the columns it changed,  *)
(* over whatever other requests committed meanwhile.                       *)
(***************************************************************************)
EXTENDS Integers, Sequences, FiniteSets

CONSTANTS
  Cands,          \* candidates
  Companies,      \* company names
  NoCompany,      \* an empty employer_name
  Roles,          \* job_role, salary, location and joining date together
  Mobiles,        \* mobile numbers
  Forms,          \* what the candidate form may submit
  Limit,          \* candidate_limit of the plan, 0 for none
  Requests,       \* requests served at the same time
  MaxEmployers, MaxPlacements, MaxSaves  \* bounds

Trainings == {"training_started", "training_completed", "dropped_out"}

\* left: working_status says Left (nothing writes the exit date of a candidate)
Form == [mobile : Mobiles, employer : Companies \cup {NoCompany}, left : BOOLEAN,
         role : Roles, training : Trainings, verified : BOOLEAN]

ASSUME CandidatesAssumption ==
  /\ NoCompany \notin Companies /\ Limit \in Nat /\ IsFiniteSet(Cands)
  /\ Forms \subseteq Form /\ Forms # {}
  /\ MaxEmployers \in Nat /\ MaxPlacements \in Nat /\ MaxSaves \in Nat

VARIABLES
  db,      \* the tables: candidates, employers, candidate_placements
  work,    \* units of work of the requests: old and new tables, or NoWork
  saves,   \* commits so far
  raced,   \* history: candidates of which two overlapping saves were committed
  excess   \* history: candidates added beyond the check: restored, or overlapping

vars == <<db, work, saves, raced, excess>>

Columns == [state : {"none", "active", "deleted"}, form : Form]

\* A placement with its verification row
Placement == [cand : Cands, employer : Nat \ {0}, role : Roles, working : BOOLEAN,
              reason : {"", "removed", "left", "moved"}, verified : BOOLEAN]

Tables == [cands : [Cands -> Columns],
           employers : Seq([name : Companies, active : BOOLEAN]),
           placements : Seq(Placement)]

NoWork == [old |-> <<>>, new |-> <<>>]

TypeOK ==
  /\ db \in Tables
  /\ work \in [Requests -> [old : Tables, new : Tables] \cup {NoWork}]
  /\ saves \in Nat /\ raced \subseteq Cands /\ excess \in Nat

Nobody == [cands |-> [c \in Cands |-> [state |-> "none", form |-> CHOOSE form \in Forms : TRUE]],
           employers |-> <<>>, placements |-> <<>>]
------------------------------------------------------------------------------
(* Tables                                                                   *)

Active(d) == {c \in Cands : d.cands[c].state = "active"}

WorkingRows(d, c) ==
  {i \in DOMAIN d.placements : d.placements[i].cand = c /\ d.placements[i].working}

\* The row a query's first() finds, the oldest one; 0 for none
First(rows) ==
  IF \E i \in rows : \A j \in rows : i <= j
  THEN CHOOSE i \in rows : \A j \in rows : i <= j ELSE 0

ActiveEmployer(d, name) ==
  First({e \in DOMAIN d.employers : d.employers[e].name = name /\ d.employers[e].active})

AddEmployer(d, name) == [d EXCEPT !.employers = Append(@, [name |-> name, active |-> TRUE])]

\* Mutant: a candidate who has left keeps the placement.
LeaveLater(d, i, reason) == IF reason = "left" THEN d ELSE
  IF i = 0 THEN d ELSE [d EXCEPT !.placements[i].working = FALSE, !.placements[i].reason = reason]

Leave(d, i, reason) ==
  IF i = 0 THEN d
  ELSE [d EXCEPT !.placements[i].working = FALSE, !.placements[i].reason = reason]

\* Mutant: who comes back to an employer gets the old placement.
PlaceBack(d, c, e, role) ==
  LET i == First({p \in DOMAIN d.placements :
                    d.placements[p].cand = c /\ d.placements[p].employer = e})
  IN  IF i = 0
      THEN [d EXCEPT !.placements = Append(@,
              [cand |-> c, employer |-> e, role |-> role, working |-> TRUE,
               reason |-> "", verified |-> FALSE])]
      ELSE [d EXCEPT !.placements[i].working = TRUE, !.placements[i].reason = ""]

Place(d, c, e, role) ==
  [d EXCEPT !.placements = Append(@,
     [cand |-> c, employer |-> e, role |-> role, working |-> TRUE,
      reason |-> "", verified |-> FALSE])]

\* _sync_candidate_placement: the placements follow the candidate's own fields
Sync(d, c) ==
  LET form  == d.cands[c].form
      i     == First(WorkingRows(d, c))
      known == ActiveEmployer(d, form.employer)
      e     == IF known = 0 THEN Len(d.employers) + 1 ELSE known
      d1    == Leave(IF known = 0 THEN AddEmployer(d, form.employer) ELSE d, i, "moved")
  IN  IF form.employer = NoCompany THEN Leave(d, i, "removed")
      ELSE IF form.left THEN Leave(d, i, "left")
      ELSE IF i # 0 /\ d.placements[i].employer = e
      THEN [d EXCEPT !.placements[i].role = form.role,
                     !.placements[i].verified = form.verified]
      ELSE Place(d1, c, e, form.role)

------------------------------------------------------------------------------
(* Units of work                                                            *)

Begin(r, new) ==
  /\ work[r] = NoWork /\ saves < MaxSaves
  /\ Len(new.employers) <= MaxEmployers /\ Len(new.placements) <= MaxPlacements
  /\ work' = [work EXCEPT ![r] = [old |-> db, new |-> new]]
  /\ UNCHANGED <<db, saves, raced, excess>>

\* A row in the database, with the columns written that differ from those read
Written(row, old, new) ==
  [x \in DOMAIN row |-> IF new[x] # old[x] THEN new[x] ELSE row[x]]

WrittenCand(row, old, new) ==
  [state |-> IF new.state # old.state THEN new.state ELSE row.state,
   form  |-> Written(row.form, old.form, new.form)]

\* Rows that were read are updated, the inserted ones follow
WrittenTable(table, old, new) ==
  [i \in 1 .. Len(table) |-> IF i <= Len(old) THEN Written(table[i], old[i], new[i]) ELSE table[i]]
  \o SubSeq(new, Len(old) + 1, Len(new))

\* employer_code follows those that were read, and is UNIQUE
CodeTaken(r) ==
  /\ Len(work[r].new.employers) > Len(work[r].old.employers)
  /\ Len(db.employers) > Len(work[r].old.employers)

Rows(d, c) == {i \in DOMAIN d.placements : d.placements[i].cand = c}

\* What the tables say of one candidate
View(d, c) == <<d.cands[c], [i \in Rows(d, c) |-> d.placements[i]]>>

Touched(w) == {c \in Cands : View(w.new, c) # View(w.old, c)}

Commit(r) ==
  LET w     == work[r]
      added == Cardinality(Active(w.new) \ Active(w.old))
  IN
  /\ w # NoWork /\ ~CodeTaken(r)
  /\ db' = [cands |-> [c \in Cands |-> WrittenCand(db.cands[c], w.old.cands[c], w.new.cands[c])],
            employers |-> WrittenTable(db.employers, w.old.employers, w.new.employers),
            placements |-> WrittenTable(db.placements, w.old.placements, w.new.placements)]
  /\ raced' = raced \cup {c \in Touched(w) : View(db, c) # View(w.old, c)}
  /\ excess' = IF \/ \E c \in Cands : w.old.cands[c].state = "deleted" /\ w.new.cands[c].state = "active"
                  \/ Cardinality(Active(db)) > Cardinality(Active(w.old))
               THEN excess + added ELSE excess
  /\ saves' = saves + 1
  /\ work' = [work EXCEPT ![r] = NoWork]

\* IntegrityError: the session is rolled back
CommitFails(r) ==
  /\ work[r] # NoWork /\ CodeTaken(r)
  /\ work' = [work EXCEPT ![r] = NoWork]
  /\ UNCHANGED <<db, saves, raced, excess>>

------------------------------------------------------------------------------
(* Candidates                                                               *)

\* A new row has a key of its own
IsNew(c) ==
  /\ db.cands[c].state = "none"
  /\ \A r \in Requests : work[r] # NoWork => work[r].new.cands[c].state = "none"

MobileTaken(d, mobile, c) == \E a \in Active(d) \ {c} : d.cands[a].form.mobile = mobile

\* Mutant: the last place is given away twice.
HasRoomOffByOne(d) == Limit = 0 \/ Cardinality(Active(d)) <= Limit

\* _candidate_limit_status
HasRoom(d) == Limit = 0 \/ Cardinality(Active(d)) < Limit

With(d, c, state, form) == [d EXCEPT !.cands[c] = [state |-> state, form |-> form]]

\* Verification starts as pending, whatever the form says
NewForm(form) == [form EXCEPT !.verified = FALSE]

Created(d, c, form) == Sync(With(d, c, "active", NewForm(form)), c)

\* At most one candidate is enrolled
Init ==
  /\ db \in {Nobody} \cup {Created(Nobody, c, form) : c \in Cands, form \in Forms}
  /\ work = [r \in Requests |-> NoWork]
  /\ saves = 0 /\ raced = {} /\ excess = 0

Create(r, c, form) ==
  /\ IsNew(c) /\ HasRoom(db) /\ ~MobileTaken(db, form.mobile, c)
  /\ Begin(r, Created(db, c, form))

\* A row of the CSV file: no check of the mobile number, no working status, and
\* placed only when it names an employer
Imported(d, c, form) ==
  LET d1 == With(d, c, "active",
                 [NewForm(form) EXCEPT !.left = FALSE, !.training = "training_started"])
  IN  IF form.employer = NoCompany THEN d1 ELSE Sync(d1, c)

\* Rows beyond the room there was when the import began are skipped
Import(r) ==
  \E c1, c2 \in Cands, f1, f2 \in Forms :
    /\ IsNew(c1) /\ IsNew(c2) /\ HasRoom(db)
    /\ LET d1 == Imported(db, c1, f1)
       IN  Begin(r, IF c1 = c2 \/ ~HasRoom(d1) THEN d1 ELSE Imported(d1, c2, f2))

VALID_TRANSITIONS ==
  [training_started |-> {"training_completed", "dropped_out"},
   training_completed |-> {"training_started", "dropped_out"},
   dropped_out |-> {}]

\* Mutant: any status may follow any other.
MovesFreely(from, to) == from \in Trainings /\ to \in Trainings

\* validate_transition
MayMove(from, to) == from = to \/ to \in VALID_TRANSITIONS[from]

Exists(c) == db.cands[c].state # "none"

\* organization_candidate_edit: every field comes from the form
Edit(r, c, form) ==
  LET old == db.cands[c].form IN
  /\ Exists(c)
  /\ form.mobile # old.mobile => ~MobileTaken(db, form.mobile, c)
  /\ MayMove(old.training, form.training)
  /\ Begin(r, Sync(With(db, c, db.cands[c].state, form), c))

Delete(r, c)  == Exists(c) /\ Begin(r, [db EXCEPT !.cands[c].state = "deleted"])
Restore(r, c) == Exists(c) /\ Begin(r, [db EXCEPT !.cands[c].state = "active"])

\* Mutant: verification is stored in the place of the record's state.
VerifiedAsState(d, c) == [d EXCEPT !.cands[c].state = "verified"]

Verified(d, c) == [d EXCEPT !.cands[c].form.verified = TRUE]

\* The placements are synchronized when an employer is named
BulkVerified(d, c) ==
  IF d.cands[c].form.employer = NoCompany THEN Verified(d, c) ELSE Sync(Verified(d, c), c)

BulkVerify(r, c) == Exists(c) /\ Begin(r, BulkVerified(db, c))

\* candidate_report_placement: the candidate names the employer, once
ReportPlacement(r, c, form) ==
  /\ Exists(c) /\ db.cands[c].form.employer = NoCompany /\ form.employer # NoCompany
  /\ Begin(r, Sync([db EXCEPT !.cands[c].form = [@ EXCEPT !.employer = form.employer,
                                                  !.role = form.role, !.left = FALSE]], c))

------------------------------------------------------------------------------
(* Employers and placements                                                 *)

CreateEmployer(r, name) == Begin(r, AddEmployer(db, name))

EditEmployer(r, e, name) ==
  /\ e \in DOMAIN db.employers /\ db.employers[e].active
  /\ Begin(r, [db EXCEPT !.employers[e].name = name])

DeleteEmployer(r, e) ==
  /\ e \in DOMAIN db.employers /\ db.employers[e].active
  /\ Begin(r, [db EXCEPT !.employers[e].active = FALSE])

\* organization_placement_verify
VerifyPlacement(r, i) ==
  /\ i \in DOMAIN db.placements /\ db.placements[i].working /\ ~db.placements[i].verified
  /\ Begin(r, [Verified(db, db.placements[i].cand) EXCEPT !.placements[i].verified = TRUE])

CandidateStep(r) ==
  \/ Import(r)
  \/ \E c \in Cands : Delete(r, c) \/ Restore(r, c) \/ BulkVerify(r, c)
  \/ \E c \in Cands, form \in Forms :
       Create(r, c, form) \/ Edit(r, c, form) \/ ReportPlacement(r, c, form)

EmployerStep(r) ==
  \/ \E name \in Companies : CreateEmployer(r, name)
  \/ \E e \in 1 .. MaxEmployers : DeleteEmployer(r, e)
  \/ \E e \in 1 .. MaxEmployers, name \in Companies : EditEmployer(r, e, name)
  \/ \E i \in 1 .. MaxPlacements : VerifyPlacement(r, i)

Next == \E r \in Requests : Commit(r) \/ CommitFails(r) \/ CandidateStep(r) \/ EmployerStep(r)

Spec == Init /\ [][Next]_vars

------------------------------------------------------------------------------
(* Properties                                                               *)

Employed(d, c) ==
  d.cands[c].state # "none" /\ d.cands[c].form.employer # NoCompany /\ ~d.cands[c].form.left

\* A candidate who works for somebody has exactly one WORKING placement, anybody
\* else has none: over every sequence of forms, imports and reports, whatever is
\* done to the employers meanwhile - unless two saves of the candidate overlapped.
PlacementFollows ==
  \A c \in Cands \ raced :
    Cardinality(WorkingRows(db, c)) = IF Employed(db, c) THEN 1 ELSE 0

\* A placement that was left is history: no save of its candidate changes it, unless
\* two saves overlapped.
HistoryKept ==
  [][\A i \in DOMAIN db.placements :
       ~db.placements[i].working /\ db.placements[i].cand \notin raced'
       => db'.placements[i] = db.placements[i]]_vars

\* A plan's candidate limit is passed only by restored candidates and by
\* creations and imports that overlap.
LimitKept == Limit = 0 \/ Cardinality(Active(db)) <= Limit + excess

\* A candidate who dropped out does not come back into training, unless two saves
\* of the candidate overlapped.
DroppedOutIsFinal ==
  [][\A c \in Cands \ raced' :
       db.cands[c].state # "none" /\ db.cands[c].form.training = "dropped_out"
       => db'.cands[c].form.training = "dropped_out"]_vars
==============================================================================
