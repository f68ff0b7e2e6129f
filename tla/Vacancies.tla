------------------------------ MODULE Vacancies ------------------------------
(***************************************************************************)
(* The vacancies of one employer.  The staff enter and edit them; a form   *)
(* is checked by itself, and a save writes the columns that differ from    *)
(* the row as the request has read it.                                     *)
(***************************************************************************)
EXTENDS Integers

CONSTANTS
  Ids,        \* vacancies
  Salaries,
  Requests

NoSalary == -1

VacanciesAssumption == "none" \notin Ids /\ Salaries \subseteq Nat

VARIABLES
  employer,   \* employers.status
  vacancies,  \* employer_vacancies
  saves,      \* the columns that each request is to write
  mixed       \* history: vacancies of which two edits overlapped

vars == <<employer, vacancies, saves, mixed>>

Columns == {"salary_min", "salary_max"}

Vacancy == [Columns -> Salaries \cup {NoSalary}]

\* Some of the columns
Part == UNION {[cs -> Salaries \cup {NoSalary}] : cs \in SUBSET Columns}

NoSave == [id |-> "none", columns |-> [c \in {} |-> 0]]

TypeOK ==
  /\ employer \in BOOLEAN /\ mixed \subseteq Ids
  /\ DOMAIN vacancies \subseteq Ids /\ vacancies \in [DOMAIN vacancies -> Vacancy]
  /\ saves \in [Requests -> [id : Ids, columns : Part] \cup {NoSave}]

Init ==
  /\ employer = TRUE /\ vacancies = [i \in {} |-> {}] /\ mixed = {}
  /\ saves = [r \in Requests |-> NoSave]

------------------------------------------------------------------------------

InOrder(v) ==
  v["salary_min"] # NoSalary /\ v["salary_max"] # NoSalary => v["salary_min"] <= v["salary_max"]

\* Mutant: the range is checked only when both ends are entered anew.
BothNew(old, v) == (\A c \in Columns : v[c] # old[c]) => InOrder(v)

\* _vacancy_form_values: what was submitted, whatever the row has
Accepted(old, v) == InOrder(v)

Save(r, id, columns) ==
  /\ saves[r] = NoSave
  /\ saves' = [saves EXCEPT ![r] = [id |-> id, columns |-> columns]]
  /\ UNCHANGED <<employer, vacancies>>

Saving(id) == {r \in Requests : saves[r].id = id}

\* A new vacancy has a new id
organization_vacancy_create(r, id, v) ==
  /\ employer /\ id \notin DOMAIN vacancies /\ Saving(id) = {}
  /\ Accepted([c \in Columns |-> NoSalary], v)
  /\ Save(r, id, v) /\ UNCHANGED mixed

organization_vacancy_edit(r, id, v) ==
  /\ employer /\ id \in DOMAIN vacancies /\ Accepted(vacancies[id], v)
  /\ Save(r, id, [c \in {k \in Columns : v[k] # vacancies[id][k]} |-> v[c]])
  /\ mixed' = mixed \cup {i \in {id} : Saving(i) # {}}

\* The row with the columns that a save writes; all of them when it is new
Written(q) ==
  IF q.id \in DOMAIN vacancies
  THEN [c \in Columns |-> IF c \in DOMAIN q.columns THEN q.columns[c] ELSE vacancies[q.id][c]]
  ELSE q.columns

Commit(r) ==
  LET q == saves[r] IN
  /\ q # NoSave
  /\ vacancies' = [i \in DOMAIN vacancies \cup {q.id} |->
                     IF i = q.id THEN Written(q) ELSE vacancies[i]]
  /\ saves' = [saves EXCEPT ![r] = NoSave]
  /\ mixed' = IF DOMAIN q.columns = Columns THEN mixed \ {i \in {q.id} : Saving(i) = {r}} ELSE mixed
  /\ UNCHANGED employer

\* The worker is killed
Lost(r) ==
  /\ saves[r] # NoSave /\ saves' = [saves EXCEPT ![r] = NoSave]
  /\ UNCHANGED <<employer, vacancies, mixed>>

\* organization_employer_delete; its vacancies stay
organization_employer_delete ==
  /\ employer /\ employer' = FALSE
  /\ UNCHANGED <<vacancies, saves, mixed>>

Next ==
  \/ \E r \in Requests : Commit(r) \/ Lost(r)
  \/ \E r \in Requests, id \in Ids, v \in Vacancy :
       organization_vacancy_create(r, id, v) \/ organization_vacancy_edit(r, id, v)
  \/ organization_employer_delete

Spec == Init /\ [][Next]_vars

------------------------------------------------------------------------------
(* Properties                                                               *)

\* "Maximum salary cannot be less than minimum salary" also holds of the row, which
\* is put together from the columns of several forms, until two edits of the same
\* vacancy overlap and afterwards again once a form has written both ends.
SalaryRange == \A id \in DOMAIN vacancies \ mixed : InOrder(vacancies[id])

------------------------------------------------------------------------------
(* The invariant behind it                                                  *)

\* A save that writes every column has them in order; one of a vacancy whose edits did
\* not overlap is alone and leaves the row in order
Pending(r) ==
  LET q == saves[r] IN
  q # NoSave =>
    /\ DOMAIN q.columns = Columns => InOrder(q.columns)
    /\ q.id \in DOMAIN vacancies \/ DOMAIN q.columns = Columns
    /\ q.id \notin mixed => Saving(q.id) = {r} /\ InOrder(Written(q))

IInv ==
  /\ TypeOK /\ mixed \subseteq DOMAIN vacancies
  /\ SalaryRange /\ \A r \in Requests : Pending(r)
==============================================================================
