--------------------------------- MODULE Kyc ---------------------------------
(***************************************************************************)
(* The KYC documents of one organization and the status derived from them  *)
(* (app/services/kyc.py).  Uploads and reviews commit the document's row;  *)
(* the organization's status is computed and committed afterwards, in a    *)
(* transaction of its own.                                                 *)
(***************************************************************************)
EXTENDS Integers, Sequences, FiniteSets

CONSTANTS
  DOC_TYPES,   \* documents every organization must hand in
  Requests,    \* requests served at the same time
  MaxRows, MaxFiles  \* bounds

KycAssumption == DOC_TYPES # {} /\ MaxRows \in Nat /\ MaxFiles \in Nat

VARIABLES
  rows,    \* kyc_documents
  status,  \* organizations.kyc_status
  files,   \* files uploaded so far
  work,    \* what each request has read and not yet written
  alone,   \* history: requests that no other overlapped
  raced    \* history: a request has overlapped or died since one last ran alone

vars == <<rows, status, files, work, alone, raced>>

STATUSES == {"PENDING", "APPROVED", "REJECTED"}

NoWork == [step |-> "none"]

Document == [type : DOC_TYPES, file : Nat, status : STATUSES]

\* What a request holds between its reads and its writes.  row: the document's row, 0
\* for a new one; old: as it was read; new: as it is written
Works ==
  {NoWork} \cup [step : {"commit"}, row : Nat, old : Document, new : Document]
    \cup [step : {"recompute"}] \cup [step : {"write"}, old : STATUSES, new : STATUSES]

TypeOK ==
  /\ rows \in Seq(Document) /\ status \in STATUSES /\ files \in Nat
  /\ work \in [Requests -> Works]
  /\ \A r \in Requests : work[r].step = "commit" => work[r].row <= Len(rows)
  /\ alone \subseteq Requests /\ raced \in BOOLEAN

Init ==
  /\ rows = <<>> /\ status = "PENDING" /\ files = 0
  /\ work = [r \in Requests |-> NoWork]
  /\ alone = {} /\ raced = FALSE

------------------------------------------------------------------------------

Busy == {r \in Requests : work[r] # NoWork}

Begin(r, row, old, new) ==
  /\ work[r] = NoWork
  /\ work' = [work EXCEPT ![r] = [step |-> "commit", row |-> row, old |-> old, new |-> new]]
  /\ alone' = IF Busy = {} THEN {r} ELSE {}
  /\ raced' = (raced \/ Busy # {})
  /\ UNCHANGED <<rows, status>>

\* The row a query's first() finds, 0 for none
First(type) ==
  LET found == {i \in DOMAIN rows : rows[i].type = type}
  IN  IF \E i \in found : \A j \in found : i <= j
      THEN CHOOSE i \in found : \A j \in found : i <= j ELSE 0

\* _save_kyc_document: the row of the type is replaced, and pending again
Upload(r, type) ==
  LET i   == First(type)
      new == [type |-> type, file |-> files + 1, status |-> "PENDING"]
  IN
  /\ files < MaxFiles /\ (i = 0 => Len(rows) < MaxRows)
  /\ files' = files + 1
  /\ Begin(r, i, IF i = 0 THEN new ELSE rows[i], new)

super_admin_kyc_document_approve(r, i) ==
  /\ Begin(r, i, rows[i], [rows[i] EXCEPT !.status = "APPROVED"])
  /\ UNCHANGED files

\* A reason is required
super_admin_kyc_document_reject(r, i) ==
  /\ Begin(r, i, rows[i], [rows[i] EXCEPT !.status = "REJECTED"])
  /\ UNCHANGED files

\* The columns that changed are written, over the row as it is now
Written(row, old, new) == [x \in DOMAIN row |-> IF new[x] # old[x] THEN new[x] ELSE row[x]]

Commit(r) ==
  LET w == work[r] IN
  /\ w.step = "commit"
  /\ rows' = IF w.row = 0 THEN Append(rows, w.new)
             ELSE [rows EXCEPT ![w.row] = Written(@, w.old, w.new)]
  /\ work' = [work EXCEPT ![r] = [step |-> "recompute"]]
  /\ UNCHANGED <<status, files, alone, raced>>

\* Mutant: the documents that are there are enough.
DerivedFromRows ==
  IF \E i \in DOMAIN rows : rows[i].status = "REJECTED" THEN "REJECTED"
  ELSE IF \A i \in DOMAIN rows : rows[i].status = "APPROVED" THEN "APPROVED" ELSE "PENDING"

\* recompute_organization_kyc_status
Derived ==
  IF \E i \in DOMAIN rows : rows[i].status = "REJECTED" THEN "REJECTED"
  ELSE IF /\ DOC_TYPES \subseteq {rows[i].type : i \in DOMAIN rows}
          /\ \A i \in DOMAIN rows : rows[i].status = "APPROVED" THEN "APPROVED"
  ELSE "PENDING"

Recompute(r) ==
  /\ work[r].step = "recompute"
  /\ work' = [work EXCEPT ![r] = [step |-> "write", old |-> status, new |-> Derived]]
  /\ UNCHANGED <<rows, status, files, alone, raced>>

\* A request that ran alone leaves the status right
Write(r) ==
  /\ work[r].step = "write"
  /\ status' = IF work[r].new # work[r].old THEN work[r].new ELSE status
  /\ work' = [work EXCEPT ![r] = NoWork]
  /\ raced' = (raced /\ r \notin alone)
  /\ UNCHANGED <<rows, files, alone>>

\* The worker is killed
Crash(r) ==
  /\ work[r] # NoWork
  /\ work' = [work EXCEPT ![r] = NoWork]
  /\ raced' = TRUE
  /\ UNCHANGED <<rows, status, files, alone>>

Next ==
  \/ \E r \in Requests, type \in DOC_TYPES : Upload(r, type)
  \/ \E r \in Requests, i \in DOMAIN rows :
       super_admin_kyc_document_approve(r, i) \/ super_admin_kyc_document_reject(r, i)
  \/ \E r \in Requests : Commit(r) \/ Recompute(r) \/ Write(r) \/ Crash(r)

Spec == Init /\ [][Next]_vars

------------------------------------------------------------------------------
(* Properties                                                               *)

Types == {rows[i].type : i \in DOMAIN rows}

\* The rule of kyc.py: when nothing is in progress the organization is approved
\* exactly with every document approved, rejected with one rejected, and one request
\* that runs undisturbed repairs whatever overlapping requests or a crash left.
KycStatusFollows ==
  Busy = {} /\ ~raced =>
    /\ status = "REJECTED" <=> \E i \in DOMAIN rows : rows[i].status = "REJECTED"
    /\ status = "APPROVED" <=> Types = DOC_TYPES /\ \A i \in DOMAIN rows : rows[i].status = "APPROVED"

------------------------------------------------------------------------------
(* The invariant behind it                                                  *)

\* A request that nobody overlapped is the only one at work, and what it is about to
\* write is right.
AloneIsRight ==
  \A r \in alone :
    work[r] # NoWork =>
      /\ Busy = {r}
      /\ work[r].step = "write" => work[r].old = status /\ work[r].new = Derived

\* Without a race the status is right, or a lone request is about to make it so.
RightOrRepaired ==
  ~raced => (IF Busy = {} THEN status = Derived ELSE \E r \in alone : work[r] # NoWork)

IInv == TypeOK /\ AloneIsRight /\ RightOrRepaired
==============================================================================
