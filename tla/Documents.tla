------------------------------ MODULE Documents ------------------------------
(***************************************************************************)
(* Files that belong to a candidate of one organization: joining letter    *)
(* and certificate (columns of the candidate), salary slips and evidence   *)
(* (one row each, UNIQUE), offer letter or placement proof.  An upload     *)
(* looks at the plan's storage, writes the file under a new name, commits  *)
(* the row and deletes the file it replaced; the process may die between.  *)
(***************************************************************************)
EXTENDS Integers, FiniteSets

CONSTANTS
  Slots,      \* what a file may be uploaded for
  Kind,       \* "column", "slip", "evidence" or "proof", of each slot
  Uploads,    \* requests served at the same time
  Limit,      \* storage_limit_mb of the plan, in files
  MaxFiles    \* bound

DocumentsAssumption ==
  /\ Kind \in [Slots -> {"column", "slip", "evidence", "proof"}]
  /\ Limit \in Nat \ {0} /\ MaxFiles \in Nat

VARIABLES
  row,      \* the file each slot names, 0 for none
  disk,     \* files under private_uploads
  next,     \* the next new name
  work,     \* the upload or removal of each request
  lost      \* history: slots whose row was committed and its file removed at once

vars == <<row, disk, next, work, lost>>

\* had: a row was found; old: the file it named
Work == [slot : Slots, step : {"save", "commit", "clear", "delete"}, new : Nat, old : Nat,
         had : BOOLEAN]

NoWork == [step |-> "none"]

TypeOK ==
  /\ row \in [Slots -> 0 .. next - 1] /\ disk \in SUBSET (1 .. next - 1)
  /\ next \in Nat \ {0}
  /\ work \in [Uploads -> Work \cup {NoWork}]
  /\ lost \subseteq {s \in Slots : Kind[s] = "slip"}

Init ==
  /\ row = [s \in Slots |-> 0] /\ disk = {} /\ next = 1
  /\ work = [u \in Uploads |-> NoWork] /\ lost = {}

------------------------------------------------------------------------------

At(u, step) == work[u].step = step

To(u, step) == work' = [work EXCEPT ![u].step = step]

Done(u) == work' = [work EXCEPT ![u] = NoWork]

Begin(u, s, step) ==
  /\ work[u] = NoWork
  /\ work' = [work EXCEPT ![u] = [slot |-> s, step |-> step, new |-> 0, old |-> row[s],
                                  had |-> row[s] # 0]]
  /\ UNCHANGED <<row, disk, next, lost>>

\* Everything on disk counts, whether a row names it or not
_org_storage_used_mb == Cardinality(disk)

\* _storage_block_message
Room == _org_storage_used_mb < Limit

\* By a candidate who is placed
candidate_upload_proof(u, s) == Kind[s] = "proof" /\ Room /\ Begin(u, s, "save")

\* The joining letter
candidate_upload_document(u, s) == Kind[s] = "column" /\ Room /\ Begin(u, s, "save")

\* The certificate, by the staff
organization_candidate_certificate_upload(u, s) ==
  Kind[s] = "column" /\ Room /\ Begin(u, s, "save")

candidate_upload_salary_slip(u, s) == Kind[s] = "slip" /\ Room /\ Begin(u, s, "save")

candidate_evidence_upload(u, s) == Kind[s] = "evidence" /\ Room /\ Begin(u, s, "save")

\* upload.save; a salary slip's row is looked up only now
Save(u) ==
  LET s == work[u].slot IN
  /\ At(u, "save") /\ next <= MaxFiles
  /\ disk' = disk \cup {next} /\ next' = next + 1
  /\ work' = [work EXCEPT ![u].step = "commit", ![u].new = next,
                          ![u].old = IF Kind[s] = "slip" THEN row[s] ELSE @,
                          ![u].had = IF Kind[s] = "slip" THEN row[s] # 0 ELSE @]
  /\ UNCHANGED <<row, lost>>

\* salary_slips and candidate_evidence have one row for a candidate and a month or type
Taken(u) ==
  /\ Kind[work[u].slot] \in {"slip", "evidence"}
  /\ ~work[u].had /\ row[work[u].slot] # 0

Commit(u) ==
  /\ At(u, "commit") /\ ~Taken(u)
  /\ row' = [row EXCEPT ![work[u].slot] = work[u].new]
  /\ To(u, "delete") /\ lost' = lost \ {work[u].slot}
  /\ UNCHANGED <<disk, next>>

\* IntegrityError: the piece of evidence stays on disk
Refused(u) ==
  /\ At(u, "commit") /\ Taken(u) /\ Kind[work[u].slot] = "evidence" /\ Done(u)
  /\ UNCHANGED <<row, disk, next, lost>>

\* The commit of a salary slip raises, and the new file is deleted again.  committed:
\* it went through, only its answer was lost
SlipFails(u, committed) ==
  LET s == work[u].slot IN
  /\ At(u, "commit") /\ Kind[s] = "slip" /\ (committed => ~Taken(u))
  /\ row' = IF committed THEN [row EXCEPT ![s] = work[u].new] ELSE row
  /\ lost' = IF committed THEN lost \cup {s} ELSE lost
  /\ disk' = disk \ {work[u].new} /\ Done(u)
  /\ UNCHANGED next

\* organization_candidate_certificate_remove
Remove(u, s) == Kind[s] = "column" /\ Begin(u, s, "clear")

\* Only a column that was set when it was read is written
Clear(u) ==
  /\ At(u, "clear") /\ To(u, "delete")
  /\ row' = IF work[u].had THEN [row EXCEPT ![work[u].slot] = 0] ELSE row
  /\ UNCHANGED <<disk, next, lost>>

\* Mutant: the old path is read after the commit.
OldPathNow(u) == row[work[u].slot]

\* The path read before the commit
OldPath(u) == work[u].old

\* os.remove; the file a proof replaces stays
Delete(u) ==
  /\ At(u, "delete") /\ Done(u)
  /\ disk' = IF Kind[work[u].slot] = "proof" THEN disk ELSE disk \ {OldPath(u)}
  /\ UNCHANGED <<row, next, lost>>

\* The worker is killed, or os.remove fails
Crash(u) ==
  /\ work[u] # NoWork /\ Done(u)
  /\ UNCHANGED <<row, disk, next, lost>>

Next ==
  \/ \E u \in Uploads, s \in Slots :
       \/ candidate_upload_proof(u, s) \/ candidate_upload_salary_slip(u, s)
       \/ candidate_upload_document(u, s) \/ organization_candidate_certificate_upload(u, s)
       \/ candidate_evidence_upload(u, s) \/ Remove(u, s)
  \/ \E u \in Uploads : Save(u) \/ Commit(u) \/ Refused(u) \/ Clear(u) \/ Delete(u) \/ Crash(u)
  \/ \E u \in Uploads, committed \in BOOLEAN : SlipFails(u, committed)

Spec == Init /\ [][Next]_vars

------------------------------------------------------------------------------
(* Properties                                                               *)

\* The file that a row names is on disk, however uploads, replacements and removals
\* overlap and wherever a worker dies: every download finds it, but for a salary slip
\* whose last commit went through without an answer.
FilesKept == \A s \in Slots : row[s] # 0 => row[s] \in disk \/ s \in lost

------------------------------------------------------------------------------
(* The invariant behind it                                                  *)

Busy(u) == work[u] # NoWork

\* The name an upload has read belongs to its slot, and is gone from the row once
\* the file is to be deleted
OldOwned(u) ==
  /\ work[u].old < next
  /\ \A s \in Slots : row[s] = work[u].old /\ row[s] # 0 => s = work[u].slot /\ ~At(u, "delete")

\* The name of a file that is to be committed is known to nobody else
NewFree(u) ==
  /\ work[u].new \in disk /\ \A s \in Slots : row[s] # work[u].new
  /\ \A v \in Uploads : Busy(v) => work[v].old # work[u].new
  /\ \A v \in Uploads \ {u} : At(v, "commit") => work[v].new # work[u].new

IInv ==
  /\ TypeOK /\ FilesKept
  /\ \A s, t \in Slots : row[s] = row[t] /\ row[s] # 0 => s = t
  /\ \A u \in Uploads : Busy(u) => OldOwned(u) /\ (work[u].had <=> work[u].old # 0)
  /\ \A u \in Uploads : At(u, "commit") => NewFree(u)
==============================================================================
