------------------------- MODULE OfficeRecordsProofs -------------------------
(***************************************************************************)
(* Proofs about the rows that the forms of the office write: KYC documents, *)
(* candidates' files, support tickets, attendance, vacancies, features and *)
(* notices of a data breach.  A section proves the invariant of one        *)
(* component; its names begin with the component's.  <Component>Moves says *)
(* that a step of the office is one of that component, and                 *)
(* <Component>Always lifts the invariant to behaviours of the office.      *)
(***************************************************************************)
EXTENDS Office, FiniteSetTheorems, TLAPS

------------------------------------------------------------------------------
(* Kyc: v1 is rows, v2 is status, v3 is files, v4 is work, v5 is alone, v6  *)
(* is raced.                                                                *)

------------------------------------------------------------------------------
(* Types                                                                    *)

LEMMA KycWorkIs ==
  ASSUME NEW w \in KY!Works
  PROVE  /\ w.step = "none" \/ w.step = "commit" \/ w.step = "recompute" \/ w.step = "write" \/ w = KY!NoWork
         /\ w.step = "commit" => w \in [step : {"commit"}, row : Nat, old : KY!Document, new : KY!Document]
         /\ w.step = "write" => w \in [step : {"write"}, old : KY!STATUSES, new : KY!STATUSES]
         /\ w = KY!NoWork => w.step = "none"
         /\ w.step \in {"commit", "recompute", "write"} => w # KY!NoWork
BY DEF KY!Works, KY!NoWork

LEMMA KycFirstIs ==
  ASSUME NEW type, v1 \in Seq(KY!Document)
  PROVE  KY!First(type) \in 0 .. Len(v1) /\ (KY!First(type) # 0 => v1[KY!First(type)] \in KY!Document)
<1>. DEFINE found == {i \in DOMAIN v1 : v1[i].type = type}
            Least(i) == i \in found /\ \A j \in found : i <= j
<1>1. DOMAIN v1 = 1 .. Len(v1)
  OBVIOUS
<1>3. CASE ~\E i : Least(i)
  <2>1. KY!First(type) = 0
    BY <1>3 DEF KY!First
  <2>. QED
    BY <2>1
<1>4. CASE \E i : Least(i)
  <2>1. KY!First(type) \in found
    BY <1>4 DEF KY!First
  <2>2. KY!First(type) \in 1 .. Len(v1)
    BY <2>1, <1>1
  <2>. QED
    BY <2>2
<1>. QED
  BY <1>3, <1>4

LEMMA KycDerivedIs == KY!Derived \in KY!STATUSES
BY DEF KY!Derived, KY!STATUSES

LEMMA KycWrittenIs ==
  ASSUME NEW row \in KY!Document, NEW old \in KY!Document, NEW new \in KY!Document
  PROVE  KY!Written(row, old, new) \in KY!Document
BY DEF KY!Written, KY!Document

\* What a request begins with: its row is there or is new
LEMMA KycBeginTypes ==
  ASSUME KY!TypeOK, NEW r \in Requests, NEW row \in 0 .. Len(v1),
         NEW old \in KY!Document, NEW new \in KY!Document, KY!Begin(r, row, old, new), v3' \in Nat
  PROVE  KY!TypeOK'
<1>. DEFINE w == [step |-> "commit", row |-> row, old |-> old, new |-> new]
<1>1. w \in KY!Works
  BY DEF KY!Works
<1>2. v4' = [v4 EXCEPT ![r] = w] /\ v1' = v1 /\ v2' = v2
  BY DEF KY!Begin
<1>3. v4' \in [Requests -> KY!Works]
  BY <1>1, <1>2 DEF KY!TypeOK
<1>4. \A s \in Requests : v4'[s].step = "commit" => v4'[s].row <= Len(v1')
  BY <1>2 DEF KY!TypeOK
<1>5. v5' \subseteq Requests /\ v6' \in BOOLEAN
  BY DEF KY!Begin, KY!TypeOK
<1>. QED
  BY <1>2, <1>3, <1>4, <1>5 DEF KY!TypeOK

\* Which documents and statuses each form begins with
LEMMA KycBegins ==
  ASSUME KY!TypeOK, KY!Next,
         NEW r \in Requests,
         \/ \E type \in DOC_TYPES : KY!Upload(r, type)
         \/ \E i \in DOMAIN v1 :
              KY!super_admin_kyc_document_approve(r, i) \/ KY!super_admin_kyc_document_reject(r, i)
  PROVE  /\ v3' \in Nat
         /\ \E row \in 0 .. Len(v1), old \in KY!Document, new \in KY!Document : KY!Begin(r, row, old, new)
<1>1. ASSUME NEW type \in DOC_TYPES, KY!Upload(r, type)
      PROVE  /\ v3' \in Nat
             /\ \E row \in 0 .. Len(v1), old \in KY!Document, new \in KY!Document : KY!Begin(r, row, old, new)
  <2>. DEFINE i   == KY!First(type)
              new == [type |-> type, file |-> v3 + 1, status |-> "PENDING"]
              old == IF i = 0 THEN new ELSE v1[i]
  <2>1. new \in KY!Document /\ v3' \in Nat
    BY <1>1 DEF KY!Document, KY!STATUSES, KY!TypeOK, KY!Upload
  <2>2. i \in 0 .. Len(v1) /\ old \in KY!Document
    BY <2>1, KycFirstIs DEF KY!TypeOK
  <2>3. KY!Begin(r, i, old, new)
    BY <1>1 DEF KY!Upload
  <2>. QED
    BY <2>1, <2>2, <2>3
<1>2. ASSUME NEW i \in DOMAIN v1,
             KY!super_admin_kyc_document_approve(r, i) \/ KY!super_admin_kyc_document_reject(r, i)
      PROVE  /\ v3' \in Nat
             /\ \E row \in 0 .. Len(v1), old \in KY!Document, new \in KY!Document : KY!Begin(r, row, old, new)
  <2>1. i \in 0 .. Len(v1) /\ v1[i] \in KY!Document
    BY DEF KY!TypeOK
  <2>2. /\ [v1[i] EXCEPT !.status = "APPROVED"] \in KY!Document
        /\ [v1[i] EXCEPT !.status = "REJECTED"] \in KY!Document
    BY <2>1 DEF KY!Document, KY!STATUSES
  <2>3. v3' \in Nat
    BY <1>2 DEF KY!TypeOK, KY!super_admin_kyc_document_approve, KY!super_admin_kyc_document_reject
  <2>. QED
    BY <1>2, <2>1, <2>2, <2>3 DEF KY!super_admin_kyc_document_approve,
       KY!super_admin_kyc_document_reject
<1>. QED
  BY <1>1, <1>2

\* The later steps of a request
LEMMA KycCommitTypes ==
  ASSUME KY!TypeOK, NEW r \in Requests, KY!Commit(r)
  PROVE  KY!TypeOK'
<1>. DEFINE w == v4[r]
<1>1. w \in [step : {"commit"}, row : Nat, old : KY!Document, new : KY!Document] /\ w.row <= Len(v1)
  BY KycWorkIs DEF KY!TypeOK, KY!Commit
<1>2. v1' \in Seq(KY!Document) /\ Len(v1') >= Len(v1)
  <2>1. CASE w.row = 0
    BY <1>1, <2>1 DEF KY!Commit, KY!TypeOK
  <2>2. CASE w.row # 0
    <3>1. w.row \in 1 .. Len(v1) /\ v1[w.row] \in KY!Document
      BY <1>1, <2>2 DEF KY!TypeOK
    <3>2. KY!Written(v1[w.row], w.old, w.new) \in KY!Document
      BY <1>1, <3>1, KycWrittenIs
    <3>. QED
      BY <2>2, <3>1, <3>2 DEF KY!Commit, KY!TypeOK
  <2>. QED
    BY <2>1, <2>2
<1>3. [step |-> "recompute"] \in KY!Works
  BY DEF KY!Works
<1>4. v4' = [v4 EXCEPT ![r] = [step |-> "recompute"]] /\ UNCHANGED <<v2, v3, v5, v6>>
  BY DEF KY!Commit
<1>5. v4' \in [Requests -> KY!Works]
  BY <1>3, <1>4 DEF KY!TypeOK
<1>6. ASSUME NEW s \in Requests, v4'[s].step = "commit" PROVE v4'[s].row <= Len(v1')
  <2>1. s # r /\ v4'[s] = v4[s]
    BY <1>4, <1>6 DEF KY!TypeOK
  <2>2. v4[s].row \in Nat /\ v4[s].row <= Len(v1)
    BY <2>1, <1>6, KycWorkIs DEF KY!TypeOK
  <2>. QED
    BY <1>2, <2>1, <2>2 DEF KY!TypeOK
<1>. QED
  BY <1>2, <1>4, <1>5, <1>6 DEF KY!TypeOK

LEMMA KycOtherTypes ==
  ASSUME KY!TypeOK, NEW r \in Requests, KY!Recompute(r) \/ KY!Write(r) \/ KY!Crash(r)
  PROVE  KY!TypeOK'
<1>1. PICK w \in KY!Works : v4' = [v4 EXCEPT ![r] = w] /\ w.step # "commit"
  <2>1. KY!NoWork \in KY!Works /\ KY!NoWork.step # "commit"
    BY DEF KY!Works, KY!NoWork
  <2>2. ASSUME KY!Recompute(r) PROVE [step |-> "write", old |-> v2, new |-> KY!Derived] \in KY!Works
    BY KycDerivedIs DEF KY!Works, KY!TypeOK
  <2>. QED
    BY <2>1, <2>2 DEF KY!Recompute, KY!Write, KY!Crash
<1>2. v1' = v1 /\ v3' = v3 /\ v5' = v5
  BY DEF KY!Recompute, KY!Write, KY!Crash
<1>3. v6' \in BOOLEAN
  BY DEF KY!Recompute, KY!Write, KY!Crash, KY!TypeOK
<1>4. v2' \in KY!STATUSES
  BY KycWorkIs DEF KY!Recompute, KY!Write, KY!Crash, KY!TypeOK
<1>5. v4' \in [Requests -> KY!Works] /\ \A s \in Requests : s # r => v4'[s] = v4[s]
  BY <1>1 DEF KY!TypeOK
<1>6. \A s \in Requests : v4'[s].step = "commit" => v4'[s].row <= Len(v1')
  BY <1>1, <1>2, <1>5 DEF KY!TypeOK
<1>. QED
  BY <1>2, <1>3, <1>4, <1>5, <1>6 DEF KY!TypeOK

------------------------------------------------------------------------------
(* The status                                                               *)

LEMMA KycBegun ==
  ASSUME KY!IInv, NEW r \in Requests, NEW row \in 0 .. Len(v1),
         NEW old \in KY!Document, NEW new \in KY!Document, KY!Begin(r, row, old, new)
  PROVE  KY!AloneIsRight' /\ KY!RightOrRepaired'
<1>. DEFINE w == [step |-> "commit", row |-> row, old |-> old, new |-> new]
<1>1. v4' = [v4 EXCEPT ![r] = w] /\ r \notin KY!Busy /\ w # KY!NoWork
  <2>1. w.step # KY!NoWork.step
    BY DEF KY!NoWork
  <2>. QED
    BY <2>1 DEF KY!Begin, KY!Busy
<1>2. KY!Busy' = KY!Busy \cup {r} /\ v4'[r] = w /\ w.step # "write"
  BY <1>1 DEF KY!Busy, KY!IInv, KY!TypeOK
<1>3. CASE KY!Busy = {}
  <2>1. v5' = {r} /\ KY!Busy' = {r}
    BY <1>2, <1>3 DEF KY!Begin
  <2>. QED
    BY <1>1, <1>2, <2>1 DEF KY!AloneIsRight, KY!RightOrRepaired
<1>4. CASE KY!Busy # {}
  <2>1. v5' = {} /\ v6' = TRUE
    BY <1>4 DEF KY!Begin, KY!IInv, KY!TypeOK
  <2>. QED
    BY <2>1 DEF KY!AloneIsRight, KY!RightOrRepaired
<1>. QED
  BY <1>3, <1>4

LEMMA KycCommitted ==
  ASSUME KY!IInv, NEW r \in Requests, KY!Commit(r)
  PROVE  KY!AloneIsRight' /\ KY!RightOrRepaired'
<1>. DEFINE w == [step |-> "recompute"]
<1>1. v4' = [v4 EXCEPT ![r] = w] /\ r \in KY!Busy /\ w # KY!NoWork
  <2>1. v4[r] # KY!NoWork
    BY KycWorkIs DEF KY!Commit, KY!IInv, KY!TypeOK
  <2>2. w.step # KY!NoWork.step
    BY DEF KY!NoWork
  <2>. QED
    BY <2>1, <2>2 DEF KY!Commit, KY!Busy
<1>2. KY!Busy' = KY!Busy /\ v4'[r] = w /\ w.step # "write"
  BY <1>1 DEF KY!Busy, KY!IInv, KY!TypeOK
<1>3. v5' = v5 /\ v6' = v6
  BY DEF KY!Commit
<1>4. ASSUME NEW s \in v5', v4'[s] # KY!NoWork
      PROVE  s = r /\ KY!Busy' = {s}
  <2>1. s \in Requests /\ s \in KY!Busy
    BY <1>2, <1>3, <1>4 DEF KY!Busy, KY!IInv, KY!TypeOK
  <2>2. KY!Busy = {s}
    BY <2>1, <1>3 DEF KY!AloneIsRight, KY!IInv, KY!Busy
  <2>. QED
    BY <2>2, <1>1, <1>2
<1>5. KY!AloneIsRight'
  BY <1>2, <1>4 DEF KY!AloneIsRight
<1>6. KY!RightOrRepaired'
  <2>1. SUFFICES ASSUME ~v6 PROVE \E s \in v5 : v4'[s] # KY!NoWork
    BY <1>1, <1>2, <1>3 DEF KY!RightOrRepaired
  <2>2. PICK s \in v5 : v4[s] # KY!NoWork
    BY <1>1, <2>1 DEF KY!IInv, KY!RightOrRepaired
  <2>3. s \in KY!Busy'
    BY <1>2, <2>2 DEF KY!Busy, KY!IInv, KY!TypeOK
  <2>. QED
    BY <2>3 DEF KY!Busy
<1>. QED
  BY <1>5, <1>6

LEMMA KycRecomputed ==
  ASSUME KY!IInv, NEW r \in Requests, KY!Recompute(r)
  PROVE  KY!AloneIsRight' /\ KY!RightOrRepaired'
<1>. DEFINE w == [step |-> "write", old |-> v2, new |-> KY!Derived]
<1>1. v4' = [v4 EXCEPT ![r] = w] /\ r \in KY!Busy /\ w # KY!NoWork
  <2>1. v4[r] # KY!NoWork
    BY KycWorkIs DEF KY!Recompute, KY!IInv, KY!TypeOK
  <2>2. w.step # KY!NoWork.step
    BY DEF KY!NoWork
  <2>. QED
    BY <2>1, <2>2 DEF KY!Recompute, KY!Busy
<1>2. KY!Busy' = KY!Busy /\ v4'[r] = w
  BY <1>1 DEF KY!Busy, KY!IInv, KY!TypeOK
<1>3. v5' = v5 /\ v6' = v6 /\ v2' = v2 /\ KY!Derived' = KY!Derived
  BY DEF KY!Recompute, KY!Derived
<1>4. ASSUME NEW s \in v5', v4'[s] # KY!NoWork
      PROVE  s = r /\ KY!Busy' = {s}
  <2>1. s \in Requests /\ s \in KY!Busy
    BY <1>2, <1>3, <1>4 DEF KY!Busy, KY!IInv, KY!TypeOK
  <2>2. KY!Busy = {s}
    BY <2>1, <1>3 DEF KY!AloneIsRight, KY!IInv, KY!Busy
  <2>. QED
    BY <2>2, <1>1, <1>2
<1>5. KY!AloneIsRight'
  BY <1>2, <1>3, <1>4 DEF KY!AloneIsRight
<1>6. KY!RightOrRepaired'
  <2>1. SUFFICES ASSUME ~v6 PROVE \E s \in v5 : v4'[s] # KY!NoWork
    BY <1>1, <1>2, <1>3 DEF KY!RightOrRepaired
  <2>2. PICK s \in v5 : v4[s] # KY!NoWork
    BY <1>1, <2>1 DEF KY!IInv, KY!RightOrRepaired
  <2>3. s \in KY!Busy'
    BY <1>2, <2>2 DEF KY!Busy, KY!IInv, KY!TypeOK
  <2>. QED
    BY <2>3 DEF KY!Busy
<1>. QED
  BY <1>5, <1>6

\* The end of a request, regular or not: nobody else has been alone
LEMMA KycEnded ==
  ASSUME KY!IInv, NEW r \in Requests, KY!Write(r) \/ KY!Crash(r)
  PROVE  /\ KY!Busy' = KY!Busy \ {r} /\ KY!AloneIsRight'
         /\ v5' = v5 /\ v1' = v1
         /\ \A s \in v5 : v4[s] # KY!NoWork => s = r
<1>1. v4' = [v4 EXCEPT ![r] = KY!NoWork] /\ v5' = v5 /\ v1' = v1
  BY DEF KY!Write, KY!Crash
<1>2. r \in KY!Busy
  BY KycWorkIs DEF KY!Write, KY!Crash, KY!Busy, KY!IInv, KY!TypeOK
<1>3. KY!Busy' = KY!Busy \ {r}
  BY <1>1 DEF KY!Busy, KY!IInv, KY!TypeOK
<1>4. ASSUME NEW s \in v5, v4[s] # KY!NoWork PROVE s = r
  <2>1. KY!Busy = {s}
    BY <1>4 DEF KY!IInv, KY!AloneIsRight
  <2>. QED
    BY <2>1, <1>2
<1>5. \A s \in v5' : v4'[s] = KY!NoWork
  <2>1. SUFFICES ASSUME NEW s \in v5, v4'[s] # KY!NoWork PROVE FALSE
    BY <1>1
  <2>2. s \in Requests /\ s # r /\ v4'[s] = v4[s]
    BY <1>1, <2>1 DEF KY!IInv, KY!TypeOK
  <2>. QED
    BY <1>4, <2>1, <2>2
<1>. QED
  BY <1>1, <1>3, <1>4, <1>5 DEF KY!AloneIsRight

LEMMA KycFinished ==
  ASSUME KY!IInv, NEW r \in Requests, KY!Write(r)
  PROVE  KY!AloneIsRight' /\ KY!RightOrRepaired'
<1>1. SUFFICES ASSUME ~v6' PROVE KY!Busy' = {} /\ v2' = KY!Derived'
  BY KycEnded DEF KY!RightOrRepaired
<1>2. r \in Requests /\ v4[r] # KY!NoWork /\ v4[r].step = "write"
  BY KycWorkIs DEF KY!Write, KY!IInv, KY!TypeOK
<1>3. r \in v5
  <2>1. CASE v6
    BY <1>1, <2>1 DEF KY!Write, KY!IInv, KY!TypeOK
  <2>2. CASE ~v6
    <3>1. KY!Busy # {}
      BY <1>2 DEF KY!Busy
    <3>2. PICK s \in v5 : v4[s] # KY!NoWork
      BY <2>2, <3>1 DEF KY!IInv, KY!RightOrRepaired
    <3>. QED
      BY <3>2, KycEnded
  <2>. QED
    BY <2>1, <2>2
<1>4. KY!Busy = {r} /\ v4[r].old = v2 /\ v4[r].new = KY!Derived
  BY <1>2, <1>3 DEF KY!IInv, KY!AloneIsRight
<1>5. v2' = KY!Derived
  BY <1>4 DEF KY!Write
<1>6. KY!Derived' = KY!Derived
  BY DEF KY!Write, KY!Derived
<1>. QED
  BY <1>4, <1>5, <1>6, KycEnded

LEMMA KycBroken ==
  ASSUME KY!IInv, NEW r \in Requests, KY!Crash(r)
  PROVE  KY!AloneIsRight' /\ KY!RightOrRepaired'
BY KycEnded DEF KY!RightOrRepaired, KY!Crash

------------------------------------------------------------------------------
(* Theorems                                                                 *)

LEMMA KycStart ==
  ASSUME KY!KycAssumption, KY!Init
  PROVE  KY!IInv
<1>1. KY!NoWork \in KY!Works /\ KY!NoWork.step # "commit"
  BY DEF KY!Works, KY!NoWork
<1>4. v4 \in [Requests -> KY!Works] /\ \A r \in Requests : v4[r].step # "commit"
  BY <1>1 DEF KY!Init
<1>5. v1 \in Seq(KY!Document) /\ v2 \in KY!STATUSES /\ v3 \in Nat
  BY DEF KY!Init, KY!STATUSES
<1>6. v5 \subseteq Requests /\ v6 \in BOOLEAN
  BY DEF KY!Init
<1>7. KY!TypeOK
  BY <1>4, <1>5, <1>6 DEF KY!TypeOK
<1>2. KY!Busy = {} /\ v5 = {}
  BY DEF KY!Init, KY!Busy
<1>3. KY!Derived = "PENDING"
  BY DEF KY!Init, KY!Derived, KY!KycAssumption
<1>. QED
  BY <1>2, <1>3, <1>7 DEF KY!IInv, KY!AloneIsRight, KY!RightOrRepaired, KY!Init

LEMMA KycStep ==
  ASSUME KY!IInv, [KY!Next]_KY!vars
  PROVE  KY!IInv'
<1>1. ASSUME KY!Next, NEW r \in Requests,
             \/ \E type \in DOC_TYPES : KY!Upload(r, type)
             \/ \E i \in DOMAIN v1 :
                  KY!super_admin_kyc_document_approve(r, i) \/ KY!super_admin_kyc_document_reject(r, i)
      PROVE  KY!IInv'
  <2>1. /\ v3' \in Nat
        /\ \E row \in 0 .. Len(v1), old \in KY!Document, new \in KY!Document : KY!Begin(r, row, old, new)
    BY <1>1, KycBegins DEF KY!IInv
  <2>. QED
    BY <2>1, KycBeginTypes, KycBegun DEF KY!IInv
<1>2. ASSUME NEW r \in Requests, KY!Commit(r) PROVE KY!IInv'
  BY <1>2, KycCommitTypes, KycCommitted DEF KY!IInv
<1>3. ASSUME NEW r \in Requests, KY!Recompute(r) PROVE KY!IInv'
  BY <1>3, KycOtherTypes, KycRecomputed DEF KY!IInv
<1>4. ASSUME NEW r \in Requests, KY!Write(r) PROVE KY!IInv'
  BY <1>4, KycOtherTypes, KycFinished DEF KY!IInv
<1>5. ASSUME NEW r \in Requests, KY!Crash(r) PROVE KY!IInv'
  BY <1>5, KycOtherTypes, KycBroken DEF KY!IInv
<1>6. CASE UNCHANGED KY!vars
  BY <1>6 DEF KY!vars, KY!IInv, KY!TypeOK, KY!AloneIsRight, KY!RightOrRepaired, KY!Busy,
     KY!Derived
<1>. QED
  BY <1>1, <1>2, <1>3, <1>4, <1>5, <1>6 DEF KY!Next

LEMMA KycEnough ==
  ASSUME KY!IInv
  PROVE  KY!KycStatusFollows
<1>1. SUFFICES ASSUME KY!Busy = {}, ~v6
               PROVE  /\ v2 = "REJECTED" <=> \E i \in DOMAIN v1 : v1[i].status = "REJECTED"
                      /\ v2 = "APPROVED" <=> KY!Types = DOC_TYPES /\ \A i \in DOMAIN v1 : v1[i].status = "APPROVED"
  BY DEF KY!KycStatusFollows
<1>2. v2 = KY!Derived
  BY <1>1 DEF KY!IInv, KY!RightOrRepaired
<1>3. \A i \in DOMAIN v1 : v1[i].type \in DOC_TYPES
  <2>1. \A i \in DOMAIN v1 : v1[i] \in KY!Document
    BY DEF KY!IInv, KY!TypeOK
  <2>. QED
    BY <2>1 DEF KY!Document
<1>4. KY!Types \subseteq DOC_TYPES
  BY <1>3 DEF KY!Types
<1>. QED
  BY <1>2, <1>4 DEF KY!Derived, KY!Types

LEMMA KycMoves ==
  ASSUME [Next]_vars, part' = "Kyc"
  PROVE  part = "Kyc" /\ [KY!Next]_KY!vars
BY DEF Next, vars, KY!vars

LEMMA KycAlways == Spec => [](part = "Kyc" => KY!IInv)
<1>1. Init => (part = "Kyc" => KY!IInv)
  BY KycStart, OfficeAssumption DEF Init
<1>2. (part = "Kyc" => KY!IInv) /\ [Next]_vars => (part = "Kyc" => KY!IInv)'
  BY KycStep, KycMoves, OfficeAssumption
<1>. QED
  BY <1>1, <1>2, PTL DEF Spec

------------------------------------------------------------------------------
(* Documents: v1 is row, v2 is disk, v3 is next, v4 is work, v5 is lost.    *)

DocumentsApart   == \A s, t \in Slots : v1[s] = v1[t] /\ v1[s] # 0 => s = t
DocumentsOwned   == \A u \in Requests : DO!Busy(u) => DO!OldOwned(u)
DocumentsHadOld  == \A u \in Requests : DO!Busy(u) => (v4[u].had <=> v4[u].old # 0)
DocumentsFree    == \A u \in Requests : DO!At(u, "commit") => DO!NewFree(u)

LEMMA DocumentsInvIs ==
  /\ DO!IInv <=> DO!TypeOK /\ DO!FilesKept /\ DocumentsApart /\ DocumentsOwned /\ DocumentsHadOld /\ DocumentsFree
  /\ DO!IInv' <=> DO!TypeOK' /\ DO!FilesKept' /\ DocumentsApart' /\ DocumentsOwned' /\ DocumentsHadOld' /\ DocumentsFree'
BY DEF DO!IInv, DocumentsApart, DocumentsOwned, DocumentsHadOld, DocumentsFree

LEMMA DocumentsWorkIs ==
  /\ DO!NoWork.step = "none"
  /\ \A w \in DO!Work : /\ w # DO!NoWork /\ w.slot \in Slots /\ w.new \in Nat /\ w.old \in Nat /\ w.had \in BOOLEAN
                        /\ w.step \in {"save", "commit", "clear", "delete"}
  /\ \A w \in DO!Work \cup {DO!NoWork} : (w # DO!NoWork <=> w \in DO!Work) /\ (w.step # "none" <=> w \in DO!Work)
BY DEF DO!Work, DO!NoWork

\* The step of an upload changes
LEMMA DocumentsStepSet ==
  ASSUME NEW w \in DO!Work, NEW t \in {"save", "commit", "clear", "delete"}
  PROVE  LET x == [w EXCEPT !.step = t] IN
         /\ x \in DO!Work /\ x.step = t /\ x.slot = w.slot /\ x.new = w.new /\ x.old = w.old /\ x.had = w.had
BY DEF DO!Work

LEMMA DocumentsWorkSet ==
  ASSUME DO!TypeOK, NEW u \in Requests, NEW w \in DO!Work \cup {DO!NoWork}, v4' = [v4 EXCEPT ![u] = w]
  PROVE  /\ v4' \in [Requests -> DO!Work \cup {DO!NoWork}] /\ v4'[u] = w
         /\ \A v \in Requests : v # u => v4'[v] = v4[v]
BY DEF DO!TypeOK

LEMMA DocumentsStart ==
  ASSUME DO!DocumentsAssumption, DO!Init
  PROVE  DO!IInv
<1>1. /\ v1 = [s \in Slots |-> 0] /\ v2 = {} /\ v3 = 1 /\ v5 = {}
      /\ v4 = [u \in Requests |-> DO!NoWork]
  BY DEF DO!Init
<1>2. DO!TypeOK
  BY <1>1 DEF DO!TypeOK
<1>3. DO!FilesKept /\ DocumentsApart
  BY <1>1 DEF DO!FilesKept, DocumentsApart
<1>4. \A u \in Requests : ~DO!Busy(u) /\ ~DO!At(u, "commit")
  BY <1>1, DocumentsWorkIs DEF DO!Busy, DO!At
<1>. QED
  BY <1>2, <1>3, <1>4, DocumentsInvIs DEF DocumentsOwned, DocumentsHadOld, DocumentsFree

LEMMA DocumentsStep ==
  ASSUME DO!DocumentsAssumption, DO!IInv, [DO!Next]_DO!vars
  PROVE  DO!IInv'
<1>1. DO!TypeOK /\ DO!FilesKept /\ DocumentsApart /\ DocumentsOwned /\ DocumentsHadOld /\ DocumentsFree
  BY DocumentsInvIs
<1>2. /\ v1 \in [Slots -> 0 .. v3 - 1] /\ v2 \in SUBSET (1 .. v3 - 1) /\ v3 \in Nat /\ v3 >= 1
      /\ v4 \in [Requests -> DO!Work \cup {DO!NoWork}] /\ v5 \subseteq {s \in Slots : Kind[s] = "slip"}
  BY <1>1 DEF DO!TypeOK
\* A row names an older file
<1>3. \A s \in Slots : v1[s] \in Nat /\ v1[s] < v3 /\ v1[s] <= v3 - 1 /\ (v1[s] # 0 => v1[s] \in v2 \/ s \in v5)
  BY <1>1, <1>2 DEF DO!FilesKept
<1>4. \A u \in Requests : DO!Busy(u) => /\ v4[u] \in DO!Work /\ v4[u].slot \in Slots /\ DO!OldOwned(u)
                                        /\ v4[u].old \in Nat /\ v4[u].new \in Nat
                                        /\ v4[u].had \in BOOLEAN /\ (v4[u].had <=> v4[u].old # 0)
  BY <1>1, <1>2, DocumentsWorkIs DEF DO!Busy, DocumentsOwned, DocumentsHadOld
<1>5. \A u \in Requests : DO!At(u, "commit") => DO!NewFree(u) /\ DO!Busy(u)
  BY <1>1, <1>2, DocumentsWorkIs DEF DocumentsFree, DO!At, DO!Busy
<1>6. \A u \in Requests : v4[u].step # "none" => DO!Busy(u)
  BY <1>2, DocumentsWorkIs DEF DO!Busy
<1>7. ASSUME NEW u \in Requests, NEW s \in Slots, NEW t \in {"save", "clear"}, DO!Begin(u, s, t) PROVE DO!IInv'
  <2>. DEFINE w == [slot |-> s, step |-> t, new |-> 0, old |-> v1[s], had |-> v1[s] # 0]
  <2>1. v4' = [v4 EXCEPT ![u] = w] /\ UNCHANGED <<v1, v2, v3, v5>> /\ v4[u] = DO!NoWork
    BY <1>7 DEF DO!Begin
  <2>2. w \in DO!Work /\ w.step = t /\ w.slot = s /\ w.old = v1[s] /\ (w.had <=> w.old # 0)
    BY <1>3 DEF DO!Work
  <2>. HIDE DEF w
  <2>3. /\ v4' \in [Requests -> DO!Work \cup {DO!NoWork}] /\ v4'[u] = w
        /\ \A v \in Requests : v # u => v4'[v] = v4[v]
    BY <1>1, <2>1, <2>2, DocumentsWorkSet
  <2>4. DO!TypeOK' /\ DO!FilesKept' /\ DocumentsApart'
    BY <1>1, <1>2, <2>1, <2>3 DEF DO!TypeOK, DO!FilesKept, DocumentsApart
  <2>5. DocumentsHadOld'
    BY <1>4, <2>2, <2>3 DEF DocumentsHadOld, DO!Busy
  <2>6. DocumentsOwned'
    <3>. SUFFICES ASSUME NEW v \in Requests, DO!Busy(v)' PROVE DO!OldOwned(v)'
      BY DEF DocumentsOwned
    <3>1. CASE v = u
      BY <1>1, <1>3, <2>1, <2>2, <2>3, <3>1 DEF DO!OldOwned, DO!At, DocumentsApart
    <3>2. CASE v # u
      BY <1>4, <2>1, <2>3, <3>2 DEF DO!OldOwned, DO!At, DO!Busy
    <3>. QED
      BY <3>1, <3>2
  <2>7. DocumentsFree'
    <3>. SUFFICES ASSUME NEW v \in Requests, DO!At(v, "commit")' PROVE DO!NewFree(v)'
      BY DEF DocumentsFree
    <3>1. v # u /\ v4'[v] = v4[v] /\ DO!NewFree(v)
      BY <1>5, <2>2, <2>3 DEF DO!At
    <3>. QED
      BY <2>1, <2>2, <2>3, <3>1 DEF DO!NewFree, DO!At, DO!Busy
  <2>. QED
    BY <2>4, <2>5, <2>6, <2>7, DocumentsInvIs
\* An upload is done with
<1>8. ASSUME NEW u \in Requests, DO!Done(u), UNCHANGED <<v1, v3, v5>>, v2' \subseteq v2,
             \A s \in Slots : v1[s] # 0 => v1[s] \in v2' \/ s \in v5,
             \A v \in Requests \ {u} : DO!At(v, "commit") => v4[v].new \in v2'
      PROVE  DO!IInv'
  <2>1. /\ v4' \in [Requests -> DO!Work \cup {DO!NoWork}] /\ v4'[u] = DO!NoWork
        /\ \A v \in Requests : v # u => v4'[v] = v4[v]
    BY <1>1, <1>8, DocumentsWorkSet DEF DO!Done
  <2>2. DO!TypeOK' /\ DO!FilesKept' /\ DocumentsApart'
    BY <1>1, <1>2, <1>8, <2>1 DEF DO!TypeOK, DO!FilesKept, DocumentsApart
  <2>3. \A v \in Requests : DO!Busy(v)' => v # u /\ DO!Busy(v) /\ v4'[v] = v4[v]
    BY <2>1 DEF DO!Busy
  <2>4. DocumentsHadOld' /\ DocumentsOwned'
    BY <1>4, <1>8, <2>3 DEF DocumentsHadOld, DocumentsOwned, DO!OldOwned, DO!At
  <2>5. DocumentsFree'
    <3>. SUFFICES ASSUME NEW v \in Requests, DO!At(v, "commit")' PROVE DO!NewFree(v)'
      BY DEF DocumentsFree
    <3>1. v # u /\ v4'[v] = v4[v] /\ DO!NewFree(v) /\ DO!At(v, "commit")
      BY <1>5, <2>1, DocumentsWorkIs DEF DO!At
    <3>. QED
      BY <1>8, <2>1, <2>3, <3>1, DocumentsWorkIs DEF DO!NewFree, DO!At
  <2>. QED
    BY <2>2, <2>4, <2>5, DocumentsInvIs
<1>9. ASSUME NEW u \in Requests, DO!Save(u) PROVE DO!IInv'
  <2>. DEFINE s == v4[u].slot
              slip == Kind[s] = "slip"
              o == IF slip THEN v1[s] ELSE v4[u].old
              h == IF slip THEN v1[s] # 0 ELSE v4[u].had
              w == [v4[u] EXCEPT !.step = "commit", !.new = v3, !.old = o, !.had = h]
  <2>1. /\ v4[u].step = "save" /\ v2' = v2 \cup {v3} /\ v3' = v3 + 1
        /\ v1' = v1 /\ v5' = v5
        /\ v4' = [v4 EXCEPT ![u] = w]
    BY <1>9, Zenon DEF DO!Save, DO!At
  <2>2. DO!Busy(u) /\ v4[u] \in DO!Work /\ s \in Slots
    BY <1>4, <1>6, <2>1
  <2>3. /\ o \in Nat /\ o < v3 /\ h \in BOOLEAN /\ (h <=> o # 0)
        /\ \A t \in Slots : v1[t] = o /\ v1[t] # 0 => t = s
    BY <1>1, <1>3, <1>4, <2>2 DEF DO!OldOwned, DocumentsApart
  <2>. HIDE DEF o, h
  <2>4. w \in DO!Work /\ w.step = "commit" /\ w.slot = s /\ w.new = v3 /\ w.old = o /\ (w.had <=> w.old # 0)
    <3>1. /\ w \in DO!Work /\ w.step = "commit" /\ w.slot = v4[u].slot /\ w.new = v3
          /\ w.old = o /\ w.had = h
      BY <1>2, <2>2, <2>3 DEF DO!Work
    <3>. QED
      BY <2>3, <3>1, Zenon
  <2>. HIDE DEF w, s
  <2>5. /\ v4' \in [Requests -> DO!Work \cup {DO!NoWork}] /\ v4'[u] = w
        /\ \A v \in Requests : v # u => v4'[v] = v4[v]
    BY <1>1, <2>1, <2>4, DocumentsWorkSet
  <2>6. DO!TypeOK' /\ DO!FilesKept' /\ DocumentsApart'
    BY <1>1, <1>2, <2>1, <2>5 DEF DO!TypeOK, DO!FilesKept, DocumentsApart
  <2>7. DocumentsHadOld'
    BY <1>4, <2>4, <2>5 DEF DocumentsHadOld, DO!Busy
  <2>8. DocumentsOwned'
    <3>. SUFFICES ASSUME NEW v \in Requests, DO!Busy(v)' PROVE DO!OldOwned(v)'
      BY DEF DocumentsOwned
    <3>1. CASE v = u
      BY <1>2, <2>1, <2>3, <2>4, <2>5, <3>1 DEF DO!OldOwned, DO!At
    <3>2. CASE v # u
      BY <1>2, <1>4, <2>1, <2>5, <3>2 DEF DO!OldOwned, DO!At, DO!Busy
    <3>. QED
      BY <3>1, <3>2
  <2>9. DocumentsFree'
    <3>. SUFFICES ASSUME NEW v \in Requests, DO!At(v, "commit")' PROVE DO!NewFree(v)'
      BY DEF DocumentsFree
    \* The name of an upload that is to be committed is one of the names before
    <3>1. \A x \in Requests \ {u} : DO!At(x, "commit") => v4[x].new \in v2 /\ v4[x].new < v3
      <4>1. \A i \in v2 : i < v3
        BY <1>2
      <4>. QED
        BY <1>5, <4>1 DEF DO!NewFree
    <3>2. \A x \in Requests \ {u} : DO!Busy(x)' => v4'[x] = v4[x] /\ v4[x].old < v3
      BY <1>4, <2>5 DEF DO!Busy, DO!OldOwned
    <3>3. CASE v = u
      <4>1. v4'[v].new = v3 /\ v3 \in v2' /\ \A t \in Slots : v1'[t] # v3
        BY <1>2, <1>3, <2>1, <2>4, <2>5, <3>3
      <4>2. \A x \in Requests : DO!Busy(x)' => v4'[x].old # v3
        BY <1>2, <1>4, <2>3, <2>4, <2>5, <3>2
      <4>3. \A x \in Requests \ {v} : DO!At(x, "commit")' => v4'[x].new # v3
        BY <1>2, <2>5, <3>1, <3>3 DEF DO!At
      <4>. QED
        BY <4>1, <4>2, <4>3 DEF DO!NewFree
    <3>4. CASE v # u
      <4>1. v4'[v] = v4[v] /\ DO!NewFree(v) /\ v4[v].new < v3 /\ v4[v].new \in v2
        BY <1>5, <2>5, <3>1, <3>4 DEF DO!At
      <4>2. \A x \in Requests : DO!Busy(x)' => v4'[x].old # v4[v].new
        <5>1. o # v4[v].new
          <6>1. CASE slip
            BY <2>2, <4>1, <6>1 DEF DO!NewFree, o, s
          <6>2. CASE ~slip
            BY <2>2, <4>1, <6>2 DEF DO!NewFree, o
          <6>. QED
            BY <6>1, <6>2
        <5>. QED
          BY <2>4, <2>5, <4>1, <5>1 DEF DO!NewFree, DO!Busy
      <4>3. \A x \in Requests \ {v} : DO!At(x, "commit")' => v4'[x].new # v4[v].new
        BY <1>2, <2>4, <2>5, <4>1 DEF DO!NewFree, DO!At
      <4>. QED
        BY <2>1, <4>1, <4>2, <4>3 DEF DO!NewFree
    <3>. QED
      BY <3>3, <3>4
  <2>. QED
    BY <2>6, <2>7, <2>8, <2>9, DocumentsInvIs
\* The row is written, and the old file is next
<1>10. ASSUME NEW u \in Requests, v4[u].step \in {"commit", "clear"}, DO!To(u, "delete"),
              UNCHANGED <<v2, v3>>, NEW n \in Nat, n # 0 => n \in v2 /\ \A s \in Slots : v1[s] # n,
              n # 0 => \A v \in Requests : DO!Busy(v) => v4[v].old # n,
              n # 0 => \A v \in Requests \ {u} : DO!At(v, "commit") => v4[v].new # n,
              \/ v1' = [v1 EXCEPT ![v4[u].slot] = n] /\ v5' \in {v5, v5 \ {v4[u].slot}}
              \/ v1' = v1 /\ v5' = v5 /\ v4[u].old = 0
       PROVE  DO!IInv'
  <2>. DEFINE s == v4[u].slot
              w == [v4[u] EXCEPT !.step = "delete"]
  <2>1. DO!Busy(u) /\ v4[u] \in DO!Work /\ s \in Slots /\ DO!OldOwned(u)
    BY <1>4, <1>6, <1>10
  <2>2. w \in DO!Work /\ w.step = "delete" /\ w.slot = s /\ w.old = v4[u].old /\ w.had = v4[u].had
    BY <2>1, DocumentsStepSet
  <2>3. v4' = [v4 EXCEPT ![u] = w]
    BY <1>10 DEF DO!To
  <2>. HIDE DEF w
  <2>4. /\ v4' \in [Requests -> DO!Work \cup {DO!NoWork}] /\ v4'[u] = w
        /\ \A v \in Requests : v # u => v4'[v] = v4[v]
    BY <1>1, <2>2, <2>3, DocumentsWorkSet
  <2>0. n <= v3 - 1
    BY <1>2, <1>10
  <2>5. /\ v1' \in [Slots -> 0 .. v3 - 1] /\ \A t \in Slots : t # s => v1'[t] = v1[t]
        /\ v1'[s] \in {n, v1[s]} /\ (v1'[s] # n => v1' = v1 /\ v4[u].old = 0)
    BY <1>2, <1>10, <2>0, <2>1
  <2>6. DO!TypeOK'
    BY <1>1, <1>2, <1>10, <2>4, <2>5 DEF DO!TypeOK
  <2>7. DO!FilesKept' /\ DocumentsApart'
    BY <1>1, <1>10, <2>1, <2>5 DEF DO!FilesKept, DocumentsApart
  <2>8. DocumentsHadOld'
    BY <1>4, <2>1, <2>2, <2>4 DEF DocumentsHadOld, DO!Busy
  <2>9. DocumentsOwned'
    <3>. SUFFICES ASSUME NEW v \in Requests, DO!Busy(v)', NEW t \in Slots, v1'[t] = v4'[v].old, v1'[t] # 0
                  PROVE  v4'[v].old < v3' /\ t = v4'[v].slot /\ ~DO!At(v, "delete")'
      <4>1. ASSUME NEW v \in Requests, DO!Busy(v)' PROVE v4'[v].old < v3'
        BY <1>4, <1>10, <2>1, <2>2, <2>4, <4>1 DEF DO!OldOwned, DO!Busy
      <4>. QED
        BY <4>1, Zenon DEF DocumentsOwned, DO!OldOwned
    <3>1. DO!Busy(v) /\ v4'[v].old = v4[v].old /\ v4'[v].slot = v4[v].slot /\ DO!OldOwned(v)
      BY <1>4, <2>1, <2>2, <2>4 DEF DO!Busy
    <3>2. t # s \/ v1' = v1
      BY <1>10, <2>5, <3>1
    <3>3. v1'[t] = v1[t] /\ t = v4[v].slot /\ v4[v].step # "delete"
      BY <2>5, <3>1, <3>2 DEF DO!OldOwned, DO!At
    <3>4. v # u
      <4>1. CASE v1'[s] = n
        BY <1>10, <2>5, <3>1, <3>2, <3>3, <4>1
      <4>2. CASE v1'[s] # n
        BY <2>5, <3>1, <4>2
      <4>. QED
        BY <4>1, <4>2
    <3>. QED
      BY <1>10, <2>4, <3>1, <3>3, <3>4 DEF DO!OldOwned, DO!At
  <2>10. DocumentsFree'
    <3>. SUFFICES ASSUME NEW v \in Requests, DO!At(v, "commit")' PROVE DO!NewFree(v)'
      BY DEF DocumentsFree
    <3>1. v # u /\ v4'[v] = v4[v] /\ DO!NewFree(v) /\ v4[v].new # n
      <4>1. v # u /\ v4'[v] = v4[v] /\ DO!At(v, "commit")
        BY <2>2, <2>4 DEF DO!At
      <4>2. DO!NewFree(v) /\ v4[v].new \in v2
        BY <1>5, <4>1 DEF DO!NewFree
      <4>3. v4[v].new # 0
        BY <1>2, <4>2
      <4>. QED
        BY <1>10, <4>1, <4>2, <4>3
    <3>2. \A x \in Requests : DO!Busy(x)' => DO!Busy(x) /\ v4'[x].old = v4[x].old
      BY <2>1, <2>2, <2>4 DEF DO!Busy
    <3>3. \A x \in Requests \ {v} : DO!At(x, "commit")' => DO!At(x, "commit") /\ v4'[x].new = v4[x].new
      BY <2>2, <2>4 DEF DO!At
    <3>4. \A t \in Slots : v1'[t] # v4[v].new
      BY <2>5, <3>1 DEF DO!NewFree
    <3>. QED
      BY <1>10, <3>1, <3>2, <3>3, <3>4 DEF DO!NewFree
  <2>. QED
    BY <2>6, <2>7, <2>8, <2>9, <2>10, DocumentsInvIs
<1>11. ASSUME NEW u \in Requests, DO!Commit(u) PROVE DO!IInv'
  <2>1. /\ DO!At(u, "commit") /\ DO!To(u, "delete") /\ UNCHANGED <<v2, v3>>
        /\ v1' = [v1 EXCEPT ![v4[u].slot] = v4[u].new] /\ v5' = v5 \ {v4[u].slot}
    BY <1>11 DEF DO!Commit
  <2>2. DO!NewFree(u) /\ DO!Busy(u) /\ v4[u].new \in Nat
    BY <1>4, <1>5, <2>1
  <2>. QED
    BY <1>10, <2>1, <2>2 DEF DO!NewFree, DO!At
<1>12. ASSUME NEW u \in Requests, DO!Clear(u) PROVE DO!IInv'
  <2>1. /\ DO!At(u, "clear") /\ DO!To(u, "delete") /\ UNCHANGED <<v2, v3, v5>>
        /\ v1' = IF v4[u].had THEN [v1 EXCEPT ![v4[u].slot] = 0] ELSE v1
    BY <1>12 DEF DO!Clear
  <2>2. v4[u].had <=> v4[u].old # 0
    BY <1>4, <1>6, <2>1 DEF DO!At
  <2>. QED
    BY <1>10, <2>1, <2>2 DEF DO!At
<1>13. ASSUME NEW u \in Requests, DO!Refused(u) \/ DO!SlipFails(u, FALSE) PROVE DO!IInv'
  <2>1. /\ DO!At(u, "commit") /\ DO!Done(u) /\ UNCHANGED <<v1, v3, v5>>
        /\ v2' = v2 \/ v2' = v2 \ {v4[u].new}
    BY <1>13 DEF DO!Refused, DO!SlipFails
  <2>2. DO!NewFree(u)
    BY <1>5, <2>1
  <2>3. \A s \in Slots : v1[s] # 0 => v1[s] \in v2' \/ s \in v5
    BY <1>3, <2>1, <2>2 DEF DO!NewFree
  <2>4. \A v \in Requests \ {u} : DO!At(v, "commit") => v4[v].new \in v2'
    BY <1>5, <2>1, <2>2 DEF DO!NewFree
  <2>. QED
    BY <1>8, <2>1, <2>3, <2>4
<1>14. ASSUME NEW u \in Requests, DO!Delete(u) PROVE DO!IInv'
  <2>1. /\ DO!At(u, "delete") /\ DO!Done(u) /\ UNCHANGED <<v1, v3, v5>>
        /\ v2' = v2 \/ v2' = v2 \ {v4[u].old}
    BY <1>14 DEF DO!Delete, DO!OldPath
  <2>2. DO!Busy(u) /\ DO!OldOwned(u)
    BY <1>4, <1>6, <2>1 DEF DO!At
  <2>3. \A s \in Slots : v1[s] # 0 => v1[s] \in v2' \/ s \in v5
    BY <1>3, <2>1, <2>2 DEF DO!OldOwned
  <2>4. \A v \in Requests \ {u} : DO!At(v, "commit") => v4[v].new \in v2'
    BY <1>5, <2>1, <2>2 DEF DO!NewFree
  <2>. QED
    BY <1>8, <2>1, <2>3, <2>4
<1>15. ASSUME NEW u \in Requests, DO!Crash(u) PROVE DO!IInv'
  <2>1. DO!Done(u) /\ UNCHANGED <<v1, v2, v3, v5>>
    BY <1>15 DEF DO!Crash
  <2>2. \A v \in Requests \ {u} : DO!At(v, "commit") => v4[v].new \in v2'
    BY <1>5, <2>1 DEF DO!NewFree
  <2>. QED
    BY <1>3, <1>8, <2>1, <2>2
\* The row names the new file, which is gone: the slot is lost
<1>16. ASSUME NEW u \in Requests, DO!SlipFails(u, TRUE) PROVE DO!IInv'
  <2>. DEFINE s == v4[u].slot
              n == v4[u].new
  <2>1. /\ DO!At(u, "commit") /\ DO!Done(u) /\ Kind[s] = "slip" /\ v3' = v3
        /\ v1' = [v1 EXCEPT ![s] = n] /\ v5' = v5 \cup {s} /\ v2' = v2 \ {n}
    BY <1>16 DEF DO!SlipFails
  <2>2. /\ DO!NewFree(u) /\ s \in Slots /\ n \in v2 /\ n \in 0 .. v3 - 1
        /\ \A t \in Slots : v1[t] # n
    <3>1. DO!NewFree(u) /\ s \in Slots
      BY <1>4, <1>5, <2>1
    <3>2. n \in v2 /\ \A t \in Slots : v1[t] # n
      BY <3>1 DEF DO!NewFree
    <3>. HIDE DEF n, s
    <3>3. n \in 0 .. v3 - 1
      BY <1>2, <3>2
    <3>. QED
      BY <3>1, <3>2, <3>3
  <2>3. /\ v4' \in [Requests -> DO!Work \cup {DO!NoWork}] /\ v4'[u] = DO!NoWork
        /\ \A v \in Requests : v # u => v4'[v] = v4[v]
    BY <1>1, <2>1, DocumentsWorkSet DEF DO!Done
  <2>. HIDE DEF s, n
  <2>4. /\ v1' \in [Slots -> 0 .. v3 - 1] /\ v1'[s] = n
        /\ \A t \in Slots : t # s => v1'[t] = v1[t]
    BY <1>2, <2>1, <2>2
  <2>5. DO!TypeOK'
    BY <1>2, <2>1, <2>2, <2>3, <2>4 DEF DO!TypeOK
  <2>6. DO!FilesKept' /\ DocumentsApart'
    BY <1>1, <2>1, <2>2, <2>4 DEF DO!FilesKept, DocumentsApart
  <2>7. \A v \in Requests : DO!Busy(v)' => v # u /\ DO!Busy(v) /\ v4'[v] = v4[v]
    BY <2>3 DEF DO!Busy
  <2>8. \A v \in Requests : DO!Busy(v) => v4[v].old # n
    BY <2>2 DEF DO!NewFree, n
  <2>9. DocumentsHadOld' /\ DocumentsOwned'
    BY <1>4, <2>1, <2>4, <2>7, <2>8 DEF DocumentsHadOld, DocumentsOwned, DO!OldOwned, DO!At
  <2>10. DocumentsFree'
    <3>. SUFFICES ASSUME NEW v \in Requests, DO!At(v, "commit")' PROVE DO!NewFree(v)'
      BY DEF DocumentsFree
    <3>1. v # u /\ v4'[v] = v4[v] /\ DO!NewFree(v) /\ DO!At(v, "commit")
      BY <1>5, <2>3, DocumentsWorkIs DEF DO!At
    <3>2. v4[v].new # n
      BY <2>2, <3>1 DEF DO!NewFree, n
    <3>3. \A w \in Requests \ {v} : DO!At(w, "commit")' => DO!At(w, "commit") /\ v4'[w] = v4[w]
      BY <2>3, DocumentsWorkIs DEF DO!At
    <3>. QED
      BY <2>1, <2>4, <2>7, <3>1, <3>2, <3>3 DEF DO!NewFree
  <2>. QED
    BY <2>5, <2>6, <2>9, <2>10, DocumentsInvIs
<1>17. CASE UNCHANGED DO!vars
  BY <1>1, <1>17, DocumentsInvIs DEF DO!vars, DO!TypeOK, DO!FilesKept, DocumentsApart,
     DocumentsOwned, DocumentsHadOld, DocumentsFree, DO!Busy, DO!At, DO!OldOwned, DO!NewFree
<1>. QED
  BY <1>7, <1>9, <1>11, <1>12, <1>13, <1>14, <1>15, <1>16, <1>17 DEF DO!Next,
     DO!candidate_upload_proof,
     DO!candidate_upload_document, DO!organization_candidate_certificate_upload,
     DO!candidate_upload_salary_slip, DO!candidate_evidence_upload, DO!Remove

LEMMA DocumentsEnough == DO!IInv => DO!TypeOK /\ DO!FilesKept
BY DEF DO!IInv

LEMMA DocumentsMoves ==
  ASSUME [Next]_vars, part' = "Documents"
  PROVE  part = "Documents" /\ [DO!Next]_DO!vars
BY DEF Next, vars, DO!vars

LEMMA DocumentsAlways == Spec => [](part = "Documents" => DO!IInv)
<1>1. Init => (part = "Documents" => DO!IInv)
  BY DocumentsStart, OfficeAssumption DEF Init
<1>2. (part = "Documents" => DO!IInv) /\ [Next]_vars => (part = "Documents" => DO!IInv)'
  BY DocumentsStep, DocumentsMoves, OfficeAssumption
<1>. QED
  BY <1>1, <1>2, PTL DEF Spec

------------------------------------------------------------------------------
(* Support: v1 is active, v2 is feedback, v3 is told, v4 is tickets, v5 is  *)
(* forms, v6 is answers, v7 is raced.                                       *)

\* What a ticket is to say for itself
SupportFine(k, dated) ==
  /\ k.status = "rejected" => k.reply
  /\ k.status \in {"resolved", "rejected"} /\ dated => k.resolved_at

SupportForm == [cand : Placed, next : {"insert", "notify"}] \cup {SU!NoForm}

\* The parts of the invariant, by the variables that they speak of
SupportCounts  == v2 \in [Placed -> Nat] /\ v3 \in [Placed -> Nat] /\ SU!OneFeedback
SupportGiven   == v5 \in [Requests -> SupportForm] /\ SU!ToldLater
SupportTickets == /\ v4 \in Seq(SU!Ticket) /\ v7 \subseteq Nat
                  /\ \A t \in DOMAIN v4 : SupportFine(v4[t], t \notin v7)
SupportPending == v6 \in [Requests -> SU!Answer \cup {SU!NoAnswer}] /\ SU!AnswersFit

\* What is invariant of one answer
SupportFits(r) ==
  LET a == v6[r] IN
  /\ a.ticket \in DOMAIN v4
  /\ a.status = "rejected" => a.reply \/ v4[a.ticket].reply
  /\ a.status \in {"resolved", "rejected"} => a.resolved_at = "now"
  /\ a.status = "none" => a.resolved_at = "none"
  /\ a.alone => /\ a.read = v4[a.ticket].status
                /\ \A q \in Requests \ {r} : v6[q].ticket # a.ticket

LEMMA SupportInvIs ==
  /\ SU!IInv <=> v1 \subseteq Placed /\ SupportCounts /\ SupportGiven /\ SupportTickets /\ SupportPending
  /\ SU!IInv' <=> (v1 \subseteq Placed)' /\ SupportCounts' /\ SupportGiven' /\ SupportTickets' /\ SupportPending'
BY Zenon DEF SU!IInv, SU!TypeOK, SupportCounts, SupportGiven, SupportTickets, SupportPending,
   SupportForm, SupportFine, SU!ClosedTicketsAnswered

LEMMA SupportFitIs ==
  /\ SU!AnswersFit <=> \A r \in Requests : v6[r] # SU!NoAnswer => SupportFits(r)
  /\ SU!AnswersFit' <=> \A r \in Requests : v6'[r] # SU!NoAnswer => SupportFits(r)'
BY Zenon DEF SU!AnswersFit, SupportFits

LEMMA SupportAnswerIs ==
  /\ SU!NoAnswer.ticket = 0
  /\ \A a \in SU!Answer \cup {SU!NoAnswer} : (a # SU!NoAnswer <=> a \in SU!Answer) /\ a.ticket \in Nat
  /\ \A a \in SU!Answer :
       LET x == [a EXCEPT !.alone = FALSE] IN
       /\ x \in SU!Answer /\ x.ticket = a.ticket /\ x.status = a.status /\ x.read = a.read
       /\ x.resolved_at = a.resolved_at /\ x.reply = a.reply /\ x.alone = FALSE
       /\ a.ticket # 0 /\ a.reply \in BOOLEAN /\ a.alone \in BOOLEAN
       /\ a.read \in SU!_TICKET_STATUSES /\ a.status \in SU!_TICKET_STATUSES \cup {"none"}
       /\ a.resolved_at \in {"now", "null", "none"}
<1>1. SU!NoAnswer.ticket = 0
  BY DEF SU!NoAnswer
<1>2. ASSUME NEW a \in SU!Answer
      PROVE  /\ a.ticket \in Nat /\ a.ticket # 0 /\ a.reply \in BOOLEAN /\ a.alone \in BOOLEAN
             /\ a.read \in SU!_TICKET_STATUSES /\ a.status \in SU!_TICKET_STATUSES \cup {"none"}
             /\ a.resolved_at \in {"now", "null", "none"}
  BY DEF SU!Answer
<1>3. ASSUME NEW a \in SU!Answer
      PROVE  LET x == [a EXCEPT !.alone = FALSE] IN
             /\ x \in SU!Answer /\ x.ticket = a.ticket /\ x.status = a.status /\ x.read = a.read
             /\ x.resolved_at = a.resolved_at /\ x.reply = a.reply /\ x.alone = FALSE
  BY DEF SU!Answer
<1>4. \A a \in SU!Answer \cup {SU!NoAnswer} : (a # SU!NoAnswer <=> a \in SU!Answer) /\ a.ticket \in Nat
  BY <1>1, <1>2
<1>. QED
  BY <1>1, <1>2, <1>3, <1>4, Zenon

LEMMA SupportFormIs ==
  ASSUME NEW f \in SupportForm
  PROVE  /\ f.next # "none" => f.cand \in Placed /\ f # SU!NoForm
         /\ f.next \in {"insert", "notify"} => f.cand \in Placed
         /\ f.next = "insert" =>
              /\ [f EXCEPT !.next = "notify"] \in SupportForm
              /\ [f EXCEPT !.next = "notify"].cand = f.cand
              /\ [f EXCEPT !.next = "notify"].next = "notify"
         /\ SU!NoForm \in SupportForm /\ SU!NoForm.next = "none"
         /\ \A c \in Placed : [cand |-> c, next |-> "insert"] \in SupportForm
BY DEF SupportForm, SU!NoForm

LEMMA SupportTicketSet ==
  ASSUME SupportTickets, NEW t \in DOMAIN v4, NEW k \in SU!Ticket,
         v4' = [v4 EXCEPT ![t] = k], v7' \subseteq Nat, v7' \ {t} = v7 \ {t},
         SupportFine(k, t \notin v7')
  PROVE  /\ SupportTickets' /\ DOMAIN v4' = DOMAIN v4 /\ v4'[t] = k
         /\ \A i \in DOMAIN v4 : i # t => v4'[i] = v4[i]
<1>1. v4' \in Seq(SU!Ticket) /\ DOMAIN v4' = DOMAIN v4
      /\ v4'[t] = k /\ \A i \in DOMAIN v4 : i # t => v4'[i] = v4[i]
  BY DEF SupportTickets
<1>2. \A i \in DOMAIN v4 : i # t => (i \in v7' <=> i \in v7)
  OBVIOUS
<1>. QED
  BY <1>1, <1>2 DEF SupportTickets, SupportFine

LEMMA SupportTicketAdded ==
  ASSUME SupportTickets, NEW k \in SU!Ticket, k.status = "open", v4' = Append(v4, k), v7' = v7
  PROVE  /\ SupportTickets' /\ DOMAIN v4 \subseteq DOMAIN v4'
         /\ \A i \in DOMAIN v4 : v4'[i] = v4[i]
<1>1. v4' \in Seq(SU!Ticket) /\ DOMAIN v4' = 1 .. Len(v4) + 1 /\ DOMAIN v4 = 1 .. Len(v4)
      /\ v4'[Len(v4) + 1] = k /\ \A i \in DOMAIN v4 : v4'[i] = v4[i]
      /\ Len(v4) \in Nat
  BY DEF SupportTickets
<1>. QED
  BY <1>1 DEF SupportTickets, SupportFine

LEMMA SupportStart ==
  ASSUME SU!SupportAssumption, SU!Init
  PROVE  SU!IInv
<1>1. SupportCounts
  BY DEF SU!Init, SupportCounts, SU!OneFeedback
<1>2. SupportGiven
  BY DEF SU!Init, SupportGiven, SupportForm, SU!NoForm, SU!ToldLater
<1>3. SupportTickets
  BY DEF SU!Init, SupportTickets
<1>4. SupportPending
  BY SupportFitIs DEF SU!Init, SupportPending
<1>. QED
  BY <1>1, <1>2, <1>3, <1>4, SupportInvIs DEF SU!Init

LEMMA SupportStep ==
  ASSUME SU!SupportAssumption, SU!IInv, [SU!Next]_SU!vars
  PROVE  SU!IInv'
<1>1. v1 \subseteq Placed /\ SupportCounts /\ SupportGiven /\ SupportTickets /\ SupportPending
  BY SupportInvIs
<1>2. /\ v2 \in [Placed -> Nat] /\ v3 \in [Placed -> Nat] /\ SU!OneFeedback
      /\ v5 \in [Requests -> SupportForm] /\ SU!ToldLater
  BY <1>1 DEF SupportCounts, SupportGiven
<1>3. ASSUME UNCHANGED <<v2, v3, v5>>, (v1 \subseteq Placed)', SupportTickets', SupportPending' PROVE SU!IInv'
  BY <1>1, <1>3, SupportInvIs DEF SupportCounts, SupportGiven, SU!OneFeedback, SU!ToldLater
<1>4. ASSUME UNCHANGED <<v1, v4, v6, v7>>, SupportCounts', SupportGiven' PROVE SU!IInv'
  <2>1. SupportTickets'
    BY <1>1, <1>4 DEF SupportTickets
  <2>2. SupportPending'
    BY <1>1, <1>4, SupportFitIs DEF SupportPending, SupportFits
  <2>. QED
    BY <1>1, <1>4, <2>1, <2>2, SupportInvIs
<1>5. ASSUME NEW r \in Requests, NEW f \in SupportForm, f.next # "notify", v5' = [v5 EXCEPT ![r] = f],
             UNCHANGED <<v2, v3>>
      PROVE  SupportCounts' /\ SupportGiven'
  <2>1. v5' \in [Requests -> SupportForm] /\ v5'[r] = f /\ \A q \in Requests : q # r => v5'[q] = v5[q]
    BY <1>2, <1>5
  <2>. QED
    BY <1>2, <1>5, <2>1 DEF SupportCounts, SupportGiven, SU!OneFeedback, SU!ToldLater
<1>6. ASSUME NEW r \in Requests, NEW c \in Placed, SU!Feedback(r, c) PROVE SU!IInv'
  <2>1. v5' = [v5 EXCEPT ![r] = [cand |-> c, next |-> "insert"]]
        /\ UNCHANGED <<v1, v2, v3, v4, v6, v7>>
    BY <1>6 DEF SU!Feedback
  <2>2. [cand |-> c, next |-> "insert"] \in SupportForm /\ [cand |-> c, next |-> "insert"].next # "notify"
    BY DEF SupportForm
  <2>. QED
    BY <1>4, <1>5, <2>1, <2>2
<1>7. ASSUME NEW r \in Requests, SU!FeedbackSaved(r) PROVE SU!IInv'
  <2>. DEFINE f == [v5[r] EXCEPT !.next = "notify"]
              c == v5[r].cand
  <2>1. /\ v5[r].next = "insert" /\ v2[c] = 0 /\ v2' = [v2 EXCEPT ![c] = @ + 1]
        /\ v5' = [v5 EXCEPT ![r] = f] /\ UNCHANGED <<v1, v3, v4, v6, v7>>
    BY <1>7, Zenon DEF SU!FeedbackSaved, SU!KeyFree
  <2>2. c \in Placed /\ f \in SupportForm /\ f.cand = c /\ f.next = "notify"
    BY <1>2, <2>1, SupportFormIs
  <2>3. v3[c] = 0 /\ \A q \in Requests : v5[q].next = "notify" => v5[q].cand # c
    <3>1. v3[c] \in Nat /\ v3[c] <= v2[c]
      BY <1>2, <2>2 DEF SU!OneFeedback
    <3>. QED
      BY <1>2, <2>1, <2>2, <3>1 DEF SU!ToldLater
  <2>. HIDE DEF f
  <2>4. v5' \in [Requests -> SupportForm] /\ v5'[r] = f /\ \A q \in Requests : q # r => v5'[q] = v5[q]
    BY <1>2, <2>1, <2>2
  <2>. HIDE DEF c
  <2>5. /\ v2' \in [Placed -> Nat] /\ v2'[c] = 1
        /\ \A d \in Placed : d # c => v2'[d] = v2[d]
    BY <1>2, <2>1, <2>2
  <2>6. SupportCounts'
    BY <1>2, <2>1, <2>3, <2>5 DEF SupportCounts, SU!OneFeedback
  <2>7. SU!ToldLater'
    <3>. SUFFICES ASSUME NEW s \in Requests, v5'[s].next = "notify"
                  PROVE  /\ v2'[v5'[s].cand] = 1 /\ v3'[v5'[s].cand] = 0
                         /\ \A q \in Requests \ {s} :
                              v5'[q].next = "notify" => v5'[q].cand # v5'[s].cand
      BY DEF SU!ToldLater
    <3>1. CASE s = r
      BY <2>1, <2>2, <2>3, <2>4, <2>5, <3>1
    <3>2. CASE s # r
      <4>1. v5'[s] = v5[s] /\ v5[s].cand # c
        BY <2>3, <2>4, <3>2
      <4>2. /\ v2[v5[s].cand] = 1 /\ v3[v5[s].cand] = 0 /\ v5[s].cand \in Placed
            /\ \A q \in Requests \ {s} : v5[q].next = "notify" => v5[q].cand # v5[s].cand
        BY <1>2, <4>1, SupportFormIs DEF SU!ToldLater
      <4>. QED
        BY <2>1, <2>2, <2>4, <2>5, <4>1, <4>2
    <3>. QED
      BY <3>1, <3>2
  <2>8. SupportGiven'
    BY <2>4, <2>7 DEF SupportGiven
  <2>. QED
    BY <1>4, <2>1, <2>6, <2>8
<1>8. ASSUME NEW r \in Requests, SU!FeedbackRefused(r) PROVE SU!IInv'
  <2>1. v5' = [v5 EXCEPT ![r] = SU!NoForm] /\ UNCHANGED <<v1, v2, v3, v4, v6, v7>>
    BY <1>8 DEF SU!FeedbackRefused
  <2>2. SU!NoForm \in SupportForm /\ SU!NoForm.next # "notify"
    BY DEF SupportForm, SU!NoForm
  <2>. QED
    BY <1>4, <1>5, <2>1, <2>2
<1>9. ASSUME NEW r \in Requests, SU!FeedbackTold(r) PROVE SU!IInv'
  <2>. DEFINE c == v5[r].cand
  <2>1. /\ v5[r].next = "notify" /\ v3' = [v3 EXCEPT ![c] = @ + 1]
        /\ v5' = [v5 EXCEPT ![r] = SU!NoForm] /\ UNCHANGED <<v1, v2, v4, v6, v7>>
    BY <1>9 DEF SU!FeedbackTold
  <2>2. /\ c \in Placed /\ v2[c] = 1 /\ v3[c] = 0
        /\ \A q \in Requests \ {r} : v5[q].next = "notify" => v5[q].cand # c
    BY <1>2, <2>1, SupportFormIs DEF SU!ToldLater
  <2>3. SU!NoForm \in SupportForm /\ SU!NoForm.next = "none"
    BY DEF SupportForm, SU!NoForm
  <2>4. v5' \in [Requests -> SupportForm] /\ v5'[r] = SU!NoForm
        /\ \A q \in Requests : q # r => v5'[q] = v5[q]
    BY <1>2, <2>1, <2>3
  <2>. HIDE DEF c
  <2>5. v3' \in [Placed -> Nat] /\ v3'[c] = 1 /\ \A d \in Placed : d # c => v3'[d] = v3[d]
    BY <1>2, <2>1, <2>2
  <2>6. SupportCounts'
    BY <1>2, <2>1, <2>2, <2>5 DEF SupportCounts, SU!OneFeedback
  <2>7. SU!ToldLater'
    <3>. SUFFICES ASSUME NEW s \in Requests, v5'[s].next = "notify"
                  PROVE  /\ v2'[v5'[s].cand] = 1 /\ v3'[v5'[s].cand] = 0
                         /\ \A q \in Requests \ {s} :
                              v5'[q].next = "notify" => v5'[q].cand # v5'[s].cand
      BY DEF SU!ToldLater
    <3>1. s # r /\ v5'[s] = v5[s]
      BY <2>3, <2>4
    <3>2. /\ v2[v5[s].cand] = 1 /\ v3[v5[s].cand] = 0 /\ v5[s].cand \in Placed
          /\ v5[s].cand # c
          /\ \A q \in Requests \ {s} : v5[q].next = "notify" => v5[q].cand # v5[s].cand
      BY <1>2, <2>2, <3>1, SupportFormIs DEF SU!ToldLater
    <3>. QED
      BY <2>1, <2>3, <2>4, <2>5, <3>1, <3>2
  <2>8. SupportGiven'
    BY <2>4, <2>7 DEF SupportGiven
  <2>. QED
    BY <1>4, <2>1, <2>6, <2>8
<1>10. ASSUME NEW c \in Placed \cup {NoOne}, NEW type \in SU!_REQUEST_TYPES \cup {"withdraw_consent"},
              NEW org \in BOOLEAN, SU!Raise(c, type, org)
       PROVE  SU!IInv'
  <2>. DEFINE k == [cand |-> c, type |-> type, status |-> "open", reply |-> FALSE,
                    resolved_at |-> FALSE, org |-> org]
  <2>1. v4' = Append(v4, k) /\ UNCHANGED <<v1, v2, v3, v5, v6, v7>>
    BY <1>10 DEF SU!Raise
  <2>2. k \in SU!Ticket /\ k.status = "open"
    BY DEF SU!Ticket, SU!_TICKET_STATUSES
  <2>. HIDE DEF k
  <2>3. /\ SupportTickets' /\ DOMAIN v4 \subseteq DOMAIN v4'
        /\ \A i \in DOMAIN v4 : v4'[i] = v4[i]
    BY <1>1, <2>1, <2>2, SupportTicketAdded
  <2>4. SupportPending'
    BY <1>1, <2>1, <2>3, SupportFitIs DEF SupportPending, SupportFits
  <2>. QED
    BY <1>1, <1>3, <2>1, <2>3, <2>4
<1>11. ASSUME NEW c \in Placed, NEW type \in SU!_REQUEST_TYPES, NEW hasAdmin \in BOOLEAN,
              SU!CandidateHelp(c, type, hasAdmin)
       PROVE  SU!IInv'
  <2>1. (hasAdmin /\ type # "technical") \in BOOLEAN
    OBVIOUS
  <2>. QED
    BY <1>10, <1>11, <2>1 DEF SU!CandidateHelp
<1>12. ASSUME NEW c \in Placed, SU!WithdrawConsent(c) PROVE SU!IInv'
  BY <1>10, <1>12 DEF SU!WithdrawConsent
<1>13. CASE SU!StaffTicket
  BY <1>10, <1>13 DEF SU!StaffTicket, SU!_REQUEST_TYPES
<1>14. /\ v6 \in [Requests -> SU!Answer \cup {SU!NoAnswer}]
       /\ \A r \in Requests : v6[r] # SU!NoAnswer => SupportFits(r) /\ v6[r] \in SU!Answer
       /\ \A t \in DOMAIN v4 : /\ v4[t] \in SU!Ticket /\ SupportFine(v4[t], t \notin v7)
                              /\ t \in Nat \ {0}
  <2>1. v6 \in [Requests -> SU!Answer \cup {SU!NoAnswer}] /\ SU!AnswersFit
    BY <1>1 DEF SupportPending
  <2>2. \A t \in DOMAIN v4 : /\ v4[t] \in SU!Ticket /\ SupportFine(v4[t], t \notin v7)
                            /\ t \in Nat \ {0}
    BY <1>1 DEF SupportTickets
  <2>. QED
    BY <2>1, <2>2, SupportFitIs, SupportAnswerIs
<1>15. ASSUME NEW c \in Placed, SU!Restore(c) PROVE SU!IInv'
  <2>1. /\ UNCHANGED <<v2, v3, v4, v5, v6, v7>> /\ v1' = v1 \cup {c}
    BY <1>15 DEF SU!Restore
  <2>2. SupportTickets' /\ SupportPending'
    BY <1>1, <2>1, SupportFitIs DEF SupportTickets, SupportPending, SupportFits
  <2>. QED
    BY <1>1, <1>3, <2>1, <2>2
\* A ticket is read
<1>16. ASSUME NEW r \in Requests, NEW t \in DOMAIN v4, NEW status \in SU!_TICKET_STATUSES \cup {"none"},
              NEW resolved_at \in {"now", "null", "none"}, NEW reply \in BOOLEAN, NEW inactive \in BOOLEAN,
              SU!Reads(r, t, status, resolved_at, reply, inactive),
              status = "rejected" => reply \/ v4[t].reply,
              status \in {"resolved", "rejected"} => resolved_at = "now",
              status = "none" => resolved_at = "none"
       PROVE  SU!IInv'
  <2>. DEFINE others == {q \in Requests : v6[q].ticket = t}
              a == [ticket |-> t, read |-> v4[t].status, status |-> status,
                    resolved_at |-> resolved_at, reply |-> reply, inactive |-> inactive,
                    alone |-> others = {}]
  <2>1. /\ v6' = [q \in Requests |-> IF q = r THEN a
                   ELSE IF q \in others THEN [v6[q] EXCEPT !.alone = FALSE] ELSE v6[q]]
        /\ UNCHANGED <<v1, v2, v3, v4, v5, v7>> /\ v6[r] = SU!NoAnswer
    BY <1>16, Zenon DEF SU!Reads, SU!Free
  <2>2. /\ a \in SU!Answer /\ a.ticket = t /\ a.read = v4[t].status /\ a.status = status
        /\ a.resolved_at = resolved_at /\ a.reply = reply /\ (a.alone <=> others = {})
    <3>1. v4[t].status \in SU!_TICKET_STATUSES /\ t \in Nat \ {0} /\ (others = {}) \in BOOLEAN
      BY <1>14 DEF SU!Ticket
    <3>. HIDE DEF others
    <3>. QED
      BY <1>16, <3>1 DEF SU!Answer
  <2>3. \A q \in others : q \in Requests /\ v6[q] \in SU!Answer /\ v6[q] # SU!NoAnswer
    BY <1>14, SupportAnswerIs
  <2>. HIDE DEF a
  <2>4. /\ v6'[r] = a
        /\ \A q \in Requests \ {r} :
             \/ /\ q \in others /\ v6'[q] = [v6[q] EXCEPT !.alone = FALSE]
                /\ v6[q] \in SU!Answer
             \/ /\ q \notin others /\ v6'[q] = v6[q]
    BY <2>1, <2>3
  <2>5. \A q \in Requests \ {r} :
           /\ v6'[q] \in SU!Answer \cup {SU!NoAnswer} /\ v6'[q].ticket = v6[q].ticket
           /\ v6'[q] # SU!NoAnswer =>
                /\ v6[q] # SU!NoAnswer /\ v6'[q].status = v6[q].status
                /\ v6'[q].read = v6[q].read /\ v6'[q].reply = v6[q].reply
                /\ v6'[q].resolved_at = v6[q].resolved_at
                /\ v6'[q].alone => v6[q].alone /\ q \notin others
    <3>. SUFFICES ASSUME NEW q \in Requests \ {r}
                  PROVE  /\ v6'[q] \in SU!Answer \cup {SU!NoAnswer} /\ v6'[q].ticket = v6[q].ticket
                         /\ v6'[q] # SU!NoAnswer =>
                              /\ v6[q] # SU!NoAnswer /\ v6'[q].status = v6[q].status
                              /\ v6'[q].read = v6[q].read /\ v6'[q].reply = v6[q].reply
                              /\ v6'[q].resolved_at = v6[q].resolved_at
                              /\ v6'[q].alone => v6[q].alone /\ q \notin others
      OBVIOUS
    <3>1. CASE q \in others
      <4>. DEFINE x == [v6[q] EXCEPT !.alone = FALSE]
      <4>1. v6'[q] = x /\ v6[q] \in SU!Answer /\ v6[q] # SU!NoAnswer
        BY <2>3, <2>4, <3>1
      <4>2. /\ x \in SU!Answer /\ x.ticket = v6[q].ticket /\ x.status = v6[q].status
            /\ x.read = v6[q].read /\ x.resolved_at = v6[q].resolved_at
            /\ x.reply = v6[q].reply /\ x.alone = FALSE
        BY <4>1, SupportAnswerIs, Zenon
      <4>. HIDE DEF x
      <4>. QED
        BY <4>1, <4>2
    <3>2. CASE q \notin others
      BY <1>14, <2>4, <3>2
    <3>. QED
      BY <3>1, <3>2
  <2>6. v6' \in [Requests -> SU!Answer \cup {SU!NoAnswer}]
    BY <2>1, <2>2, <2>4, <2>5
  <2>7. SupportFits(r)'
    BY <1>16, <2>1, <2>2, <2>4, <2>5 DEF SupportFits
  <2>8. ASSUME NEW q \in Requests \ {r}, v6'[q] # SU!NoAnswer PROVE SupportFits(q)'
    <3>1. SupportFits(q)
      BY <1>14, <2>5, <2>8
    <3>2. \A p \in Requests \ {q, r} : v6'[p].ticket = v6[p].ticket
      BY <2>5
    <3>3. v6'[q].alone => v6'[r].ticket # v6[q].ticket
      BY <2>2, <2>4, <2>5, <2>8
    <3>. QED
      BY <2>1, <2>5, <2>8, <3>1, <3>2, <3>3 DEF SupportFits
  <2>9. SupportPending'
    BY <2>6, <2>7, <2>8, SupportFitIs DEF SupportPending
  <2>10. SupportTickets'
    BY <1>1, <2>1 DEF SupportTickets
  <2>. QED
    BY <1>1, <1>3, <2>1, <2>9, <2>10
<1>17. ASSUME NEW r \in Requests, NEW t \in DOMAIN v4, SU!Deactivate(r, t) PROVE SU!IInv'
  BY <1>16, <1>17 DEF SU!Deactivate, SU!_TICKET_STATUSES
<1>18. ASSUME NEW r \in Requests, NEW t \in DOMAIN v4, NEW status \in SU!_TICKET_STATUSES,
              NEW reply \in BOOLEAN, SU!Respond(r, t, status, reply)
       PROVE  SU!IInv'
  <2>. DEFINE d == IF status \in {"resolved", "rejected"} THEN "now"
                   ELSE IF v4[t].resolved_at THEN "null" ELSE "none"
  <2>1. /\ SU!Reads(r, t, status, d, reply, FALSE) /\ (status = "rejected" => reply \/ v4[t].reply)
        /\ d \in {"now", "null", "none"} /\ (status \in {"resolved", "rejected"} => d = "now")
    BY <1>18 DEF SU!Respond
  <2>2. status # "none" /\ FALSE \in BOOLEAN
    BY DEF SU!_TICKET_STATUSES
  <2>. HIDE DEF d
  <2>. QED
    BY <1>16, <2>1, <2>2
<1>19. ASSUME NEW r \in Requests, NEW t \in DOMAIN v4, NEW status \in SU!_TICKET_STATUSES,
              NEW reply \in BOOLEAN, SU!SuperRespond(r, t, status, reply)
       PROVE  SU!IInv'
  <2>. DEFINE s == IF status = "rejected" THEN "none" ELSE status
              d == IF status = "resolved" THEN "now" ELSE "none"
  <2>1. /\ SU!Reads(r, t, s, d, reply, FALSE)
        /\ s \in SU!_TICKET_STATUSES \cup {"none"} /\ d \in {"now", "null", "none"} /\ FALSE \in BOOLEAN
    BY <1>19 DEF SU!SuperRespond
  <2>2. /\ s # "rejected" /\ (s \in {"resolved", "rejected"} => d = "now")
        /\ (s = "none" => d = "none")
    BY DEF SU!_TICKET_STATUSES
  <2>. HIDE DEF s, d
  <2>. QED
    BY <1>16, <2>1, <2>2
\* An answer is done with
<1>20. ASSUME NEW r \in Requests, v6' = [v6 EXCEPT ![r] = SU!NoAnswer],
              DOMAIN v4' = DOMAIN v4,
              \A q \in Requests \ {r} : v6[q] # SU!NoAnswer =>
                LET t == v6[q].ticket IN
                /\ v4[t].reply => v4'[t].reply
                /\ v6[q].alone => v4'[t] = v4[t]
       PROVE  SupportPending'
  <2>1. /\ v6' \in [Requests -> SU!Answer \cup {SU!NoAnswer}] /\ v6'[r] = SU!NoAnswer
        /\ \A q \in Requests : q # r => v6'[q] = v6[q]
    BY <1>14, <1>20
  <2>2. ASSUME NEW q \in Requests, v6'[q] # SU!NoAnswer PROVE SupportFits(q)'
    <3>1. q # r /\ v6'[q] = v6[q] /\ SupportFits(q) /\ v6[q] # SU!NoAnswer
      BY <1>14, <2>1, <2>2
    <3>2. v6[q].ticket # 0
      BY <1>14, <3>1, SupportAnswerIs
    <3>3. \A p \in Requests \ {q} : v6[p].ticket # v6[q].ticket
                                   => v6'[p].ticket # v6[q].ticket
      BY <2>1, <3>2, SupportAnswerIs
    <3>. QED
      BY <1>20, <3>1, <3>3 DEF SupportFits
  <2>. QED
    BY <2>1, <2>2, SupportFitIs DEF SupportPending
<1>21. ASSUME NEW r \in Requests, SU!AnswerLost(r) PROVE SU!IInv'
  <2>1. v6' = [v6 EXCEPT ![r] = SU!NoAnswer] /\ UNCHANGED <<v1, v2, v3, v4, v5, v7>>
    BY <1>21 DEF SU!AnswerLost
  <2>2. SupportPending'
    BY <1>20, <2>1
  <2>3. SupportTickets'
    BY <1>1, <2>1 DEF SupportTickets
  <2>. QED
    BY <1>1, <1>3, <2>1, <2>2, <2>3
<1>22. ASSUME NEW r \in Requests, SU!AnswerSaved(r) PROVE SU!IInv'
  <2>. DEFINE a == v6[r]
              t == a.ticket
              k == SU!Written(a)
  <2>1. /\ a # SU!NoAnswer /\ v4' = [v4 EXCEPT ![t] = k]
        /\ v1' = (IF a.inactive THEN v1 \ {v4[t].cand} ELSE v1)
        /\ v7' = (IF ~a.alone THEN v7 \cup {t} ELSE IF a.status = "none" THEN v7 ELSE v7 \ {t})
        /\ v6' = [v6 EXCEPT ![r] = SU!NoAnswer] /\ UNCHANGED <<v2, v3, v5>>
    BY <1>22, Zenon DEF SU!AnswerSaved
  <2>2. SupportFits(r) /\ a \in SU!Answer
    BY <1>14, <2>1
  <2>3. /\ t \in DOMAIN v4 /\ v4[t] \in SU!Ticket /\ SupportFine(v4[t], t \notin v7) /\ t \in Nat
    BY <1>14, <2>2 DEF SupportFits
  <2>4. /\ a.reply \in BOOLEAN /\ a.status \in SU!_TICKET_STATUSES \cup {"none"} /\ a.alone \in BOOLEAN
        /\ v4[t].reply \in BOOLEAN /\ v4[t].resolved_at \in BOOLEAN
        /\ v4[t].status \in SU!_TICKET_STATUSES
    BY <2>2, <2>3, SupportAnswerIs DEF SU!Ticket
  <2>5. /\ k \in SU!Ticket
        /\ k.status = (IF a.status \in {"none", a.read} THEN v4[t].status ELSE a.status)
        /\ k.resolved_at = (IF a.resolved_at = "none" THEN v4[t].resolved_at ELSE a.resolved_at = "now")
        /\ k.reply = (a.reply \/ v4[t].reply)
    <3>. DEFINE x == IF a.status \in {"none", a.read} THEN v4[t].status ELSE a.status
                y == IF a.resolved_at = "none" THEN v4[t].resolved_at ELSE a.resolved_at = "now"
                z == a.reply \/ v4[t].reply
    <3>1. k = [v4[t] EXCEPT !.status = x, !.resolved_at = y, !.reply = z]
      BY Zenon DEF SU!Written, SU!ReplyKept
    <3>2. x \in SU!_TICKET_STATUSES /\ y \in BOOLEAN /\ z \in BOOLEAN
      BY <2>4
    <3>. HIDE DEF x, y, z, k
    <3>3. k \in SU!Ticket /\ k.status = x /\ k.resolved_at = y /\ k.reply = z
      BY <2>3, <3>1, <3>2 DEF SU!Ticket
    <3>. QED
      BY <3>3 DEF x, y, z
  <2>6. v7' \subseteq Nat /\ v7' \ {t} = v7 \ {t}
    BY <1>1, <2>1, <2>3 DEF SupportTickets
  <2>7. SupportFine(k, t \notin v7')
    <3>1. k.status = "rejected" => k.reply
      BY <2>2, <2>3, <2>5 DEF SupportFits, SupportFine
    <3>2. ASSUME k.status \in {"resolved", "rejected"}, t \notin v7' PROVE k.resolved_at
      <4>1. a.alone /\ a.read = v4[t].status
        BY <2>1, <2>2, <3>2 DEF SupportFits
      <4>2. CASE a.status = "none"
        BY <2>1, <2>2, <2>3, <2>5, <3>2, <4>1, <4>2 DEF SupportFits, SupportFine
      <4>3. CASE a.status # "none"
        BY <2>2, <2>5, <3>2, <4>1, <4>3 DEF SupportFits
      <4>. QED
        BY <4>2, <4>3
    <3>. QED
      BY <3>1, <3>2 DEF SupportFine
  <2>. HIDE DEF k
  <2>8. /\ SupportTickets' /\ DOMAIN v4' = DOMAIN v4 /\ v4'[t] = k
        /\ \A i \in DOMAIN v4 : i # t => v4'[i] = v4[i]
    BY <1>1, <2>1, <2>3, <2>5, <2>6, <2>7, SupportTicketSet
  <2>9. ASSUME NEW q \in Requests \ {r}, v6[q] # SU!NoAnswer
        PROVE  /\ v4[v6[q].ticket].reply => v4'[v6[q].ticket].reply
               /\ v6[q].alone => v4'[v6[q].ticket] = v4[v6[q].ticket]
    <3>1. SupportFits(q)
      BY <1>14, <2>9
    <3>2. v6[q].ticket \in DOMAIN v4 /\ (v6[q].alone => v6[q].ticket # t)
      BY <3>1 DEF SupportFits
    <3>. QED
      BY <2>5, <2>8, <3>2
  <2>10. SupportPending'
    BY <1>20, <2>1, <2>8, <2>9
  <2>. QED
    BY <1>1, <1>3, <2>1, <2>8, <2>10
<1>23. CASE UNCHANGED SU!vars
  <2>1. SupportTickets' /\ SupportPending'
    BY <1>1, <1>23, SupportFitIs DEF SU!vars, SupportTickets, SupportPending, SupportFits
  <2>. QED
    BY <1>1, <1>3, <1>23, <2>1 DEF SU!vars
<1>. QED
  BY <1>6, <1>7, <1>8, <1>9, <1>11, <1>12, <1>13, <1>15, <1>17, <1>18, <1>19,
     <1>21, <1>22, <1>23 DEF SU!Next

LEMMA SupportEnough == SU!IInv => SU!TypeOK /\ SU!OneFeedback /\ SU!ClosedTicketsAnswered
BY DEF SU!IInv

LEMMA SupportMoves ==
  ASSUME [Next]_vars, part' = "Support"
  PROVE  part = "Support" /\ [SU!Next]_SU!vars
BY DEF Next, vars, SU!vars

LEMMA SupportAlways == Spec => [](part = "Support" => SU!IInv)
<1>1. Init => (part = "Support" => SU!IInv)
  BY SupportStart, OfficeAssumption DEF Init
<1>2. (part = "Support" => SU!IInv) /\ [Next]_vars => (part = "Support" => SU!IInv)'
  BY SupportStep, SupportMoves, OfficeAssumption
<1>. QED
  BY <1>1, <1>2, PTL DEF Spec

------------------------------------------------------------------------------
(* Attendance: v1 is batches, v2 is batch_of, v3 is attendance, v4 is       *)
(* sheets.                                                                  *)

AttendanceBatched == v1 \subseteq Batches /\ v2 \in [Cands -> v1 \cup {NoBatch}]

\* What is kept of the rows of one candidate and day
AttendanceDay(rows, bs) ==
  rows \in Seq(AD!Row) /\ Len(rows) <= 1 /\ \A i \in DOMAIN rows : rows[i].batch \in bs

AttendanceMarked == DOMAIN v3 = Cands \X Dates /\ \A k \in Cands \X Dates : AttendanceDay(v3[k], v1)

AttendanceIsMarked == v3 \in [Cands \X Dates -> Seq(AD!Row)]

AttendanceSheets == v4 \in [Requests \X Dates -> AD!Sheet]

LEMMA AttendanceInvIs ==
  /\ AD!IInv <=> AttendanceBatched /\ AttendanceIsMarked /\ AttendanceMarked /\ AttendanceSheets
  /\ AD!IInv' <=> AttendanceBatched' /\ AttendanceIsMarked' /\ AttendanceMarked' /\ AttendanceSheets'
BY DEF AD!IInv, AD!TypeOK, AD!MarkedOnce, AttendanceBatched, AttendanceIsMarked,
   AttendanceMarked, AttendanceDay, AttendanceSheets

LEMMA AttendanceSheetIs ==
  ASSUME AD!AttendanceAssumption
  PROVE  /\ AD!NoMarks \in AD!Marks /\ AD!NoSheet \in AD!Sheet
         /\ \A m \in AD!Marks : DOMAIN m \subseteq Cands /\ \A c \in DOMAIN m : m[c] \in MARKS
         /\ \A s \in AD!Sheet : s.marks \in AD!Marks /\ s.old \in AD!Marks
  <1>1. AD!NoMarks \in AD!Marks
    BY DEF AD!NoMarks, AD!Marks
  <1>. QED
    BY <1>1 DEF AD!Sheet, AD!NoSheet, AD!Marks

LEMMA AttendanceMarksAre ==
  ASSUME NEW cs \in SUBSET Cands, NEW m \in [cs -> MARKS]
  PROVE  m \in AD!Marks
BY DEF AD!Marks

\* A day with one more row, which was empty; and one whose row is marked anew
LEMMA AttendanceDayAdded ==
  ASSUME NEW bs, NEW b \in bs \cap Batches, NEW st \in MARKS
  PROVE  AttendanceDay(Append(<<>>, [batch |-> b, status |-> st]), bs)
<1>. DEFINE w == [batch |-> b, status |-> st]
<1>1. w \in AD!Row /\ w.batch = b
  BY DEF AD!Row
<1>. HIDE DEF w
<1>2. Append(<<>>, w) = <<w>>
  BY <1>1
<1>3. <<w>> \in Seq(AD!Row) /\ Len(<<w>>) = 1 /\ DOMAIN <<w>> = {1} /\ <<w>>[1] = w
  BY <1>1
<1>. QED
  BY <1>1, <1>2, <1>3 DEF AttendanceDay, w

LEMMA AttendanceDaySet ==
  ASSUME NEW bs, NEW rows, AttendanceDay(rows, bs), NEW st \in MARKS
  PROVE  AttendanceDay([rows EXCEPT ![1].status = st], bs)
<1>1. rows \in Seq(AD!Row) /\ Len(rows) <= 1 /\ DOMAIN rows = 1 .. Len(rows) /\ Len(rows) \in Nat
  BY DEF AttendanceDay
<1>2. CASE 1 \in DOMAIN rows
  <2>. DEFINE w == [rows[1] EXCEPT !.status = st]
  <2>1. rows[1] \in AD!Row /\ rows[1].batch \in bs
    BY <1>1, <1>2 DEF AttendanceDay
  <2>2. w \in AD!Row /\ w.batch = rows[1].batch
    BY <2>1 DEF AD!Row
  <2>. HIDE DEF w
  <2>3. /\ [rows EXCEPT ![1] = w] \in Seq(AD!Row) /\ Len([rows EXCEPT ![1] = w]) = Len(rows)
        /\ DOMAIN [rows EXCEPT ![1] = w] = DOMAIN rows
        /\ \A i \in DOMAIN rows : [rows EXCEPT ![1] = w][i] = IF i = 1 THEN w ELSE rows[i]
    BY <1>1, <1>2, <2>2
  <2>. QED
    BY <1>1, <2>1, <2>2, <2>3 DEF AttendanceDay, w
<1>3. CASE 1 \notin DOMAIN rows
  <2>1. DOMAIN rows = {} /\ rows = <<>>
    BY <1>1, <1>3
  <2>2. [rows EXCEPT ![1].status = st] = rows
    BY <1>1, <2>1
  <2>. QED
    BY <2>2
<1>. QED
  BY <1>2, <1>3

LEMMA AttendanceShownIs ==
  ASSUME AD!AttendanceAssumption, AttendanceMarked, NEW c \in Cands, NEW b, NEW d \in Dates
  PROVE  AD!Shown(c, b, d) \in MARKS
<1>. DEFINE rows == v3[<<c, d>>]
            at == {i \in DOMAIN rows : rows[i].batch = b}
<1>1. rows \in Seq(AD!Row) /\ Len(rows) <= 1 /\ DOMAIN rows = 1 .. Len(rows) /\ Len(rows) \in Nat
  BY DEF AttendanceMarked, AttendanceDay
<1>2. CASE at = {}
  BY <1>2 DEF AD!Shown, AD!AttendanceAssumption
<1>3. CASE at # {}
  <2>1. at = {1} /\ 1 \in DOMAIN rows
    BY <1>1, <1>3
  <2>2. (CHOOSE i \in at : \A j \in at : j <= i) = 1
    BY <2>1
  <2>3. rows[1].status \in MARKS
    <3>1. rows[1] \in AD!Row
      BY <1>1, <2>1
    <3>. QED
      BY <3>1 DEF AD!Row
  <2>. QED
    BY <1>3, <2>2, <2>3 DEF AD!Shown
<1>. QED
  BY <1>2, <1>3

LEMMA AttendanceStart ==
  ASSUME AD!AttendanceAssumption, AD!Init
  PROVE  AD!IInv
<1>1. AttendanceBatched /\ AttendanceSheets
  BY AttendanceSheetIs DEF AD!Init, AttendanceBatched, AttendanceSheets
<1>2. AttendanceIsMarked /\ AttendanceMarked
  <2>1. <<>> \in Seq(AD!Row) /\ Len(<<>>) = 0 /\ DOMAIN <<>> = {}
    OBVIOUS
  <2>2. AttendanceDay(<<>>, v1)
    BY <2>1 DEF AttendanceDay
  <2>. QED
    BY <2>1, <2>2 DEF AD!Init, AttendanceIsMarked, AttendanceMarked
<1>. QED
  BY <1>1, <1>2, AttendanceInvIs

LEMMA AttendanceStep ==
  ASSUME AD!AttendanceAssumption, AD!IInv, [AD!Next]_AD!vars
  PROVE  AD!IInv'
<1>1. AttendanceBatched /\ AttendanceIsMarked /\ AttendanceMarked /\ AttendanceSheets
  BY AttendanceInvIs
<1>2. ASSUME UNCHANGED <<v3, v4>>, AttendanceBatched', \A k \in Cands \X Dates : AttendanceDay(v3[k], v1')
      PROVE  AD!IInv'
  BY <1>1, <1>2, AttendanceInvIs DEF AttendanceIsMarked, AttendanceMarked, AttendanceSheets
<1>3. ASSUME NEW r \in Requests, NEW d \in Dates, NEW s \in AD!Sheet, v4' = [v4 EXCEPT ![<<r, d>>] = s],
             UNCHANGED <<v1, v2, v3>>
      PROVE  AD!IInv'
  <2>1. AttendanceSheets'
    BY <1>1, <1>3 DEF AttendanceSheets
  <2>. QED
    BY <1>1, <1>3, <2>1, AttendanceInvIs DEF AttendanceIsMarked, AttendanceMarked,
       AttendanceBatched
<1>4. ASSUME NEW b \in Batches, AD!organization_batch_create(b) PROVE AD!IInv'
  <2>1. v1' = v1 \cup {b} /\ UNCHANGED <<v2, v3, v4>>
    BY <1>4 DEF AD!organization_batch_create
  <2>2. AttendanceBatched'
    BY <1>1, <2>1 DEF AttendanceBatched
  <2>3. \A k \in Cands \X Dates : AttendanceDay(v3[k], v1')
    BY <1>1, <2>1 DEF AttendanceMarked, AttendanceDay
  <2>. QED
    BY <1>2, <2>1, <2>2, <2>3
<1>5. ASSUME NEW b \in Batches, AD!organization_batch_delete(b) PROVE AD!IInv'
  <2>1. v1' = v1 \ {b} /\ UNCHANGED <<v2, v3, v4>> /\ AD!Unreferenced(b)
    BY <1>5 DEF AD!organization_batch_delete
  <2>2. AttendanceBatched'
    BY <1>1, <2>1 DEF AttendanceBatched, AD!Unreferenced
  <2>3. \A k \in Cands \X Dates : AttendanceDay(v3[k], v1')
    BY <1>1, <2>1 DEF AttendanceMarked, AttendanceDay, AD!Unreferenced
  <2>. QED
    BY <1>2, <2>1, <2>2, <2>3
<1>6. ASSUME NEW c \in Cands, NEW b \in Batches \cup {NoBatch}, AD!Move(c, b) PROVE AD!IInv'
  <2>1. /\ b \in v1 \cup {NoBatch} /\ v2' = [v2 EXCEPT ![c] = b]
        /\ UNCHANGED <<v1, v3, v4>>
    BY <1>6 DEF AD!Move
  <2>2. AttendanceBatched'
    BY <1>1, <2>1 DEF AttendanceBatched
  <2>3. \A k \in Cands \X Dates : AttendanceDay(v3[k], v1')
    BY <1>1, <2>1 DEF AttendanceMarked
  <2>. QED
    BY <1>2, <2>1, <2>2, <2>3
<1>7. ASSUME NEW r \in Requests, NEW d \in Dates, NEW b \in Batches, AD!organization_attendance(r, b, d)
      PROVE  AD!IInv'
  <2>. DEFINE m == [c \in AD!Members(b) |-> AD!Shown(c, b, d)]
              s == [AD!NoSheet EXCEPT !.at = "shown", !.batch = b, !.marks = m]
  <2>1. v4' = [v4 EXCEPT ![<<r, d>>] = s] /\ UNCHANGED <<v1, v2, v3>>
    BY <1>7 DEF AD!organization_attendance
  <2>2. m \in AD!Marks
    <3>1. \A c \in AD!Members(b) : c \in Cands /\ AD!Shown(c, b, d) \in MARKS
      BY <1>1, AttendanceShownIs DEF AD!Members
    <3>2. AD!Members(b) \in SUBSET Cands /\ m \in [AD!Members(b) -> MARKS]
      BY <3>1
    <3>. QED
      BY <3>2, AttendanceMarksAre
  <2>. HIDE DEF m
  <2>3. s \in AD!Sheet
    BY <2>2, AttendanceSheetIs DEF AD!Sheet
  <2>. HIDE DEF s
  <2>. QED
    BY <1>3, <2>1, <2>3
<1>8. ASSUME NEW r \in Requests, NEW d \in Dates PROVE v4[<<r, d>>] \in AD!Sheet
  BY <1>1 DEF AttendanceSheets
<1>9. ASSUME NEW r \in Requests, NEW d \in Dates, NEW marks \in [DOMAIN v4[<<r, d>>].marks -> MARKS],
             AD!organization_attendance_mark(r, d, marks)
      PROVE  AD!IInv'
  <2>. DEFINE marked == {c \in DOMAIN v4[<<r, d>>].marks : v3[<<c, d>>] # <<>>}
              o == [c \in marked |-> v3[<<c, d>>][1].status]
              s == [v4[<<r, d>>] EXCEPT !.at = "saving", !.marks = marks, !.old = o]
  <2>1. v4' = [v4 EXCEPT ![<<r, d>>] = s] /\ UNCHANGED <<v1, v2, v3>>
    BY <1>9 DEF AD!organization_attendance_mark
  <2>2. DOMAIN v4[<<r, d>>].marks \subseteq Cands
    BY <1>8, AttendanceSheetIs
  <2>3. marks \in AD!Marks
    BY <2>2 DEF AD!Marks
  <2>4. o \in AD!Marks
    <3>1. ASSUME NEW c \in marked PROVE v3[<<c, d>>][1].status \in MARKS
      <4>1. v3[<<c, d>>] \in Seq(AD!Row) /\ v3[<<c, d>>] # <<>>
        BY <1>1, <2>2 DEF AttendanceIsMarked
      <4>2. v3[<<c, d>>][1] \in AD!Row
        BY <4>1
      <4>. QED
        BY <4>2 DEF AD!Row
    <3>. QED
      <4>1. marked \in SUBSET Cands /\ o \in [marked -> MARKS]
        BY <2>2, <3>1
      <4>. QED
        BY <4>1, AttendanceMarksAre
  <2>. HIDE DEF o
  <2>5. s \in AD!Sheet
    BY <1>8, <2>3, <2>4 DEF AD!Sheet
  <2>. HIDE DEF s
  <2>. QED
    BY <1>3, <2>1, <2>5
<1>10. ASSUME NEW r \in Requests, NEW d \in Dates, AD!Save(r, d) PROVE AD!IInv'
  <2>. DEFINE s == v4[<<r, d>>]
  <2>1. /\ AD!Accepted(s, d) /\ UNCHANGED <<v1, v2>>
        /\ v3' = [k \in DOMAIN v3 |-> IF k[2] = d THEN AD!Saved(s, k[1], d) ELSE v3[k]]
        /\ v4' = [v4 EXCEPT ![<<r, d>>] = AD!NoSheet]
    BY <1>10 DEF AD!Save
  <2>2. AttendanceSheets'
    BY <1>1, <2>1, AttendanceSheetIs DEF AttendanceSheets
  <2>3. s \in AD!Sheet /\ s.marks \in AD!Marks /\ s.batch \in Batches \cup {NoBatch}
    BY <1>8 DEF AD!Sheet
  <2>. HIDE DEF s
  <2>4. ASSUME NEW c \in Cands PROVE AttendanceDay(AD!Saved(s, c, d), v1)
    <3>0. AttendanceDay(v3[<<c, d>>], v1)
      BY <1>1 DEF AttendanceMarked
    <3>1. CASE c \notin DOMAIN s.marks
      BY <3>0, <3>1 DEF AD!Saved
    <3>2. CASE c \in DOMAIN s.marks /\ c \notin DOMAIN s.old
      <4>1. AD!Saved(s, c, d) = Append(v3[<<c, d>>], [batch |-> s.batch, status |-> s.marks[c]])
        BY <3>2 DEF AD!Saved
      <4>2. v3[<<c, d>>] = <<>> /\ s.batch \in v1
        BY <2>1, <3>2 DEF AD!Accepted, AD!KeyFree
      <4>3. s.batch \in v1 \cap Batches
        BY <1>1, <4>2 DEF AttendanceBatched
      <4>4. s.marks[c] \in MARKS
        BY <2>3, <3>2, AttendanceSheetIs
      <4>. QED
        BY <4>1, <4>2, <4>3, <4>4, AttendanceDayAdded
    <3>3. CASE c \in DOMAIN s.marks /\ c \in DOMAIN s.old
      <4>1. AD!Saved(s, c, d) \in {v3[<<c, d>>], [v3[<<c, d>>] EXCEPT ![1].status = s.marks[c]]}
        BY <3>3 DEF AD!Saved
      <4>2. s.marks[c] \in MARKS
        BY <2>3, <3>3, AttendanceSheetIs
      <4>. QED
        BY <3>0, <4>1, <4>2, AttendanceDaySet
    <3>. QED
      BY <3>1, <3>2, <3>3
  <2>5. DOMAIN v3 = Cands \X Dates
    BY <1>1 DEF AttendanceMarked
  <2>6. ASSUME NEW k \in Cands \X Dates PROVE AttendanceDay(v3'[k], v1)
    <3>1. k = <<k[1], k[2]>> /\ k[1] \in Cands /\ k[2] \in Dates
      OBVIOUS
    <3>2. CASE k[2] = d
      <4>1. v3'[k] = AD!Saved(s, k[1], d)
        BY <2>1, <2>5, <3>2
      <4>. QED
        BY <2>4, <3>1, <4>1
    <3>3. CASE k[2] # d
      <4>1. v3'[k] = v3[k]
        BY <2>1, <2>5, <3>3
      <4>. QED
        BY <1>1, <4>1 DEF AttendanceMarked
    <3>. QED
      BY <3>2, <3>3
  <2>7. DOMAIN v3' = Cands \X Dates
    BY <2>1, <2>5
  <2>8. AttendanceMarked'
    BY <2>1, <2>6, <2>7 DEF AttendanceMarked
  <2>9. AttendanceIsMarked'
    <3>1. \A k \in Cands \X Dates : v3'[k] \in Seq(AD!Row)
      BY <2>6 DEF AttendanceDay
    <3>. QED
      BY <2>1, <2>5, <3>1 DEF AttendanceIsMarked
  <2>10. AttendanceBatched'
    BY <1>1, <2>1 DEF AttendanceBatched
  <2>. QED
    BY <2>2, <2>8, <2>9, <2>10, AttendanceInvIs
<1>11. ASSUME NEW r \in Requests, NEW d \in Dates, AD!Refused(r, d) PROVE AD!IInv'
  <2>1. v4' = [v4 EXCEPT ![<<r, d>>] = AD!NoSheet] /\ UNCHANGED <<v1, v2, v3>>
    BY <1>11 DEF AD!Refused
  <2>. QED
    BY <1>3, <2>1, AttendanceSheetIs
<1>12. CASE UNCHANGED AD!vars
  BY <1>1, <1>12, AttendanceInvIs DEF AD!vars, AttendanceIsMarked, AttendanceMarked,
     AttendanceSheets, AttendanceBatched
<1>. QED
  BY <1>4, <1>5, <1>6, <1>7, <1>9, <1>10, <1>11, <1>12 DEF AD!Next

LEMMA AttendanceEnough == AD!IInv => AD!TypeOK /\ AD!MarkedOnce
BY DEF AD!IInv

LEMMA AttendanceMoves ==
  ASSUME [Next]_vars, part' = "Attendance"
  PROVE  part = "Attendance" /\ [AD!Next]_AD!vars
BY DEF Next, vars, AD!vars

LEMMA AttendanceAlways == Spec => [](part = "Attendance" => AD!IInv)
<1>1. Init => (part = "Attendance" => AD!IInv)
  BY AttendanceStart, OfficeAssumption DEF Init
<1>2. (part = "Attendance" => AD!IInv) /\ [Next]_vars => (part = "Attendance" => AD!IInv)'
  BY AttendanceStep, AttendanceMoves, OfficeAssumption
<1>. QED
  BY <1>1, <1>2, PTL DEF Spec

------------------------------------------------------------------------------
(* Vacancies: v1 is employer, v2 is vacancies, v3 is saves, v4 is mixed.    *)

VacanciesSaves == [id : VacancyIds, columns : VA!Part] \cup {VA!NoSave}

VacanciesRows == DOMAIN v2 \subseteq VacancyIds /\ v2 \in [DOMAIN v2 -> VA!Vacancy]

VacanciesTypes == v1 \in BOOLEAN /\ v3 \in [Requests -> VacanciesSaves] /\ v4 \subseteq DOMAIN v2

VacanciesPendings == \A r \in Requests : VA!Pending(r)

LEMMA VacanciesInvIs ==
  /\ VA!IInv <=> VacanciesTypes /\ VacanciesRows /\ VA!SalaryRange /\ VacanciesPendings
  /\ VA!IInv' <=> VacanciesTypes' /\ VacanciesRows' /\ VA!SalaryRange' /\ VacanciesPendings'
BY DEF VA!IInv, VA!TypeOK, VacanciesTypes, VacanciesRows, VacanciesPendings, VacanciesSaves

LEMMA VacanciesSaveIs ==
  ASSUME VA!VacanciesAssumption, NEW q \in VacanciesSaves
  PROVE  /\ q # VA!NoSave <=> q.id \in VacancyIds
         /\ q # VA!NoSave => /\ q.id \in VacancyIds /\ q.columns \in VA!Part
         /\ VA!NoSave \in VacanciesSaves /\ VA!NoSave.id = "none" /\ "none" \notin VacancyIds
BY DEF VacanciesSaves, VA!NoSave, VA!VacanciesAssumption

LEMMA VacanciesPartIs ==
  /\ \A p \in VA!Part : DOMAIN p \subseteq VA!Columns /\ \A c \in DOMAIN p : p[c] \in Salaries \cup {VA!NoSalary}
  /\ \A p \in VA!Part : DOMAIN p = VA!Columns => p \in VA!Vacancy
  /\ \A v \in VA!Vacancy : v \in VA!Part /\ DOMAIN v = VA!Columns
BY DEF VA!Part, VA!Vacancy

LEMMA VacanciesChanged ==
  ASSUME NEW v \in VA!Vacancy, NEW cs \in SUBSET VA!Columns
  PROVE  LET p == [c \in cs |-> v[c]] IN p \in VA!Part /\ DOMAIN p = cs /\ \A c \in cs : p[c] = v[c]
BY DEF VA!Part, VA!Vacancy

\* Two rows with the same salaries are in order alike
LEMMA VacanciesOrderOf ==
  ASSUME NEW v, NEW w, \A c \in VA!Columns : v[c] = w[c], VA!InOrder(v)
  PROVE  VA!InOrder(w)
BY DEF VA!InOrder, VA!Columns

\* What a save writes
LEMMA VacanciesWrittenIs ==
  ASSUME VA!VacanciesAssumption, VacanciesRows, NEW q \in VacanciesSaves, q # VA!NoSave,
         q.id \in DOMAIN v2 \/ DOMAIN q.columns = VA!Columns
  PROVE  VA!Written(q) \in VA!Vacancy /\ (DOMAIN q.columns = VA!Columns => \A c \in VA!Columns : VA!Written(q)[c] = q.columns[c])
<1>1. q.columns \in VA!Part
  BY VacanciesSaveIs
<1>2. CASE q.id \in DOMAIN v2
  <2>1. v2[q.id] \in VA!Vacancy
    BY <1>2 DEF VacanciesRows
  <2>. QED
    BY <1>1, <1>2, <2>1, VacanciesPartIs DEF VA!Written, VA!Vacancy
<1>3. CASE q.id \notin DOMAIN v2
  BY <1>1, <1>3, VacanciesPartIs DEF VA!Written
<1>. QED
  BY <1>2, <1>3

LEMMA VacanciesStart ==
  ASSUME VA!VacanciesAssumption, VA!Init
  PROVE  VA!IInv
<1>1. v1 = TRUE /\ v2 = [i \in {} |-> {}] /\ v4 = {} /\ v3 = [r \in Requests |-> VA!NoSave]
  BY DEF VA!Init
<1>2. VA!NoSave \in VacanciesSaves
  BY DEF VacanciesSaves
<1>3. VacanciesTypes /\ VacanciesRows
  BY <1>1, <1>2 DEF VacanciesTypes, VacanciesRows
<1>4. VA!SalaryRange /\ VacanciesPendings
  BY <1>1 DEF VA!SalaryRange, VacanciesPendings, VA!Pending
<1>. QED
  BY <1>3, <1>4, VacanciesInvIs

LEMMA VacanciesStep ==
  ASSUME VA!VacanciesAssumption, VA!IInv, [VA!Next]_VA!vars
  PROVE  VA!IInv'
<1>1. VacanciesTypes /\ VacanciesRows /\ VA!SalaryRange /\ VacanciesPendings
  BY VacanciesInvIs
<1>2. v3 \in [Requests -> VacanciesSaves] /\ v4 \subseteq DOMAIN v2 /\ v1 \in BOOLEAN
  BY <1>1 DEF VacanciesTypes
\* The save of one request changes
<1>3. ASSUME NEW r \in Requests, NEW q \in VacanciesSaves, v3' = [v3 EXCEPT ![r] = q]
      PROVE  /\ v3' \in [Requests -> VacanciesSaves] /\ v3'[r] = q
             /\ \A s \in Requests : s # r => v3'[s] = v3[s]
             /\ \A id \in VacancyIds : VA!Saving(id)' = (VA!Saving(id) \ {r}) \cup {s \in {r} : q.id = id}
  <2>1. v3' \in [Requests -> VacanciesSaves] /\ v3'[r] = q /\ \A s \in Requests : s # r => v3'[s] = v3[s]
    BY <1>2, <1>3
  <2>. QED
    BY <2>1 DEF VA!Saving
<1>4. ASSUME NEW r \in Requests, NEW id \in VacancyIds, NEW p \in VA!Part, VA!Save(r, id, p),
             DOMAIN p = VA!Columns => VA!InOrder(p),
             id \in DOMAIN v2 \/ (DOMAIN p = VA!Columns /\ VA!Saving(id) = {}),
             VA!InOrder(VA!Written([id |-> id, columns |-> p])),
             v4' = v4 \cup {i \in {id} : VA!Saving(i) # {}},
             id \notin DOMAIN v2 => v4' = v4
      PROVE  VA!IInv'
  <2>. DEFINE q == [id |-> id, columns |-> p]
  <2>1. v3[r] = VA!NoSave /\ v3' = [v3 EXCEPT ![r] = q] /\ UNCHANGED <<v1, v2>>
    BY <1>4 DEF VA!Save
  <2>2. q \in VacanciesSaves /\ q.id = id /\ q.columns = p
    BY DEF VacanciesSaves
  <2>3. VA!InOrder(VA!Written(q))
    BY <1>4
  <2>. HIDE DEF q
  <2>4. /\ v3' \in [Requests -> VacanciesSaves] /\ v3'[r] = q
        /\ \A s \in Requests : s # r => v3'[s] = v3[s]
        /\ \A i \in VacancyIds : VA!Saving(i)' = (VA!Saving(i) \ {r}) \cup {s \in {r} : q.id = i}
    BY <1>3, <2>1, <2>2
  <2>5. \A i \in VacancyIds : r \notin VA!Saving(i)
    BY <2>1, VacanciesSaveIs, VA!NoSave \in VacanciesSaves DEF VA!Saving, VacanciesSaves
  <2>6. /\ VA!Saving(id)' = VA!Saving(id) \cup {r} /\ \A i \in VacancyIds : i # id => VA!Saving(i)' = VA!Saving(i)
    <3>1. VA!Saving(id)' = (VA!Saving(id) \ {r}) \cup {s \in {r} : q.id = id}
      BY <2>4
    <3>2. \A i \in VacancyIds : i # id => VA!Saving(i)' = (VA!Saving(i) \ {r}) \cup {s \in {r} : q.id = i}
      BY <2>4
    <3>. QED
      BY <2>2, <2>5, <3>1, <3>2, Zenon
  <2>7. VacanciesTypes' /\ VacanciesRows' /\ VA!SalaryRange'
    BY <1>1, <1>2, <1>4, <2>1, <2>4 DEF VacanciesTypes, VacanciesRows, VA!SalaryRange
  <2>8. VacanciesPendings'
    <3>. SUFFICES ASSUME NEW s \in Requests, v3'[s] # VA!NoSave
                  PROVE  /\ DOMAIN v3'[s].columns = VA!Columns => VA!InOrder(v3'[s].columns)
                         /\ v3'[s].id \in DOMAIN v2' \/ DOMAIN v3'[s].columns = VA!Columns
                         /\ v3'[s].id \notin v4' =>
                              VA!Saving(v3[s].id)' = {s} /\ VA!InOrder(VA!Written(v3[s])')
      BY DEF VacanciesPendings, VA!Pending, VA!Written
    <3>0. VA!Written(v3[s])' = VA!Written(v3'[s])
      BY <2>1 DEF VA!Written
    <3>1. CASE s = r
      <4>1. id \notin v4' => VA!Saving(id) = {}
        BY <1>4
      <4>. QED
        BY <1>4, <2>1, <2>2, <2>3, <2>4, <2>6, <3>0, <3>1, <4>1
    <3>2. CASE s # r
      <4>1. v3'[s] = v3[s] /\ v3[s] # VA!NoSave /\ v3[s] \in VacanciesSaves
        BY <1>2, <2>4, <3>2
      <4>2. v3[s].id \in VacancyIds
        BY <4>1, VacanciesSaveIs
      <4>3. VA!Pending(s)
        BY <1>1 DEF VacanciesPendings
      <4>4. s \in VA!Saving(v3[s].id)
        BY DEF VA!Saving
      <4>5. v3[s].id \notin v4' => v3[s].id # id /\ v3[s].id \notin v4
        BY <1>4, <4>4
      <4>. QED
        BY <2>1, <2>6, <3>0, <4>1, <4>2, <4>3, <4>5 DEF VA!Pending
    <3>. QED
      BY <3>1, <3>2
  <2>. QED
    BY <2>7, <2>8, VacanciesInvIs
<1>5. ASSUME NEW r \in Requests, NEW id \in VacancyIds, NEW v \in VA!Vacancy, VA!organization_vacancy_create(r, id, v)
      PROVE  VA!IInv'
  <2>1. /\ id \notin DOMAIN v2 /\ VA!Saving(id) = {} /\ VA!InOrder(v) /\ VA!Save(r, id, v) /\ v4' = v4
    BY <1>5 DEF VA!organization_vacancy_create, VA!Accepted
  <2>2. v \in VA!Part /\ DOMAIN v = VA!Columns
    BY VacanciesPartIs
  <2>3. VA!Written([id |-> id, columns |-> v]) = v
    BY <2>1 DEF VA!Written
  <2>. QED
    BY <1>4, <2>1, <2>2, <2>3
<1>6. ASSUME NEW r \in Requests, NEW id \in VacancyIds, NEW v \in VA!Vacancy, VA!organization_vacancy_edit(r, id, v)
      PROVE  VA!IInv'
  <2>. DEFINE cs == {k \in VA!Columns : v[k] # v2[id][k]}
              p  == [c \in cs |-> v[c]]
  <2>1. /\ id \in DOMAIN v2 /\ VA!InOrder(v) /\ VA!Save(r, id, p)
        /\ v4' = v4 \cup {i \in {id} : VA!Saving(i) # {}}
    BY <1>6 DEF VA!organization_vacancy_edit, VA!Accepted
  <2>2. p \in VA!Part /\ DOMAIN p = cs /\ \A c \in cs : p[c] = v[c]
    BY VacanciesChanged, cs \in SUBSET VA!Columns
  <2>. HIDE DEF p
  <2>3. \A c \in VA!Columns : v[c] = VA!Written([id |-> id, columns |-> p])[c]
    BY <2>1, <2>2 DEF VA!Written
  <2>4. VA!InOrder(VA!Written([id |-> id, columns |-> p]))
    BY <2>1, <2>3, VacanciesOrderOf
  <2>5. DOMAIN p = VA!Columns => VA!InOrder(p)
    <3>1. DOMAIN p = VA!Columns => \A c \in VA!Columns : v[c] = p[c]
      BY <2>2
    <3>. QED
      BY <2>1, <3>1, VacanciesOrderOf
  <2>. QED
    BY <1>4, <2>1, <2>2, <2>4, <2>5
\* Of the other saves, those of another vacancy are as they were
<1>7. ASSUME NEW r \in Requests, v3[r] # VA!NoSave, v3' = [v3 EXCEPT ![r] = VA!NoSave],
             NEW s \in Requests, v3'[s] # VA!NoSave
      PROVE  /\ s # r /\ v3'[s] = v3[s] /\ v3[s] # VA!NoSave /\ v3[s] \in VacanciesSaves
             /\ v3[s].id \in VacancyIds /\ VA!Pending(s)
             /\ s \in VA!Saving(v3[s].id) /\ v3[r].id \in VacancyIds /\ r \in VA!Saving(v3[r].id)
             /\ \A i \in VacancyIds : VA!Saving(i)' = VA!Saving(i) \ {r}
  <2>1. VA!NoSave \in VacanciesSaves /\ VA!NoSave.id = "none" /\ "none" \notin VacancyIds
    BY VacanciesSaveIs, VA!NoSave \in VacanciesSaves DEF VacanciesSaves
  <2>2. /\ v3'[r] = VA!NoSave /\ \A x \in Requests : x # r => v3'[x] = v3[x]
        /\ \A id \in VacancyIds : VA!Saving(id)' = (VA!Saving(id) \ {r}) \cup {x \in {r} : VA!NoSave.id = id}
    BY <1>3, <1>7, <2>1
  <2>3. s # r /\ v3'[s] = v3[s] /\ v3[s] # VA!NoSave /\ v3[s] \in VacanciesSaves /\ v3[r] \in VacanciesSaves
    BY <1>2, <1>7, <2>2
  <2>4. v3[s].id \in VacancyIds /\ v3[r].id \in VacancyIds
    BY <1>7, <2>3, VacanciesSaveIs
  <2>. QED
    BY <1>1, <2>1, <2>2, <2>3, <2>4 DEF VacanciesPendings, VA!Saving
<1>8. ASSUME NEW r \in Requests, VA!Lost(r) PROVE VA!IInv'
  <2>1. /\ v3[r] # VA!NoSave /\ v3' = [v3 EXCEPT ![r] = VA!NoSave] /\ UNCHANGED <<v1, v2, v4>>
    BY <1>8 DEF VA!Lost
  <2>2. v3' \in [Requests -> VacanciesSaves]
    BY <1>2, <2>1 DEF VacanciesSaves
  <2>3. VacanciesTypes' /\ VacanciesRows' /\ VA!SalaryRange'
    BY <1>1, <1>2, <2>1, <2>2 DEF VacanciesTypes, VacanciesRows, VA!SalaryRange
  <2>4. VacanciesPendings'
    <3>. SUFFICES ASSUME NEW s \in Requests, v3'[s] # VA!NoSave
                  PROVE  /\ DOMAIN v3'[s].columns = VA!Columns => VA!InOrder(v3'[s].columns)
                         /\ v3'[s].id \in DOMAIN v2' \/ DOMAIN v3'[s].columns = VA!Columns
                         /\ v3'[s].id \notin v4' =>
                              VA!Saving(v3[s].id)' = {s} /\ VA!InOrder(VA!Written(v3[s])')
      BY DEF VacanciesPendings, VA!Pending, VA!Written
    <3>1. VA!Written(v3[s])' = VA!Written(v3'[s])
      BY <2>1 DEF VA!Written
    <3>2. /\ s # r /\ v3'[s] = v3[s] /\ v3[s] # VA!NoSave /\ v3[s].id \in VacancyIds /\ VA!Pending(s)
          /\ \A i \in VacancyIds : VA!Saving(i)' = VA!Saving(i) \ {r}
      BY <1>7, <2>1
    <3>. QED
      BY <2>1, <3>1, <3>2 DEF VA!Pending
  <2>. QED
    BY <2>3, <2>4, VacanciesInvIs
<1>9. ASSUME NEW r \in Requests, VA!Commit(r) PROVE VA!IInv'
  <2>. DEFINE q == v3[r]
              w == VA!Written(q)
  <2>1. /\ q # VA!NoSave /\ v2' = [i \in DOMAIN v2 \cup {q.id} |-> IF i = q.id THEN w ELSE v2[i]]
        /\ v3' = [v3 EXCEPT ![r] = VA!NoSave] /\ v1' = v1
        /\ v4' = IF DOMAIN q.columns = VA!Columns THEN v4 \ {i \in {q.id} : VA!Saving(i) = {r}} ELSE v4
    BY <1>9 DEF VA!Commit
  <2>2. q \in VacanciesSaves /\ q.id \in VacancyIds /\ VA!Pending(r)
    BY <1>1, <1>2, <2>1, VacanciesSaveIs DEF VacanciesPendings
  <2>3. w \in VA!Vacancy /\ (DOMAIN q.columns = VA!Columns => \A c \in VA!Columns : w[c] = q.columns[c])
    BY <1>1, <2>1, <2>2, VacanciesWrittenIs DEF VA!Pending
  \* The row is in order where it must be
  <2>4. q.id \notin v4' => VA!InOrder(w)
    <3>1. CASE q.id \in v4
      <4>1. q.id \notin v4' => DOMAIN q.columns = VA!Columns
        BY <2>1, <3>1
      <4>2. DOMAIN q.columns = VA!Columns => VA!InOrder(w)
        <5>1. DOMAIN q.columns = VA!Columns => VA!InOrder(q.columns) /\ \A c \in VA!Columns : q.columns[c] = w[c]
          BY <2>1, <2>2, <2>3 DEF VA!Pending
        <5>. QED
          BY <5>1, VacanciesOrderOf
      <4>. QED
        BY <4>1, <4>2
    <3>2. CASE q.id \notin v4
      BY <2>1, <2>2, <3>2 DEF VA!Pending
    <3>. QED
      BY <3>1, <3>2
  <2>. HIDE DEF w
  <2>5. v3' \in [Requests -> VacanciesSaves]
    BY <1>2, <2>1 DEF VacanciesSaves
  <2>6. DOMAIN v2' = DOMAIN v2 \cup {q.id} /\ v2'[q.id] = w
        /\ \A i \in DOMAIN v2 : i # q.id => v2'[i] = v2[i]
    BY <2>1
  <2>7. VacanciesRows'
    BY <1>1, <2>1, <2>2, <2>3, <2>6 DEF VacanciesRows
  <2>8. v4' \subseteq v4 /\ \A i \in v4 : i # q.id => i \in v4'
    BY <2>1
  <2>9. VacanciesTypes'
    BY <1>2, <2>1, <2>5, <2>6, <2>8 DEF VacanciesTypes
  <2>10. VA!SalaryRange'
    <3>. SUFFICES ASSUME NEW i \in DOMAIN v2' \ v4' PROVE VA!InOrder(v2'[i])
      BY DEF VA!SalaryRange
    <3>1. CASE i = q.id
      BY <2>4, <2>6, <3>1
    <3>2. CASE i # q.id
      BY <1>1, <2>6, <2>8, <3>2 DEF VA!SalaryRange
    <3>. QED
      BY <3>1, <3>2
  <2>11. VacanciesPendings'
    <3>. SUFFICES ASSUME NEW s \in Requests, v3'[s] # VA!NoSave
                  PROVE  /\ DOMAIN v3'[s].columns = VA!Columns => VA!InOrder(v3'[s].columns)
                         /\ v3'[s].id \in DOMAIN v2' \/ DOMAIN v3'[s].columns = VA!Columns
                         /\ v3'[s].id \notin v4' =>
                              VA!Saving(v3[s].id)' = {s} /\ VA!InOrder(VA!Written(v3[s])')
      BY DEF VacanciesPendings, VA!Pending, VA!Written
    <3>1. /\ s # r /\ v3'[s] = v3[s] /\ v3[s] # VA!NoSave /\ v3[s].id \in VacancyIds /\ VA!Pending(s)
          /\ s \in VA!Saving(v3[s].id) /\ r \in VA!Saving(q.id)
          /\ \A i \in VacancyIds : VA!Saving(i)' = VA!Saving(i) \ {r}
      BY <1>7, <2>1
    \* Another save of the same vacancy overlaps with this one
    <3>2. CASE v3[s].id = q.id
      <4>1. q.id \in v4
        BY <2>1, <2>2, <3>1, <3>2 DEF VA!Pending
      <4>2. q.id \in v4'
        BY <2>1, <3>1, <3>2, <4>1
      <4>. QED
        BY <2>6, <3>1, <3>2, <4>2 DEF VA!Pending
    <3>3. CASE v3[s].id # q.id
      <4>1. v3[s].id \notin v4' => v3[s].id \notin v4
        BY <2>8, <3>3
      <4>2. v3[s].id \in DOMAIN v2' <=> v3[s].id \in DOMAIN v2
        BY <2>6, <3>3
      <4>3. VA!Written(v3[s])' = VA!Written(v3[s])
        <5>1. v3[s].id \in DOMAIN v2 => v2'[v3[s].id] = v2[v3[s].id]
          BY <2>6, <3>3
        <5>. QED
          BY <3>1, <4>2, <5>1 DEF VA!Written
      <4>4. v3[s].id \notin v4' => r \notin VA!Saving(v3[s].id)
        BY <3>1, <3>3, <4>1 DEF VA!Pending
      <4>. QED
        BY <3>1, <4>1, <4>2, <4>3, <4>4 DEF VA!Pending
    <3>. QED
      BY <3>2, <3>3
  <2>. QED
    BY <2>7, <2>9, <2>10, <2>11, VacanciesInvIs
<1>10. CASE VA!organization_employer_delete
  <2>1. v1' \in BOOLEAN /\ UNCHANGED <<v2, v3, v4>>
    BY <1>10 DEF VA!organization_employer_delete
  <2>. QED
    BY <1>1, <2>1, VacanciesInvIs DEF VacanciesTypes, VacanciesRows, VA!SalaryRange,
       VacanciesPendings, VA!Pending, VA!Saving, VA!Written
<1>11. CASE UNCHANGED VA!vars
  BY <1>1, <1>11, VacanciesInvIs DEF VA!vars, VacanciesTypes, VacanciesRows, VA!SalaryRange,
     VacanciesPendings, VA!Pending, VA!Saving, VA!Written
<1>. QED
  BY <1>5, <1>6, <1>8, <1>9, <1>10, <1>11 DEF VA!Next

LEMMA VacanciesEnough == VA!IInv => VA!TypeOK /\ VA!SalaryRange
BY DEF VA!IInv

LEMMA VacanciesMoves ==
  ASSUME [Next]_vars, part' = "Vacancies"
  PROVE  part = "Vacancies" /\ [VA!Next]_VA!vars
BY DEF Next, vars, VA!vars

LEMMA VacanciesAlways == Spec => [](part = "Vacancies" => VA!IInv)
<1>1. Init => (part = "Vacancies" => VA!IInv)
  BY VacanciesStart, OfficeAssumption DEF Init
<1>2. (part = "Vacancies" => VA!IInv) /\ [Next]_vars => (part = "Vacancies" => VA!IInv)'
  BY VacanciesStep, VacanciesMoves, OfficeAssumption
<1>. QED
  BY <1>1, <1>2, PTL DEF Spec

------------------------------------------------------------------------------
(* FeatureFlags: v1 is rows, v2 is toggles, v3 is asked, v4 is crossed.     *)

FlagsChange == [owner : FF!Owners, found : BOOLEAN, old : BOOLEAN, new : BOOLEAN, busy : BOOLEAN]

FlagsAnswers == {<<>>, <<TRUE>>, <<FALSE>>}

\* An owner has no row or one, of one of the two values
FlagsOneRowEach == v1 \in [FF!Owners -> FlagsAnswers]

FlagsFoundRow == \A r \in Requests : v2[r].busy /\ v2[r].found => v1[v2[r].owner] # <<>>

FlagsTypes == v4 \subseteq FF!Owners /\ v3 \in [FF!Owners -> FlagsAnswers] /\ v2 \in [Requests -> FlagsChange]

LEMMA FlagsNatOne == \A n \in Nat : n <= 1 => n = 0 \/ n = 1
OBVIOUS

LEMMA FlagsShort ==
  ASSUME NEW s \in Seq(BOOLEAN)
  PROVE  Len(s) <= 1 <=> s \in FlagsAnswers
<1>1. Len(s) \in Nat
  OBVIOUS
<1>2. ASSUME Len(s) <= 1 PROVE s \in FlagsAnswers
  <2>1. CASE Len(s) = 0
    BY <2>1 DEF FlagsAnswers
  <2>2. CASE Len(s) = 1
    <3>1. s = <<s[1]>> /\ s[1] \in BOOLEAN
      BY <2>2
    <3>2. s[1] = TRUE \/ s[1] = FALSE
      BY <3>1
    <3>. QED
      BY <3>1, <3>2, Zenon DEF FlagsAnswers
  <2>3. Len(s) = 0 \/ Len(s) = 1
    BY <1>1, <1>2, FlagsNatOne, Zenon
  <2>. QED
    BY <2>1, <2>2, <2>3, Zenon
<1>3. Len(<<>>) <= 1 /\ Len(<<TRUE>>) <= 1 /\ Len(<<FALSE>>) <= 1
  OBVIOUS
<1>. QED
  BY <1>2, <1>3, Zenon DEF FlagsAnswers

LEMMA FlagsAnswersAre ==
  /\ FlagsAnswers \subseteq Seq(BOOLEAN)
  /\ \A v \in BOOLEAN : <<v>> \in FlagsAnswers /\ <<v>> # <<>> /\ <<v>>[1] = v /\ Append(<<>>, v) = <<v>>
  /\ \A s \in FlagsAnswers : s # <<>> => s[1] \in BOOLEAN /\ s = <<s[1]>>
  /\ \A s \in FlagsAnswers, v \in BOOLEAN : s # <<>> => [s EXCEPT ![1] = v] = <<v>>
<1>1. \A s \in FlagsAnswers : s = <<>> \/ s = <<TRUE>> \/ s = <<FALSE>>
  BY Zenon DEF FlagsAnswers
<1>2. <<>> \in FlagsAnswers /\ <<TRUE>> \in FlagsAnswers /\ <<FALSE>> \in FlagsAnswers
  BY Zenon DEF FlagsAnswers
<1>3. FlagsAnswers \subseteq Seq(BOOLEAN)
  <2>1. <<>> \in Seq(BOOLEAN) /\ <<TRUE>> \in Seq(BOOLEAN) /\ <<FALSE>> \in Seq(BOOLEAN)
    OBVIOUS
  <2>. QED
    BY <1>1, <2>1, Zenon
<1>4. ASSUME NEW v \in BOOLEAN
      PROVE  <<v>> \in FlagsAnswers /\ <<v>> # <<>> /\ <<v>>[1] = v /\ Append(<<>>, v) = <<v>>
  <2>1. v = TRUE \/ v = FALSE
    OBVIOUS
  <2>2. <<v>> \in FlagsAnswers
    BY <1>2, <2>1, Zenon
  <2>. QED
    BY <2>2
<1>5. ASSUME NEW s \in FlagsAnswers, s # <<>>
      PROVE  s[1] \in BOOLEAN /\ s = <<s[1]>>
  <2>1. CASE s = <<TRUE>>
    BY <2>1
  <2>2. CASE s = <<FALSE>>
    BY <2>2
  <2>. QED
    BY <1>1, <1>5, <2>1, <2>2, Zenon
<1>6. ASSUME NEW s \in FlagsAnswers, NEW v \in BOOLEAN, s # <<>>
      PROVE  [s EXCEPT ![1] = v] = <<v>>
  <2>1. CASE s = <<TRUE>>
    BY <2>1
  <2>2. CASE s = <<FALSE>>
    BY <2>2
  <2>. QED
    BY <1>1, <1>6, <2>1, <2>2, Zenon
<1>. QED
  BY <1>3, <1>4, <1>5, <1>6, Zenon

LEMMA FlagsAnswerTrue ==
  ASSUME NEW s \in FlagsAnswers, s # <<>>
  PROVE  s[1] <=> s = <<TRUE>>
<1>1. s[1] \in BOOLEAN /\ s = <<s[1]>>
  BY FlagsAnswersAre
<1>2. CASE s[1] = TRUE
  BY <1>1, <1>2
<1>3. CASE s[1] = FALSE
  <2>1. s = <<FALSE>> /\ <<FALSE>> # <<TRUE>>
    BY <1>1, <1>3
  <2>. QED
    BY <1>3, <2>1
<1>. QED
  BY <1>1, <1>2, <1>3

LEMMA FlagsInvIs ==
  /\ FF!IInv <=> FlagsTypes /\ FlagsOneRowEach /\ FlagsFoundRow /\ \A o \in FF!Owners \ v4 : FF!Settled(o)
  /\ FF!IInv' <=> FlagsTypes' /\ FlagsOneRowEach' /\ FlagsFoundRow' /\ \A o \in FF!Owners \ v4' : FF!Settled(o)'
<1>1. FlagsOneRowEach <=> v1 \in [FF!Owners -> Seq(BOOLEAN)] /\ FF!OneRow
  <2>1. ASSUME FlagsOneRowEach PROVE v1 \in [FF!Owners -> Seq(BOOLEAN)] /\ FF!OneRow
    BY <2>1, FlagsAnswersAre, FlagsShort DEF FlagsOneRowEach, FF!OneRow
  <2>2. ASSUME v1 \in [FF!Owners -> Seq(BOOLEAN)], FF!OneRow PROVE FlagsOneRowEach
    BY <2>2, FlagsShort DEF FlagsOneRowEach, FF!OneRow
  <2>. QED
    BY <2>1, <2>2
<1>2. FlagsOneRowEach' <=> v1' \in [FF!Owners -> Seq(BOOLEAN)] /\ FF!OneRow'
  <2>1. ASSUME FlagsOneRowEach' PROVE v1' \in [FF!Owners -> Seq(BOOLEAN)] /\ FF!OneRow'
    BY <2>1, FlagsAnswersAre, FlagsShort DEF FlagsOneRowEach, FF!OneRow
  <2>2. ASSUME v1' \in [FF!Owners -> Seq(BOOLEAN)], FF!OneRow' PROVE FlagsOneRowEach'
    BY <2>2, FlagsShort DEF FlagsOneRowEach, FF!OneRow
  <2>. QED
    BY <2>1, <2>2
<1>. QED
  BY <1>1, <1>2, Zenon DEF FF!IInv, FF!TypeOK, FlagsTypes, FlagsFoundRow, FlagsChange,
     FlagsAnswers

LEMMA FlagsChangeIs ==
  /\ FF!NoToggle \in FlagsChange /\ ~FF!NoToggle.busy
  /\ \A q \in FlagsChange : q.owner \in FF!Owners /\ q.new \in BOOLEAN
BY DEF FF!NoToggle, FlagsChange, FF!Owners

LEMMA FlagsStart ==
  ASSUME FF!FeatureFlagsAssumption, FF!Init
  PROVE  FF!IInv
<1>1. /\ v1 = [o \in FF!Owners |-> <<>>] /\ v3 = [o \in FF!Owners |-> <<>>] /\ v4 = {}
      /\ v2 = [r \in Requests |-> FF!NoToggle]
  BY DEF FF!Init
<1>2. FlagsTypes /\ FlagsOneRowEach
  BY <1>1, FlagsChangeIs DEF FlagsTypes, FlagsOneRowEach, FlagsAnswers
<1>3. FlagsFoundRow /\ \A o \in FF!Owners : FF!Toggling(o) = {} /\ v1[o] = v3[o]
  BY <1>1, FlagsChangeIs DEF FlagsFoundRow, FF!Toggling
<1>. QED
  BY <1>2, <1>3, FlagsInvIs DEF FF!Settled

LEMMA FlagsStep ==
  ASSUME FF!FeatureFlagsAssumption, FF!IInv, [FF!Next]_FF!vars
  PROVE  FF!IInv'
<1>1. FlagsTypes /\ FlagsOneRowEach /\ FlagsFoundRow /\ \A o \in FF!Owners \ v4 : FF!Settled(o)
  BY FlagsInvIs
<1>2. /\ v4 \subseteq FF!Owners /\ v3 \in [FF!Owners -> FlagsAnswers] /\ v2 \in [Requests -> FlagsChange]
      /\ v1 \in [FF!Owners -> FlagsAnswers]
  BY <1>1 DEF FlagsTypes, FlagsOneRowEach
<1>3. ASSUME NEW r \in Requests, NEW o \in FF!Owners, NEW value \in BOOLEAN, FF!Toggle(r, o, value) PROVE FF!IInv'
  <2>. DEFINE q == [owner |-> o, found |-> v1[o] # <<>>, old |-> v1[o] # <<>> /\ v1[o][1],
                    new |-> value, busy |-> TRUE]
  <2>1. /\ ~v2[r].busy /\ v2' = [v2 EXCEPT ![r] = q] /\ UNCHANGED <<v1, v3>>
        /\ v4' = IF FF!Toggling(o) = {} THEN v4 \ {o} ELSE v4 \cup {o}
    BY <1>3 DEF FF!Toggle
  <2>2. /\ q \in FlagsChange /\ q.owner = o /\ q.busy /\ q.found = (v1[o] # <<>>)
        /\ (v1[o] # <<>> => q.old = v1[o][1])
    <3>1. v1[o] \in FlagsAnswers
      BY <1>2
    <3>2. v1[o] # <<>> => v1[o][1] \in BOOLEAN
      BY <3>1, FlagsAnswersAre
    <3>3. (v1[o] # <<>>) \in BOOLEAN /\ (v1[o] # <<>> /\ v1[o][1]) \in BOOLEAN
      OBVIOUS
    <3>. QED
      BY <3>2, <3>3 DEF FlagsChange
  <2>. HIDE DEF q
  <2>3. /\ v2' \in [Requests -> FlagsChange] /\ v2'[r] = q
        /\ \A s \in Requests : s # r => v2'[s] = v2[s]
    BY <1>2, <2>1, <2>2
  <2>4. FlagsTypes' /\ FlagsOneRowEach'
    BY <1>1, <1>2, <2>1, <2>3 DEF FlagsTypes, FlagsOneRowEach
  <2>5. FlagsFoundRow'
    BY <1>1, <2>1, <2>2, <2>3 DEF FlagsFoundRow
  <2>6. /\ FF!Toggling(o)' = FF!Toggling(o) \cup {r}
        /\ \A p \in FF!Owners \ {o} : FF!Toggling(p)' = FF!Toggling(p) /\ r \notin FF!Toggling(p)
    BY <2>1, <2>2, <2>3 DEF FF!Toggling
  <2>7. ASSUME NEW p \in FF!Owners \ v4' PROVE FF!Settled(p)'
    <3>1. CASE p = o
      <4>1. FF!Toggling(o) = {}
        BY <2>1, <2>7, <3>1
      <4>2. FF!Toggling(p)' = {r}
        BY <2>6, <3>1, <4>1
      <4>. QED
        BY <2>1, <2>2, <2>3, <3>1, <4>2 DEF FF!Settled
    <3>2. CASE p # o
      <4>1. FF!Settled(p) /\ FF!Toggling(p)' = FF!Toggling(p) /\ r \notin FF!Toggling(p)
        BY <1>1, <2>1, <2>6, <2>7, <3>2
      <4>2. \A s \in FF!Toggling(p) : s \in Requests /\ v2'[s] = v2[s]
        BY <2>3, <4>1 DEF FF!Toggling
      <4>. QED
        BY <2>1, <4>1, <4>2 DEF FF!Settled
    <3>. QED
      BY <3>1, <3>2
  <2>. QED
    BY <2>4, <2>5, <2>7, FlagsInvIs
\* A request is done with its toggle
<1>4. ASSUME NEW r \in Requests, v2[r].busy, v2' = [v2 EXCEPT ![r] = FF!NoToggle]
      PROVE  /\ v2' \in [Requests -> FlagsChange] /\ v2[r] \in FlagsChange /\ v2[r].owner \in FF!Owners
             /\ ~v2'[r].busy /\ \A s \in Requests : s # r => v2'[s] = v2[s]
             /\ \A p \in FF!Owners : FF!Toggling(p)' = FF!Toggling(p) \ {r}
             /\ \A p \in FF!Owners : r \in FF!Toggling(p) <=> p = v2[r].owner
  <2>1. /\ v2' \in [Requests -> FlagsChange] /\ v2'[r] = FF!NoToggle
        /\ \A s \in Requests : s # r => v2'[s] = v2[s]
    BY <1>2, <1>4, FlagsChangeIs
  <2>2. \A p \in FF!Owners : FF!Toggling(p)' = FF!Toggling(p) \ {r}
    BY <2>1, FlagsChangeIs DEF FF!Toggling
  <2>. QED
    BY <1>2, <1>4, <2>1, <2>2, FlagsChangeIs DEF FF!Toggling
<1>5. ASSUME NEW r \in Requests, FF!Lost(r) PROVE FF!IInv'
  <2>. DEFINE o == v2[r].owner
  <2>1. /\ v2[r].busy /\ v2' = [v2 EXCEPT ![r] = FF!NoToggle] /\ v4' = v4 \cup {o}
        /\ UNCHANGED <<v1, v3>>
    BY <1>5 DEF FF!Lost
  <2>2. /\ v2' \in [Requests -> FlagsChange] /\ o \in FF!Owners
        /\ ~v2'[r].busy /\ \A s \in Requests : s # r => v2'[s] = v2[s]
        /\ \A p \in FF!Owners : FF!Toggling(p)' = FF!Toggling(p) \ {r}
        /\ \A p \in FF!Owners : r \in FF!Toggling(p) <=> p = o
    BY <1>4, <2>1
  <2>. HIDE DEF o
  <2>3. FlagsTypes' /\ FlagsOneRowEach' /\ FlagsFoundRow'
    BY <1>1, <1>2, <2>1, <2>2 DEF FlagsTypes, FlagsOneRowEach, FlagsFoundRow
  <2>4. ASSUME NEW p \in FF!Owners \ v4' PROVE FF!Settled(p)'
    <3>1. p # o /\ FF!Settled(p) /\ FF!Toggling(p)' = FF!Toggling(p)
      BY <1>1, <2>1, <2>2, <2>4
    <3>2. \A s \in FF!Toggling(p) : s \in Requests /\ v2'[s] = v2[s]
      BY <2>2, <3>1 DEF FF!Toggling
    <3>. QED
      BY <2>1, <3>1, <3>2 DEF FF!Settled
  <2>. QED
    BY <2>3, <2>4, FlagsInvIs
<1>6. ASSUME NEW r \in Requests, FF!Save(r) PROVE FF!IInv'
  <2>. DEFINE o == v2[r].owner
              v == v2[r].new
              before == v1[o]
  <2>1. /\ v2[r].busy /\ v2' = [v2 EXCEPT ![r] = FF!NoToggle] /\ UNCHANGED v4
        /\ v3' = [v3 EXCEPT ![o] = <<v>>]
        /\ \/ /\ v2[r].found
              /\ v1' = IF v2[r].old # v THEN [v1 EXCEPT ![o] = [before EXCEPT ![1] = v]] ELSE v1
           \/ /\ ~v2[r].found /\ before = <<>>
              /\ v1' = [v1 EXCEPT ![o] = Append(before, v)]
    BY <1>6, Zenon DEF FF!Save, FF!KeyFree
  <2>2. /\ v2' \in [Requests -> FlagsChange] /\ o \in FF!Owners /\ v2[r] \in FlagsChange
        /\ ~v2'[r].busy /\ \A s \in Requests : s # r => v2'[s] = v2[s]
        /\ \A p \in FF!Owners : FF!Toggling(p)' = FF!Toggling(p) \ {r}
        /\ \A p \in FF!Owners : r \in FF!Toggling(p) <=> p = o
    BY <1>4, <2>1
  <2>3. v \in BOOLEAN
    BY <2>2, FlagsChangeIs
  <2>4. before \in FlagsAnswers
    BY <1>2, <2>2
  <2>5. v2[r].found => before # <<>>
    BY <1>1, <2>1 DEF FlagsFoundRow
  <2>. HIDE DEF before
  \* Either way the row says what was asked, unless what was found is outdated
  <2>6. \/ v1' = [v1 EXCEPT ![o] = <<v>>]
        \/ v1' = v1 /\ v2[r].found /\ v2[r].old = v
    BY <2>1, <2>3, <2>4, <2>5, FlagsAnswersAre
  <2>7. <<v>> \in FlagsAnswers /\ <<v>> # <<>> /\ <<v>>[1] = v
    BY <2>3, FlagsAnswersAre
  <2>. HIDE DEF v, o
  <2>8. /\ v1' \in [FF!Owners -> FlagsAnswers] /\ v3' \in [FF!Owners -> FlagsAnswers] /\ v3'[o] = <<v>>
        /\ \A p \in FF!Owners : p # o => v1'[p] = v1[p] /\ v3'[p] = v3[p]
        /\ v1'[o] # <<>>
    <3>1. v3' \in [FF!Owners -> FlagsAnswers] /\ v3'[o] = <<v>>
          /\ \A p \in FF!Owners : p # o => v3'[p] = v3[p]
      BY <1>2, <2>1, <2>2, <2>7
    <3>2. CASE v1' = [v1 EXCEPT ![o] = <<v>>]
      BY <1>2, <2>2, <2>7, <3>1, <3>2
    <3>3. CASE v1' = v1 /\ v2[r].found
      BY <1>2, <2>5, <3>1, <3>3 DEF before
    <3>. QED
      BY <2>6, <3>2, <3>3
  <2>9. FlagsTypes' /\ FlagsOneRowEach'
    BY <1>2, <2>1, <2>2, <2>8 DEF FlagsTypes, FlagsOneRowEach
  <2>10. FlagsFoundRow'
    <3>. SUFFICES ASSUME NEW s \in Requests, v2'[s].busy, v2'[s].found
                  PROVE  v1'[v2'[s].owner] # <<>>
      BY DEF FlagsFoundRow
    <3>1. s # r /\ v2'[s] = v2[s] /\ v2[s].owner \in FF!Owners
      BY <1>2, <2>2, FlagsChangeIs
    <3>2. v1[v2[s].owner] # <<>>
      BY <1>1, <3>1 DEF FlagsFoundRow
    <3>. QED
      BY <2>8, <3>1, <3>2
  <2>11. ASSUME NEW p \in FF!Owners \ v4' PROVE FF!Settled(p)'
    <3>1. FF!Settled(p)
      BY <1>1, <2>1, <2>11
    <3>2. CASE p = o
      <4>1. r \in FF!Toggling(o) /\ \A s \in FF!Toggling(o) : s = r
        BY <2>2, <3>1, <3>2 DEF FF!Settled
      <4>2. FF!Toggling(p)' = {}
        BY <2>2, <3>2, <4>1
      <4>3. v1'[o] = <<v>>
        <5>1. CASE v1' = [v1 EXCEPT ![o] = <<v>>]
          BY <1>2, <2>2, <5>1
        <5>2. CASE v1' = v1 /\ v2[r].found /\ v2[r].old = v
          <6>1. v2[r].old = v1[o][1]
            BY <3>1, <3>2, <4>1, <5>2 DEF FF!Settled
          <6>2. v1[o] \in FlagsAnswers /\ v1[o] # <<>>
            BY <1>2, <2>2, <2>5, <5>2 DEF before
          <6>3. v1[o] = <<v1[o][1]>>
            BY <6>2, FlagsAnswersAre
          <6>. QED
            BY <5>2, <6>1, <6>3
        <5>. QED
          BY <2>6, <5>1, <5>2
      <4>. QED
        BY <2>8, <3>2, <4>2, <4>3 DEF FF!Settled
    <3>3. CASE p # o
      <4>1. FF!Toggling(p)' = FF!Toggling(p) /\ r \notin FF!Toggling(p)
        BY <2>2, <3>3
      <4>2. \A s \in FF!Toggling(p) : s \in Requests /\ v2'[s] = v2[s]
        BY <2>2, <4>1 DEF FF!Toggling
      <4>. QED
        BY <2>8, <3>1, <3>3, <4>1, <4>2 DEF FF!Settled
    <3>. QED
      BY <3>2, <3>3
  <2>. QED
    BY <2>9, <2>10, <2>11, FlagsInvIs
<1>7. CASE UNCHANGED FF!vars
  BY <1>1, <1>7, FlagsInvIs DEF FF!vars, FlagsTypes, FlagsOneRowEach, FlagsFoundRow, FF!Settled,
     FF!Toggling
<1>. QED
  BY <1>3, <1>5, <1>6, <1>7 DEF FF!Next

\* Without a toggle under way, the rows of two settled owners say what was asked
LEMMA FlagsEnough ==
  ASSUME FF!FeatureFlagsAssumption, FF!IInv
  PROVE  FF!TypeOK /\ FF!OneRow /\ FF!FlagsAsAsked
<1>1. FlagsTypes /\ FlagsOneRowEach /\ \A o \in FF!Owners \ v4 : FF!Settled(o)
  BY FlagsInvIs
<1>2. ASSUME NEW o \in Organizations, {o, global} \cap v4 = {}, FF!Toggling(o) \cup FF!Toggling(global) = {}
      PROVE  FF!is_feature_enabled(v1, o) =
               IF v3[o] # <<>> THEN v3[o] = <<TRUE>>
               ELSE IF v3[global] # <<>> THEN v3[global] = <<TRUE>> ELSE default_enabled
  <2>1. o \in FF!Owners /\ global \in FF!Owners /\ o \notin v4 /\ global \notin v4
    BY <1>2 DEF FF!Owners
  <2>2. v1[o] = v3[o] /\ v1[global] = v3[global]
    BY <1>1, <1>2, <2>1 DEF FF!Settled
  <2>3. v1[o] \in FlagsAnswers /\ v1[global] \in FlagsAnswers
    BY <1>1, <2>1 DEF FlagsOneRowEach
  <2>4. \A s \in FlagsAnswers : s # <<>> => s[1] \in BOOLEAN /\ (s[1] <=> s = <<TRUE>>)
    BY FlagsAnswersAre, FlagsAnswerTrue, Zenon
  <2>5. CASE v3[o] # <<>>
    BY <2>2, <2>3, <2>4, <2>5 DEF FF!is_feature_enabled
  <2>6. CASE v3[o] = <<>> /\ v3[global] # <<>>
    BY <2>2, <2>3, <2>4, <2>6 DEF FF!is_feature_enabled, FF!_effective_default
  <2>7. CASE v3[o] = <<>> /\ v3[global] = <<>>
    BY <2>2, <2>7 DEF FF!is_feature_enabled, FF!_effective_default
  <2>. QED
    BY <2>5, <2>6, <2>7
<1>3. FF!FlagsAsAsked
  BY <1>2 DEF FF!FlagsAsAsked
<1>. QED
  BY <1>3 DEF FF!IInv

LEMMA FlagsMoves ==
  ASSUME [Next]_vars, part' = "FeatureFlags"
  PROVE  part = "FeatureFlags" /\ [FF!Next]_FF!vars
BY DEF Next, vars, FF!vars

LEMMA FlagsAlways == Spec => [](part = "FeatureFlags" => FF!IInv)
<1>1. Init => (part = "FeatureFlags" => FF!IInv)
  BY FlagsStart, OfficeAssumption DEF Init
<1>2. (part = "FeatureFlags" => FF!IInv) /\ [Next]_vars => (part = "FeatureFlags" => FF!IInv)'
  BY FlagsStep, FlagsMoves, OfficeAssumption
<1>. QED
  BY <1>1, <1>2, PTL DEF Spec

------------------------------------------------------------------------------
(* BreachNotices: v1 is reachable, v2 is notices, v3 is work, v4 is         *)
(* email_logs, v5 is delivered, v6 is broken, v7 is unlogged.               *)

BreachNotes == v1 \subseteq Cands /\ v2 \in Seq(BN!Notice)

BreachCopies == v5 \in Seq([Cands -> 0 .. 2]) /\ Len(v5) = Len(v2)

BreachWorks == DOMAIN v3 \subseteq Requests /\ v3 \in [DOMAIN v3 -> BN!Work]

BreachLog == /\ v4 \subseteq (BN!Ids \X Cands \X {"sent", "failed"}) /\ v6 \subseteq (BN!Ids \X Cands)
             /\ v7 \subseteq (BN!Ids \X Cands \X {"sent", "failed"})

BreachAlone(r) == ~v2[v3[r].notice].notified
                  /\ \A q \in DOMAIN v3 : v3[q].notice = v3[r].notice => q = r

BreachUntouched(r) == \A c \in v3[r].left : v5[v3[r].notice][c] = 0

\* The log of a notice splits those of its recipients that are not left
BreachSplit(all, left, sent, failed) ==
  left = all \ (sent \cup failed) /\ sent \cup failed \subseteq all /\ sent \cap failed = {}

BreachTally(w, sent, failed) == w.sent = Cardinality(sent) /\ w.failed = Cardinality(failed)

BreachDivided(r) == LET n == v3[r].notice IN
                    BreachSplit(v2[n].recipients, v3[r].left, BN!Seen(n, "sent"), BN!Seen(n, "failed"))

BreachTallied(r) == LET n == v3[r].notice IN BreachTally(v3[r], BN!Seen(n, "sent"), BN!Seen(n, "failed"))

BreachFit(r) == BreachAlone(r) /\ BreachUntouched(r) /\ BreachDivided(r) /\ BreachTallied(r)

BreachTallies == \A r \in DOMAIN v3 : BreachFit(r)

BreachAccountedFor(x, sent, failed) ==
  x.notified => /\ x.total + x.failed = Cardinality(x.recipients)
                /\ x.total = Cardinality(sent) /\ x.failed = Cardinality(failed)

BreachAccounted(n) == BreachAccountedFor(v2[n], BN!Seen(n, "sent"), BN!Seen(n, "failed"))

BreachOnce(n) == \A c \in Cands : /\ v5[n][c] > 1 => <<n, c>> \in v6
                                  /\ v5[n][c] > 0 => c \in v2[n].recipients

\* The instance has its own name for what FiniteSets defines
LEMMA BreachSizes ==
  /\ \A S : BN!Cardinality(S) = Cardinality(S)
  /\ \A S : BN!IsFiniteSet(S) <=> IsFiniteSet(S)
<1>1. ASSUME NEW S PROVE BN!Cardinality(S) = Cardinality(S)
  BY Zenon DEF BN!Cardinality, Cardinality
<1>2. ASSUME NEW S PROVE BN!IsFiniteSet(S) <=> IsFiniteSet(S)
  BY Zenon DEF BN!IsFiniteSet, IsFiniteSet
<1>. QED
  BY <1>1, <1>2

LEMMA BreachInvIs ==
  /\ BN!IInv <=> /\ BreachNotes /\ BreachCopies /\ BreachWorks /\ BreachLog /\ BreachTallies
                 /\ \A n \in BN!Ids : BreachAccounted(n) /\ BreachOnce(n)
  /\ BN!IInv' <=> /\ BreachNotes' /\ BreachCopies' /\ BreachWorks' /\ BreachLog' /\ BreachTallies'
                  /\ \A n \in BN!Ids' : BreachAccounted(n)' /\ BreachOnce(n)'
<1>1. /\ BN!TypeOK <=> BreachNotes /\ BreachCopies /\ BreachWorks /\ BreachLog
      /\ BN!TypeOK' <=> BreachNotes' /\ BreachCopies' /\ BreachWorks' /\ BreachLog'
  <2>1. BN!TypeOK <=> BreachNotes /\ BreachCopies /\ BreachWorks /\ BreachLog
    BY Zenon DEF BN!TypeOK, BreachNotes, BreachCopies, BreachWorks, BreachLog
  <2>2. BN!TypeOK' <=> BreachNotes' /\ BreachCopies' /\ BreachWorks' /\ BreachLog'
    BY Zenon DEF BN!TypeOK, BreachNotes, BreachCopies, BreachWorks, BreachLog
  <2>. QED
    BY <2>1, <2>2
<1>2. (BN!LoopTallies <=> BreachTallies) /\ (BN!LoopTallies' <=> BreachTallies')
  BY BreachSizes DEF BN!LoopTallies, BreachTallies, BreachFit, BreachAlone, BreachUntouched,
     BreachDivided, BreachTallied, BreachSplit, BreachTally
<1>3. (BN!NoticeAccounted <=> \A n \in BN!Ids : BreachAccounted(n))
      /\ (BN!NoticeAccounted' <=> \A n \in BN!Ids' : BreachAccounted(n)')
  BY BreachSizes DEF BN!NoticeAccounted, BreachAccounted, BreachAccountedFor
<1>4. (BN!SentOnce <=> \A n \in BN!Ids : BreachOnce(n)) /\ (BN!SentOnce' <=> \A n \in BN!Ids' : BreachOnce(n)')
  BY Zenon DEF BN!SentOnce, BreachOnce
<1>. QED
  BY <1>1, <1>2, <1>3, <1>4 DEF BN!IInv

LEMMA BreachWorksAre ==
  ASSUME BreachWorks, NEW r \in DOMAIN v3
  PROVE  /\ v3[r].notice \in BN!Ids /\ v3[r].left \subseteq Cands
         /\ v3[r].sent \in Nat /\ v3[r].failed \in Nat
BY DEF BreachWorks, BN!Work

LEMMA BreachNotesAre ==
  ASSUME BreachNotes, NEW n \in BN!Ids
  PROVE  /\ n \in Nat \ {0} /\ n <= Len(v2) /\ Len(v2) \in Nat /\ v2[n] \in BN!Notice
BY DEF BreachNotes, BN!Ids

LEMMA BreachAppended ==
  ASSUME NEW S, NEW s \in Seq(S), NEW x \in S
  PROVE  /\ Append(s, x) \in Seq(S) /\ Len(Append(s, x)) = Len(s) + 1
         /\ Append(s, x)[Len(s) + 1] = x
         /\ \A i \in 1 .. Len(s) : Append(s, x)[i] = s[i]
OBVIOUS

LEMMA BreachReplaced ==
  ASSUME NEW S, NEW s \in Seq(S), NEW i \in 1 .. Len(s), NEW x \in S
  PROVE  LET t == [s EXCEPT ![i] = x]
         IN  t \in Seq(S) /\ Len(t) = Len(s) /\ t[i] = x /\ \A j \in 1 .. Len(s) : j # i => t[j] = s[j]
OBVIOUS

LEMMA BreachSeenIs ==
  ASSUME IsFiniteSet(Cands), NEW n, NEW status
  PROVE  /\ BN!Seen(n, status) \subseteq Cands /\ IsFiniteSet(BN!Seen(n, status))
         /\ Cardinality(BN!Seen(n, status)) \in Nat
<1>1. BN!Seen(n, status) \in SUBSET Cands
  BY DEF BN!Seen
<1>. QED
  BY <1>1, FS_Subset, FS_CardinalityType

\* What is logged for another notice, or with the other status, stays
LEMMA BreachSeenAdds ==
  ASSUME NEW n, NEW c \in Cands, NEW status \in {"sent", "failed"},
         v4' \cup v7' = v4 \cup v7 \cup {<<n, c, status>>}
  PROVE  /\ BN!Seen(n, status)' = BN!Seen(n, status) \cup {c}
         /\ \A m, st : m # n \/ st # status => BN!Seen(m, st)' = BN!Seen(m, st)
BY DEF BN!Seen

LEMMA BreachSameSeen ==
  ASSUME UNCHANGED <<v4, v7>>
  PROVE  \A m, st : BN!Seen(m, st)' = BN!Seen(m, st)
BY DEF BN!Seen

LEMMA BreachStart ==
  ASSUME BN!BreachNoticesAssumption, BN!Init
  PROVE  BN!IInv
<1>1. /\ v1 = Cands /\ v2 = <<>> /\ v3 = [r \in {} |-> {}]
      /\ v4 = {} /\ v5 = <<>> /\ v6 = {} /\ v7 = {}
  BY DEF BN!Init
<1>2. BreachNotes
  BY <1>1 DEF BreachNotes
<1>3. BreachCopies
  BY <1>1 DEF BreachCopies
<1>4. BreachWorks /\ BreachLog /\ BreachTallies
  BY <1>1 DEF BreachWorks, BreachLog, BreachTallies
<1>5. BN!Ids = {}
  BY <1>1 DEF BN!Ids
<1>. QED
  BY <1>2, <1>3, <1>4, <1>5, BreachInvIs

\* Nothing is written: fewer requests are at work
LEMMA BreachFewer ==
  ASSUME BN!IInv, v1' \subseteq Cands, UNCHANGED <<v2, v4, v5, v6, v7>>,
         DOMAIN v3' \subseteq DOMAIN v3, v3' = [r \in DOMAIN v3' |-> v3[r]]
  PROVE  BN!IInv'
<1>1. /\ BreachNotes /\ BreachCopies /\ BreachWorks /\ BreachLog /\ BreachTallies
      /\ \A n \in BN!Ids : BreachAccounted(n) /\ BreachOnce(n)
  BY BreachInvIs
<1>2. BN!Ids' = BN!Ids /\ BN!Work' = BN!Work /\ \A n, st : BN!Seen(n, st)' = BN!Seen(n, st)
  BY BreachSameSeen DEF BN!Ids, BN!Work
<1>3. BreachNotes' /\ BreachCopies'
  BY <1>1 DEF BreachNotes, BreachCopies
<1>4. BreachWorks' /\ BreachLog'
  BY <1>1, <1>2 DEF BreachWorks, BreachLog
<1>5. \A r \in DOMAIN v3' : r \in DOMAIN v3 /\ v3'[r] = v3[r]
  OBVIOUS
<1>6. ASSUME NEW r \in DOMAIN v3' PROVE BreachFit(r)'
  <2>1. BreachFit(r)
    BY <1>1, <1>5 DEF BreachTallies
  <2>2. BreachAlone(r)' /\ BreachUntouched(r)'
    BY <1>5, <2>1 DEF BreachFit, BreachAlone, BreachUntouched
  <2>3. BreachDivided(r)' /\ BreachTallied(r)'
    BY <1>2, <1>5, <2>1 DEF BreachFit, BreachDivided, BreachTallied
  <2>. QED
    BY <2>2, <2>3 DEF BreachFit
<1>7. \A n \in BN!Ids' : BreachAccounted(n)' /\ BreachOnce(n)'
  BY <1>1, <1>2 DEF BreachAccounted, BreachOnce
<1>. QED
  BY <1>3, <1>4, <1>6, <1>7, BreachInvIs DEF BreachTallies

LEMMA BreachBegun ==
  ASSUME BN!BreachNoticesAssumption, BN!IInv, NEW r \in Requests, NEW org,
         BN!super_admin_data_breaches(r, org)
  PROVE  BN!IInv'
<1>. DEFINE all == BN!_breach_recipients(org)
            k == Len(v2) + 1
            x == [recipients |-> all, total |-> 0, failed |-> 0, notified |-> FALSE]
            w == [notice |-> k, left |-> all, sent |-> 0, failed |-> 0]
            z == [c \in Cands |-> 0]
<1>1. /\ BreachNotes /\ BreachCopies /\ BreachWorks /\ BreachLog /\ BreachTallies
      /\ \A n \in BN!Ids : BreachAccounted(n) /\ BreachOnce(n)
  BY BreachInvIs
<1>2. /\ r \notin DOMAIN v3 /\ v2' = Append(v2, x) /\ v5' = Append(v5, z)
      /\ v3' = [q \in {r} \cup DOMAIN v3 |-> IF q = r THEN w ELSE v3[q]]
      /\ UNCHANGED <<v1, v4, v6, v7>>
  BY DEF BN!super_admin_data_breaches
<1>3. Len(v2) \in Nat /\ Len(v5) = Len(v2) /\ k \in Nat \ {0} /\ k # 0
  BY <1>1 DEF BreachNotes, BreachCopies
<1>4. all \subseteq Cands
  BY <1>1 DEF BN!_breach_recipients, BreachNotes
<1>5. x \in BN!Notice /\ z \in [Cands -> 0 .. 2]
  BY <1>4 DEF BN!Notice
<1>6. x.recipients = all /\ x.notified = FALSE
  OBVIOUS
<1>7. w.notice = k /\ w.left = all /\ w.sent = 0 /\ w.failed = 0
  OBVIOUS
<1>8. \A c \in Cands : z[c] = 0
  OBVIOUS
<1>9. w \in [notice : 1 .. k, left : SUBSET Cands, sent : Nat, failed : Nat]
  BY <1>3, <1>4
<1>. HIDE DEF all, x, w, z
<1>10. /\ v2' \in Seq(BN!Notice) /\ Len(v2') = k /\ v2'[k] = x
       /\ \A i \in BN!Ids : v2'[i] = v2[i]
  BY <1>1, <1>2, <1>5, BreachAppended DEF BreachNotes, BN!Ids
<1>11. /\ v5' \in Seq([Cands -> 0 .. 2]) /\ Len(v5') = k /\ v5'[k] = z
       /\ \A i \in BN!Ids : v5'[i] = v5[i]
  BY <1>1, <1>2, <1>3, <1>5, BreachAppended DEF BreachCopies, BN!Ids
<1>12. BN!Ids' = BN!Ids \cup {k} /\ k \notin BN!Ids /\ BN!Ids' = 1 .. k
  BY <1>3, <1>10 DEF BN!Ids
<1>13. \A n, st : BN!Seen(n, st)' = BN!Seen(n, st)
  BY <1>2, BreachSameSeen
<1>14. \A st : BN!Seen(k, st) = {}
  BY <1>1, <1>12 DEF BreachLog, BN!Seen
<1>15. DOMAIN v3' = {r} \cup DOMAIN v3 /\ v3'[r] = w /\ \A q \in DOMAIN v3 : v3'[q] = v3[q] /\ q # r
  BY <1>2
<1>16. BreachNotes' /\ BreachCopies'
  BY <1>1, <1>2, <1>10, <1>11 DEF BreachNotes, BreachCopies
<1>17. BreachWorks'
  <2>1. BN!Work' = [notice : 1 .. k, left : SUBSET Cands, sent : Nat, failed : Nat]
    BY <1>12 DEF BN!Work
  <2>2. w \in BN!Work' /\ \A q \in DOMAIN v3 : q \in Requests /\ v3[q] \in BN!Work'
    BY <1>1, <1>9, <1>12, <2>1 DEF BreachWorks, BN!Work
  <2>3. \A q \in DOMAIN v3' : q \in Requests /\ v3'[q] \in BN!Work'
    BY <1>15, <2>2
  <2>. QED
    BY <1>2, <2>3 DEF BreachWorks
<1>18. BreachLog'
  BY <1>1, <1>2, <1>12 DEF BreachLog
<1>19. Cardinality({}) = 0
  BY FS_EmptySet
<1>20. BreachFit(r)'
  <2>1. BreachAlone(r)'
    <3>1. \A q \in DOMAIN v3 : v3[q].notice # k
      BY <1>1, <1>12, BreachWorksAre
    <3>. QED
      BY <1>6, <1>7, <1>10, <1>15, <3>1 DEF BreachAlone
  <2>2. BreachUntouched(r)'
    BY <1>4, <1>7, <1>8, <1>11, <1>15 DEF BreachUntouched
  <2>3. BreachDivided(r)'
    BY <1>6, <1>7, <1>10, <1>13, <1>14, <1>15 DEF BreachDivided, BreachSplit
  <2>4. BreachTallied(r)'
    BY <1>7, <1>13, <1>14, <1>15, <1>19 DEF BreachTallied, BreachTally
  <2>. QED
    BY <2>1, <2>2, <2>3, <2>4 DEF BreachFit
<1>21. ASSUME NEW q \in DOMAIN v3 PROVE BreachFit(q)'
  <2>1. v3[q].notice \in BN!Ids /\ BreachFit(q) /\ v3'[q] = v3[q]
    BY <1>1, <1>15, BreachWorksAre DEF BreachTallies
  <2>2. BreachAlone(q)'
    BY <1>7, <1>10, <1>12, <1>15, <2>1 DEF BreachFit, BreachAlone
  <2>3. BreachUntouched(q)'
    BY <1>11, <2>1 DEF BreachFit, BreachUntouched
  <2>4. BreachDivided(q)' /\ BreachTallied(q)'
    BY <1>10, <1>13, <2>1 DEF BreachFit, BreachDivided, BreachTallied
  <2>. QED
    BY <2>2, <2>3, <2>4 DEF BreachFit
<1>22. ASSUME NEW n \in BN!Ids' PROVE BreachAccounted(n)' /\ BreachOnce(n)'
  <2>1. CASE n \in BN!Ids
    BY <1>1, <1>2, <1>10, <1>11, <1>13, <2>1 DEF BreachAccounted, BreachOnce
  <2>2. CASE n = k
    BY <1>6, <1>8, <1>10, <1>11, <2>2 DEF BreachAccounted, BreachAccountedFor, BreachOnce
  <2>. QED
    BY <1>12, <2>1, <2>2
<1>. QED
  BY <1>15, <1>16, <1>17, <1>18, <1>20, <1>21, <1>22, BreachInvIs DEF BreachTallies

LEMMA BreachCountedIs ==
  ASSUME NEW w \in BN!Work, NEW ok \in BOOLEAN
  PROVE  /\ BN!Counted(w, ok) \in BN!Work /\ BN!Counted(w, ok).notice = w.notice
         /\ BN!Counted(w, ok).left = w.left
         /\ ok => BN!Counted(w, ok).sent = w.sent + 1 /\ BN!Counted(w, ok).failed = w.failed
         /\ ~ok => BN!Counted(w, ok).sent = w.sent /\ BN!Counted(w, ok).failed = w.failed + 1
<1>1. CASE ok
  BY <1>1 DEF BN!Counted, BN!Work
<1>2. CASE ~ok
  BY <1>2 DEF BN!Counted, BN!Work
<1>. QED
  BY <1>1, <1>2

\* At most two copies of one e-mail go out, and two only when the gateway breaks
LEMMA BreachCopiesIs ==
  ASSUME NEW g \in BN!Gateway, NEW smtp \in BOOLEAN, BN!Possible(g),
         NEW d, d = 0 + (IF g.took THEN 1 ELSE 0) + (IF ~BN!sent_via_gateway(g) /\ smtp THEN 1 ELSE 0)
  PROVE  d \in 0 .. 2 /\ (d > 1 => g.took /\ g.reply = "error")
BY DEF BN!Gateway, BN!Possible, BN!sent_via_gateway

LEMMA BreachSends ==
  ASSUME BN!BreachNoticesAssumption, BN!IInv, NEW r \in Requests, NEW c \in Cands, NEW g \in BN!Gateway,
         NEW smtp \in BOOLEAN, NEW saved \in BOOLEAN, BN!Send(r, c, g, smtp, saved)
  PROVE  BN!IInv'
<1>0. PICK n : n = v3[r].notice
  OBVIOUS
<1>. DEFINE ok == BN!sent_via_gateway(g) \/ smtp
            status == IF ok THEN "sent" ELSE "failed"
            d == v5[n][c] + (IF g.took THEN 1 ELSE 0) + (IF ~BN!sent_via_gateway(g) /\ smtp THEN 1 ELSE 0)
            y == BN!Counted(v3[r], ok)
            w == [y EXCEPT !.left = @ \ {c}]
            row == [v5[n] EXCEPT ![c] = d]
<1>1. /\ BreachNotes /\ BreachCopies /\ BreachWorks /\ BreachLog /\ BreachTallies
      /\ \A m \in BN!Ids : BreachAccounted(m) /\ BreachOnce(m)
  BY BreachInvIs
<1>2. /\ r \in DOMAIN v3 /\ c \in v3[r].left /\ BN!Possible(g)
      /\ v5' = [v5 EXCEPT ![n] = row]
      /\ BN!_log_email(<<n, c, status>>, saved)
      /\ v6' = IF g.took /\ g.reply = "error" THEN v6 \cup {<<n, c>>} ELSE v6
      /\ v3' = [v3 EXCEPT ![r] = w]
      /\ UNCHANGED <<v1, v2>>
  <2>1. /\ r \in DOMAIN v3 /\ c \in v3[r].left /\ BN!Possible(g)
        /\ BN!_log_email(<<n, c, status>>, saved)
        /\ v6' = IF g.took /\ g.reply = "error" THEN v6 \cup {<<n, c>>} ELSE v6
        /\ UNCHANGED <<v1, v2>>
    BY <1>0, Zenon DEF BN!Send
  <2>2. v5' = [v5 EXCEPT ![n] = row]
    BY <1>0 DEF BN!Send
  <2>3. v3' = [v3 EXCEPT ![r] = w]
    BY Zenon DEF BN!Send
  <2>. QED
    BY <2>1, <2>2, <2>3
<1>3. BreachFit(r) /\ n \in BN!Ids /\ v3[r] \in BN!Work
  BY <1>0, <1>1, <1>2, BreachWorksAre DEF BreachTallies, BreachWorks
<1>4. d \in 0 .. 2 /\ (d > 1 => g.took /\ g.reply = "error")
  <2>1. v5[n][c] = 0
    BY <1>0, <1>2, <1>3 DEF BreachFit, BreachUntouched
  <2>. QED
    BY <1>0, <1>2, <2>1, BreachCopiesIs
<1>5. ok \in BOOLEAN /\ status \in {"sent", "failed"} /\ (status = "sent" <=> ok)
  BY DEF BN!sent_via_gateway
<1>. HIDE DEF ok
<1>6. /\ w \in BN!Work /\ w.notice = n /\ w.left = v3[r].left \ {c}
      /\ ok => w.sent = v3[r].sent + 1 /\ w.failed = v3[r].failed
      /\ ~ok => w.sent = v3[r].sent /\ w.failed = v3[r].failed + 1
  <2>1. v3[r].notice = n /\ ok \in BOOLEAN
    BY <1>0, <1>5
  <2>2. /\ y \in BN!Work /\ y.notice = v3[r].notice /\ y.left = v3[r].left
        /\ ok => y.sent = v3[r].sent + 1 /\ y.failed = v3[r].failed
        /\ ~ok => y.sent = v3[r].sent /\ y.failed = v3[r].failed + 1
    BY <1>3, <2>1, BreachCountedIs, Zenon
  <2>. HIDE DEF y
  <2>. QED
    BY <2>1, <2>2 DEF BN!Work
<1>7. BreachCopies' /\ v5'[n] = row /\ \A m \in BN!Ids : m # n => v5'[m] = v5[m]
  <2>1. v5 \in Seq([Cands -> 0 .. 2]) /\ Len(v5) = Len(v2) /\ n \in 1 .. Len(v5)
    BY <1>0, <1>1, <1>3 DEF BreachCopies, BN!Ids
  <2>2. row \in [Cands -> 0 .. 2]
    BY <1>0, <1>4, <2>1
  <2>. HIDE DEF row
  <2>. QED
    BY <1>0, <1>2, <2>1, <2>2, BreachReplaced DEF BreachCopies, BN!Ids
<1>8. row[c] = d /\ \A e \in Cands : e # c => row[e] = v5[n][e]
  <2>1. v5[n] \in [Cands -> 0 .. 2]
    BY <1>0, <1>1, <1>3 DEF BreachCopies, BN!Ids
  <2>. QED
    BY <2>1
<1>9. /\ BN!Seen(n, status)' = BN!Seen(n, status) \cup {c}
      /\ \A m, st : m # n \/ st # status => BN!Seen(m, st)' = BN!Seen(m, st)
  <2>1. v4' \cup v7' = v4 \cup v7 \cup {<<n, c, status>>}
    BY <1>2 DEF BN!_log_email
  <2>. QED
    BY <1>0, <1>5, <2>1, BreachSeenAdds
<1>10. ok => BN!Seen(n, "sent")' = BN!Seen(n, "sent") \cup {c} /\ BN!Seen(n, "failed")' = BN!Seen(n, "failed")
  BY <1>0, <1>5, <1>9
<1>11. ~ok => BN!Seen(n, "failed")' = BN!Seen(n, "failed") \cup {c} /\ BN!Seen(n, "sent")' = BN!Seen(n, "sent")
  BY <1>0, <1>5, <1>9
<1>12. DOMAIN v3' = DOMAIN v3 /\ v3'[r] = w /\ \A q \in DOMAIN v3 : q # r => v3'[q] = v3[q]
  BY <1>0, <1>2
<1>13. v6 \subseteq v6' /\ (g.took /\ g.reply = "error" => <<n, c>> \in v6')
  BY <1>0, <1>2
<1>14. BN!Ids' = BN!Ids /\ BN!Work' = BN!Work
  BY <1>0, <1>2 DEF BN!Ids, BN!Work
<1>15. BreachLog'
  <2>1. c \in Cands /\ <<n, c, status>> \in BN!Ids \X Cands \X {"sent", "failed"} /\ <<n, c>> \in BN!Ids \X Cands
    BY <1>1, <1>2, <1>3, <1>5, BreachWorksAre
  <2>2. /\ v4' \subseteq v4 \cup {<<n, c, status>>} /\ v6' \subseteq v6 \cup {<<n, c>>}
        /\ v7' \subseteq v7 \cup {<<n, c, status>>}
    BY <1>2 DEF BN!_log_email
  <2>. QED
    BY <1>1, <1>14, <2>1, <2>2 DEF BreachLog
<1>. HIDE DEF status, d, w, row
<1>16. BreachWorks'
  BY <1>0, <1>1, <1>2, <1>6, <1>14 DEF BreachWorks
<1>17. BreachNotes'
  BY <1>0, <1>1, <1>2 DEF BreachNotes
<1>18. \A q \in DOMAIN v3 : q # r => v3[q].notice # n
  BY <1>0, <1>3, <1>2 DEF BreachFit, BreachAlone
<1>19. BreachFit(r)'
  <2>1. BreachAlone(r)'
    BY <1>0, <1>2, <1>3, <1>6, <1>12, <1>18 DEF BreachFit, BreachAlone
  <2>2. BreachUntouched(r)'
    <3>1. \A e \in v3[r].left : e \in Cands /\ v5[n][e] = 0
      BY <1>0, <1>1, <1>2, <1>3, BreachWorksAre DEF BreachFit, BreachUntouched
    <3>. QED
      BY <1>0, <1>6, <1>7, <1>8, <1>12, <3>1 DEF BreachUntouched
  <2>3. BreachSplit(v2[n].recipients, v3[r].left, BN!Seen(n, "sent"), BN!Seen(n, "failed"))
        /\ BreachTally(v3[r], BN!Seen(n, "sent"), BN!Seen(n, "failed"))
    BY <1>0, <1>3 DEF BreachFit, BreachDivided, BreachTallied
  <2>4. c \notin BN!Seen(n, "sent") /\ c \notin BN!Seen(n, "failed")
    BY <1>0, <1>2, <2>3 DEF BreachSplit
  <2>5. BreachSplit(v2[n].recipients, w.left, BN!Seen(n, "sent")', BN!Seen(n, "failed")')
    <3>1. CASE ok
      BY <1>2, <1>6, <1>10, <2>3, <2>4, <3>1 DEF BreachSplit
    <3>2. CASE ~ok
      BY <1>2, <1>6, <1>11, <2>3, <2>4, <3>2 DEF BreachSplit
    <3>. QED
      BY <3>1, <3>2
  <2>6. BreachDivided(r)'
    BY <1>0, <1>2, <1>6, <1>12, <2>5 DEF BreachDivided
  <2>7. \A st : /\ IsFiniteSet(BN!Seen(n, st)) /\ Cardinality(BN!Seen(n, st)) \in Nat
    BY BreachSeenIs, BreachSizes DEF BN!BreachNoticesAssumption
  <2>8. BreachTally(w, BN!Seen(n, "sent")', BN!Seen(n, "failed")')
    BY <1>0, <1>6, <1>10, <1>11, <2>3, <2>4, <2>7, FS_AddElement DEF BreachTally
  <2>9. BreachTallied(r)'
    BY <1>0, <1>6, <1>12, <2>8 DEF BreachTallied
  <2>. QED
    BY <2>1, <2>2, <2>6, <2>9 DEF BreachFit
<1>20. ASSUME NEW q \in DOMAIN v3, q # r PROVE BreachFit(q)'
  <2>1. /\ v3[q].notice \in BN!Ids /\ BreachFit(q) /\ v3'[q] = v3[q] /\ v3[q].notice # n
    BY <1>0, <1>1, <1>12, <1>18, <1>20, BreachWorksAre DEF BreachTallies
  <2>2. BreachAlone(q)'
    <3>1. \A p \in DOMAIN v3 : v3'[p].notice = v3[p].notice
      BY <1>0, <1>6, <1>12
    <3>. QED
      BY <1>0, <1>2, <1>12, <2>1, <3>1 DEF BreachFit, BreachAlone
  <2>3. BreachUntouched(q)'
    BY <1>0, <1>7, <2>1 DEF BreachFit, BreachUntouched
  <2>4. BreachDivided(q)' /\ BreachTallied(q)'
    BY <1>0, <1>2, <1>9, <2>1 DEF BreachFit, BreachDivided, BreachTallied
  <2>. QED
    BY <2>2, <2>3, <2>4 DEF BreachFit
<1>21. ASSUME NEW m \in BN!Ids PROVE BreachAccounted(m)' /\ BreachOnce(m)'
  <2>1. CASE m # n
    BY <1>0, <1>1, <1>2, <1>7, <1>9, <1>13, <2>1 DEF BreachAccounted, BreachOnce
  <2>2. CASE m = n
    <3>1. BreachAccounted(n)'
      BY <1>0, <1>2, <1>3 DEF BreachAccounted, BreachAccountedFor, BreachFit, BreachAlone
    <3>2. BreachOnce(n)
      BY <1>0, <1>1, <1>3
    <3>3. c \in v2[n].recipients
      BY <1>0, <1>2, <1>3 DEF BreachFit, BreachDivided, BreachSplit
    <3>4. BreachOnce(n)'
      BY <1>0, <1>2, <1>4, <1>7, <1>8, <1>13, <3>2, <3>3 DEF BreachOnce
    <3>. QED
      BY <2>2, <3>1, <3>4
  <2>. QED
    BY <2>1, <2>2
<1>. QED
  BY <1>0, <1>7, <1>12, <1>14, <1>15, <1>16, <1>17, <1>19, <1>20, <1>21,
     BreachInvIs DEF BreachTallies

LEMMA BreachDropIs ==
  ASSUME NEW r \in DOMAIN v3, BN!Drop(r)
  PROVE  /\ DOMAIN v3' = DOMAIN v3 \ {r} /\ v3' = [q \in DOMAIN v3' |-> v3[q]]
         /\ \A q \in DOMAIN v3' : v3'[q] = v3[q]
BY DEF BN!Drop

LEMMA BreachFinishes ==
  ASSUME BN!BreachNoticesAssumption, BN!IInv, NEW r \in Requests, BN!Finish(r)
  PROVE  BN!IInv'
<1>0. PICK n : n = v3[r].notice
  OBVIOUS
<1>. DEFINE w == v3[r]
            x == [[[v2[n] EXCEPT !.total = w.sent] EXCEPT !.failed = w.failed] EXCEPT !.notified = TRUE]
<1>1. /\ BreachNotes /\ BreachCopies /\ BreachWorks /\ BreachLog /\ BreachTallies
      /\ \A m \in BN!Ids : BreachAccounted(m) /\ BreachOnce(m)
  BY BreachInvIs
<1>2. /\ r \in DOMAIN v3 /\ w.left = {} /\ BN!Drop(r)
      /\ UNCHANGED <<v1, v4, v5, v6, v7>>
  BY DEF BN!Finish
<1>3. /\ n \in BN!Ids /\ w.sent \in Nat /\ w.failed \in Nat /\ v2[n] \in BN!Notice /\ BreachFit(r)
  BY <1>0, <1>1, <1>2, BreachWorksAre, BreachNotesAre DEF BreachTallies
<1>4. v2 \in Seq(BN!Notice) /\ n \in 1 .. Len(v2)
  BY <1>0, <1>1, <1>3 DEF BreachNotes, BN!Ids
<1>5. v2' = [v2 EXCEPT ![n] = x]
  BY <1>0, <1>4 DEF BN!Finish
<1>6. /\ x \in BN!Notice /\ x.recipients = v2[n].recipients /\ x.total = w.sent /\ x.failed = w.failed
      /\ x.recipients \subseteq Cands
  BY <1>0, <1>3 DEF BN!Notice
<1>. HIDE DEF x
<1>7. /\ v2' \in Seq(BN!Notice) /\ Len(v2') = Len(v2) /\ v2'[n] = x
      /\ \A m \in BN!Ids : m # n => v2'[m] = v2[m]
  BY <1>0, <1>4, <1>5, <1>6, BreachReplaced DEF BN!Ids
<1>8. BN!Ids' = BN!Ids /\ BN!Work' = BN!Work
  BY <1>0, <1>7 DEF BN!Ids, BN!Work
<1>9. \A m, st : BN!Seen(m, st)' = BN!Seen(m, st)
  BY <1>0, <1>2, BreachSameSeen
<1>10. /\ DOMAIN v3' = DOMAIN v3 \ {r} /\ v3' = [q \in DOMAIN v3' |-> v3[q]]
       /\ \A q \in DOMAIN v3' : v3'[q] = v3[q]
  BY <1>0, <1>2, BreachDropIs
<1>11. BreachNotes' /\ BreachCopies' /\ BreachLog'
  BY <1>0, <1>1, <1>2, <1>7, <1>8 DEF BreachNotes, BreachCopies, BreachLog
<1>12. BreachWorks'
  BY <1>0, <1>1, <1>8, <1>10 DEF BreachWorks
<1>13. ASSUME NEW q \in DOMAIN v3' PROVE BreachFit(q)'
  <2>1. /\ q # r /\ v3[q].notice \in BN!Ids /\ BreachFit(q) /\ v3'[q] = v3[q]
    BY <1>0, <1>1, <1>10, BreachWorksAre DEF BreachTallies
  <2>2. v3[q].notice # n
    BY <1>0, <1>3, <1>10, <2>1 DEF BreachFit, BreachAlone
  <2>3. v2'[v3[q].notice] = v2[v3[q].notice]
    BY <1>0, <1>7, <2>1, <2>2
  <2>4. BreachAlone(q)' /\ BreachUntouched(q)'
    BY <1>0, <1>2, <1>10, <2>1, <2>3 DEF BreachFit, BreachAlone, BreachUntouched
  <2>5. BreachDivided(q)' /\ BreachTallied(q)'
    BY <1>0, <1>9, <2>1, <2>3 DEF BreachFit, BreachDivided, BreachTallied
  <2>. QED
    BY <2>4, <2>5 DEF BreachFit
<1>14. BreachAccounted(n)'
  <2>. DEFINE S == BN!Seen(n, "sent")
              F == BN!Seen(n, "failed")
  <2>1. /\ IsFiniteSet(S) /\ IsFiniteSet(F) /\ Cardinality(S) \in Nat /\ Cardinality(F) \in Nat
    BY BreachSeenIs, BreachSizes DEF BN!BreachNoticesAssumption
  <2>2. w.sent = Cardinality(S) /\ w.failed = Cardinality(F)
    BY <1>0, <1>3 DEF BreachFit, BreachTallied, BreachTally
  <2>3. v2[n].recipients = S \cup F /\ S \cap F = {}
    BY <1>0, <1>2, <1>3 DEF BreachFit, BreachDivided, BreachSplit
  <2>. HIDE DEF S, F
  <2>10. Cardinality(S \cap F) = 0
    BY <2>3, FS_EmptySet
  <2>11. Cardinality(S \cup F) = Cardinality(S) + Cardinality(F) - Cardinality(S \cap F)
    BY <2>1, FS_Union
  <2>4. Cardinality(S \cup F) = Cardinality(S) + Cardinality(F)
    BY <2>1, <2>10, <2>11
  <2>5. BreachAccountedFor(x, S, F)
    BY <1>0, <1>6, <2>2, <2>3, <2>4 DEF BreachAccountedFor
  <2>. QED
    BY <1>0, <1>7, <1>9, <2>5 DEF BreachAccounted, S, F
<1>15. ASSUME NEW m \in BN!Ids PROVE BreachAccounted(m)' /\ BreachOnce(m)'
  <2>1. BreachAccounted(m)'
    BY <1>0, <1>1, <1>7, <1>9, <1>14 DEF BreachAccounted
  <2>2. v2'[m].recipients = v2[m].recipients
    BY <1>0, <1>6, <1>7
  <2>3. BreachOnce(m)'
    BY <1>0, <1>1, <1>2, <2>2 DEF BreachOnce
  <2>. QED
    BY <2>1, <2>3
<1>. QED
  BY <1>0, <1>8, <1>11, <1>12, <1>13, <1>15, BreachInvIs DEF BreachTallies

LEMMA BreachStep ==
  ASSUME BN!BreachNoticesAssumption, BN!IInv, [BN!Next]_BN!vars
  PROVE  BN!IInv'
<1>1. v1 \subseteq Cands /\ v3 = [r \in DOMAIN v3 |-> v3[r]]
  BY BreachInvIs DEF BreachNotes, BreachWorks
<1>2. ASSUME NEW r \in Requests, NEW org, BN!super_admin_data_breaches(r, org) PROVE BN!IInv'
  BY <1>2, BreachBegun
<1>3. ASSUME NEW r \in Requests, NEW c \in Cands, NEW g \in BN!Gateway, NEW smtp \in BOOLEAN,
             NEW saved \in BOOLEAN, BN!Send(r, c, g, smtp, saved)
      PROVE  BN!IInv'
  BY <1>3, BreachSends
<1>4. ASSUME NEW r \in Requests, BN!Finish(r) PROVE BN!IInv'
  BY <1>4, BreachFinishes
<1>5. ASSUME NEW r \in Requests, BN!Crash(r) PROVE BN!IInv'
  <2>1. r \in DOMAIN v3 /\ BN!Drop(r) /\ UNCHANGED <<v1, v2, v4, v5, v6, v7>>
    BY <1>5 DEF BN!Crash
  <2>. QED
    BY <1>1, <2>1, BreachDropIs, BreachFewer
<1>6. ASSUME NEW c \in Cands, BN!Change(c) PROVE BN!IInv'
  <2>1. /\ UNCHANGED <<v2, v3, v4, v5, v6, v7>>
        /\ v1' = IF c \in v1 THEN v1 \ {c} ELSE v1 \cup {c}
    BY <1>6 DEF BN!Change
  <2>2. v1' \subseteq Cands
    BY <1>1, <2>1
  <2>. QED
    BY <1>1, <2>1, <2>2, BreachFewer
<1>7. CASE UNCHANGED BN!vars
  BY <1>1, <1>7, BreachFewer DEF BN!vars
<1>. QED
  BY <1>2, <1>3, <1>4, <1>5, <1>6, <1>7 DEF BN!Next

LEMMA BreachEnough ==
  BN!IInv => BN!NoticeAccounted /\ BN!SentOnce
BY DEF BN!IInv

LEMMA BreachMoves ==
  ASSUME [Next]_vars, part' = "BreachNotices"
  PROVE  part = "BreachNotices" /\ [BN!Next]_BN!vars
BY DEF Next, vars, BN!vars

LEMMA BreachAlways == Spec => [](part = "BreachNotices" => BN!IInv)
<1>1. Init => (part = "BreachNotices" => BN!IInv)
  BY BreachStart, OfficeAssumption DEF Init
<1>2. (part = "BreachNotices" => BN!IInv) /\ [Next]_vars => (part = "BreachNotices" => BN!IInv)'
  BY BreachStep, BreachMoves, OfficeAssumption
<1>. QED
  BY <1>1, <1>2, PTL DEF Spec
------------------------------------------------------------------------------
\* When nothing is in progress the organization's status is the one its documents
\* give it, unless requests overlapped or a worker was killed and no request has run
\* alone since (recompute_organization_kyc_status).
THEOREM KycStatusIsDerived == Spec => []KycStatusFollows
<1>1. (part = "Kyc" => KY!IInv) => KycStatusFollows
  BY KycEnough DEF KycStatusFollows
<1>. QED
  BY KycAlways, <1>1, PTL

\* The file that a candidate's row names is on disk, whatever uploads replace it at the
\* same time and wherever a worker is killed, but for a salary slip that was saved by a
\* commit whose answer did not come back (save_candidate_file, _save_salary_slip).
THEOREM FilesAreKept == Spec => []FilesKept
<1>1. (part = "Documents" => DO!IInv) => FilesKept
  BY DocumentsEnough DEF FilesKept
<1>. QED
  BY DocumentsAlways, <1>1, PTL
==============================================================================
