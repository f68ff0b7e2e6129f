-------------------------- MODULE CandidatesProofs --------------------------
(* Proofs about Candidates for any candidates, employers, forms and number   *)
(* of requests: types, and that placements follow their candidates.          *)
EXTENDS Candidates, SequenceTheorems, FiniteSetTheorems, TLAPS

Employers == [name : Companies, active : BOOLEAN]

------------------------------------------------------------------------------
(* Writing the columns that changed                                         *)

\* The columns of a row are written one by one: the row keeps its type, a column
\* nobody changed its value, and a row nobody changed stays as it is.
LEMMA WrittenForm ==
  ASSUME NEW a \in Form, NEW b \in Form, NEW e \in Form
  PROVE  Written(a, b, e) \in Form
BY DEF Written, Form

LEMMA WrittenFormKept ==
  ASSUME NEW a \in Form, NEW b \in Form
  PROVE  Written(a, b, b) = a /\ Written(a, a, b) = b
BY DEF Written, Form

LEMMA WrittenEmployer ==
  ASSUME NEW a \in Employers, NEW b \in Employers, NEW e \in Employers
  PROVE  Written(a, b, e) \in Employers
BY DEF Written, Employers

LEMMA WrittenPlacement ==
  ASSUME NEW a \in Placement, NEW b \in Placement, NEW e \in Placement
  PROVE  /\ Written(a, b, e) \in Placement
         /\ Written(a, b, e).cand = IF e.cand # b.cand THEN e.cand ELSE a.cand
<1>1. Written(a, b, e) \in Placement
  BY DEF Written, Placement
<1>2. Written(a, b, e).cand = IF e.cand # b.cand THEN e.cand ELSE a.cand
  BY DEF Written, Placement
<1>. QED
  BY <1>1, <1>2

LEMMA WrittenPlacementKept ==
  ASSUME NEW a \in Placement, NEW b \in Placement
  PROVE  Written(a, b, b) = a /\ Written(a, a, b) = b
<1>1. Written(a, b, b) = a
  BY DEF Written, Placement
<1>2. Written(a, a, b) = b
  BY DEF Written, Placement
<1>. QED
  BY <1>1, <1>2

LEMMA WrittenColumns ==
  ASSUME NEW a \in Columns, NEW b \in Columns, NEW e \in Columns
  PROVE  WrittenCand(a, b, e) \in Columns
<1>1. {a.form, b.form, e.form} \subseteq Form
  BY DEF Columns
<1>. QED
  BY <1>1, WrittenForm DEF WrittenCand, Columns

LEMMA WrittenColumnsKept ==
  ASSUME NEW a \in Columns, NEW b \in Columns
  PROVE  WrittenCand(a, b, b) = a /\ WrittenCand(a, a, b) = b
<1>1. {a.form, b.form} \subseteq Form
  BY DEF Columns
<1>2. WrittenCand(a, b, b) = a
  BY <1>1, WrittenFormKept DEF WrittenCand, Columns
<1>3. WrittenCand(a, a, b) = b
  BY <1>1, WrittenFormKept DEF WrittenCand, Columns
<1>. QED
  BY <1>2, <1>3

\* t is the table after the rows of old were written as in new, the added ones last
TableWritten(table, old, new, t) ==
  /\ Len(t) = Len(table) + Len(new) - Len(old)
  /\ \A i \in 1 .. Len(table) :
       t[i] = IF i <= Len(old) THEN Written(table[i], old[i], new[i]) ELSE table[i]
  /\ \A i \in Len(table) + 1 .. Len(t) : t[i] = new[i - Len(table) + Len(old)]

\* The rows that were read are updated in their places and the new ones follow those
\* that are there.
LEMMA WrittenTableIs ==
  ASSUME NEW S, NEW table \in Seq(S), NEW old \in Seq(S), NEW new \in Seq(S),
         Len(old) <= Len(new), \A a, b, e \in S : Written(a, b, e) \in S
  PROVE  /\ WrittenTable(table, old, new) \in Seq(S)
         /\ TableWritten(table, old, new, WrittenTable(table, old, new))
<1>. DEFINE f == [i \in 1 .. Len(table) |->
                    IF i <= Len(old) THEN Written(table[i], old[i], new[i]) ELSE table[i]]
            g == SubSeq(new, Len(old) + 1, Len(new))
<1>1. Len(table) \in Nat /\ Len(old) \in Nat /\ Len(new) \in Nat
  OBVIOUS
<1>2. \A i \in 1 .. Len(table) : f[i] \in S
  <2>. SUFFICES ASSUME NEW i \in 1 .. Len(table) PROVE f[i] \in S
    OBVIOUS
  <2>1. table[i] \in S
    BY ElementOfSeq
  <2>2. CASE i <= Len(old)
    <3>1. old[i] \in S /\ new[i] \in S
      BY <1>1, <2>2, ElementOfSeq
    <3>. QED
      BY <2>1, <2>2, <3>1
  <2>. QED
    BY <2>1, <2>2
<1>3. f \in Seq(S) /\ Len(f) = Len(table)
  <2>1. f \in [1 .. Len(table) -> S]
    BY <1>2
  <2>. HIDE DEF f
  <2>2. f \in Seq(S)
    BY <1>1, <2>1, SeqDef
  <2>. QED
    BY <1>1, <2>1, <2>2, LenProperties
<1>4. /\ g \in Seq(S) /\ Len(g) = Len(new) - Len(old)
      /\ \A i \in 1 .. Len(g) : g[i] = new[Len(old) + i]
  <2>1. \A i \in Len(old) + 1 .. Len(new) : new[i] \in S
    BY <1>1, ElementOfSeq
  <2>. QED
    BY <1>1, <2>1, SubSeqProperties
<1>5. WrittenTable(table, old, new) = f \o g
  BY DEF WrittenTable
<1>6. \A i \in 1 .. Len(table) :
        f[i] = IF i <= Len(old) THEN Written(table[i], old[i], new[i]) ELSE table[i]
  OBVIOUS
<1>. HIDE DEF f, g
<1>7. /\ f \o g \in Seq(S) /\ Len(f \o g) = Len(f) + Len(g)
      /\ \A i \in 1 .. Len(f) + Len(g) : (f \o g)[i] = IF i <= Len(f) THEN f[i] ELSE g[i - Len(f)]
  <2>1. f \in Seq(S) /\ g \in Seq(S)
    BY <1>3, <1>4
  <2>. QED
    BY <2>1, ConcatProperties, Zenon
<1>8. \A i \in 1 .. Len(table) :
        (f \o g)[i] = IF i <= Len(old) THEN Written(table[i], old[i], new[i]) ELSE table[i]
  BY <1>1, <1>3, <1>4, <1>6, <1>7
<1>9. \A i \in Len(table) + 1 .. Len(f \o g) : (f \o g)[i] = new[i - Len(table) + Len(old)]
  <2>. SUFFICES ASSUME NEW i \in Len(table) + 1 .. Len(f \o g)
                PROVE  (f \o g)[i] = new[i - Len(table) + Len(old)]
    OBVIOUS
  <2>1. i \in 1 .. Len(f) + Len(g) /\ ~(i <= Len(f)) /\ i - Len(f) \in 1 .. Len(g)
    BY <1>1, <1>3, <1>4, <1>7
  <2>2. (f \o g)[i] = new[Len(old) + (i - Len(f))]
    BY <1>4, <1>7, <2>1
  <2>. QED
    BY <1>1, <1>3, <2>2
<1>. QED
  BY <1>1, <1>3, <1>4, <1>5, <1>7, <1>8, <1>9 DEF TableWritten

------------------------------------------------------------------------------
(* Tables that were read and tables that are to be written                  *)

\* Rows of the placements are not dropped and keep their candidates.
Evolved(d, e) ==
  /\ Len(d.placements) <= Len(e.placements)
  /\ \A i \in 1 .. Len(d.placements) : e.placements[i].cand = d.placements[i].cand

\* The placements of a candidate follow.
Consistent(d, c) ==
  IF Employed(d, c) THEN \E i \in 1 .. Len(d.placements) : WorkingRows(d, c) = {i}
  ELSE WorkingRows(d, c) = {}

\* A form that has read d writes e.
Made(d, e) ==
  /\ Evolved(d, e) /\ Len(d.employers) <= Len(e.employers)
  /\ \A i \in 1 .. Len(d.placements) :
       ~d.placements[i].working => e.placements[i] = d.placements[i]
  /\ \A c \in Cands : d.cands[c].state # "none" =>
       /\ e.cands[c].state # "none"
       /\ d.cands[c].form.training = "dropped_out" => e.cands[c].form.training = "dropped_out"
  /\ \A c \in Cands : Consistent(d, c) => Consistent(e, c)

LEMMA TablesOf ==
  ASSUME NEW d \in Tables
  PROVE  /\ d = [cands |-> d.cands, employers |-> d.employers, placements |-> d.placements]
         /\ d.cands \in [Cands -> Columns]
         /\ d.employers \in Seq(Employers) /\ Len(d.employers) \in Nat
         /\ d.placements \in Seq(Placement) /\ Len(d.placements) \in Nat
         /\ DOMAIN d.placements = 1 .. Len(d.placements)
         /\ DOMAIN d.employers = 1 .. Len(d.employers)
         /\ \A i \in 1 .. Len(d.placements) : d.placements[i] \in Placement
         /\ \A c \in Cands : d.cands[c] \in Columns /\ d.cands[c].form \in Form
<1>1. /\ d = [cands |-> d.cands, employers |-> d.employers, placements |-> d.placements]
      /\ d.cands \in [Cands -> Columns]
      /\ d.employers \in Seq(Employers) /\ d.placements \in Seq(Placement)
  BY DEF Tables, Employers
<1>2. \A i \in 1 .. Len(d.placements) : d.placements[i] \in Placement
  BY <1>1, ElementOfSeq
<1>3. \A c \in Cands : d.cands[c] \in Columns /\ d.cands[c].form \in Form
  BY <1>1 DEF Columns
<1>. QED
  BY <1>1, <1>2, <1>3, LenProperties

LEMMA EvolvedTransitive ==
  ASSUME NEW d \in Tables, NEW e \in Tables, NEW f \in Tables, Evolved(d, e), Evolved(e, f)
  PROVE  Evolved(d, f)
<1>1. Len(d.placements) \in Nat /\ Len(e.placements) \in Nat /\ Len(f.placements) \in Nat
  BY TablesOf
<1>. QED
  BY <1>1 DEF Evolved

LEMMA MadeTransitive ==
  ASSUME NEW d \in Tables, NEW e \in Tables, NEW f \in Tables, Made(d, e), Made(e, f)
  PROVE  Made(d, f)
<1>1. /\ Len(d.placements) \in Nat /\ Len(e.placements) \in Nat /\ Len(f.placements) \in Nat
      /\ Len(d.employers) \in Nat /\ Len(e.employers) \in Nat /\ Len(f.employers) \in Nat
  BY TablesOf
<1>2. Evolved(d, f)
  BY EvolvedTransitive DEF Made
<1>3. Len(d.employers) <= Len(f.employers)
  BY <1>1 DEF Made
<1>4. ASSUME NEW i \in 1 .. Len(d.placements), ~d.placements[i].working
      PROVE  f.placements[i] = d.placements[i]
  <2>1. i \in 1 .. Len(e.placements)
    BY <1>1 DEF Made, Evolved
  <2>2. e.placements[i] = d.placements[i]
    BY <1>4 DEF Made
  <2>. QED
    BY <1>4, <2>1, <2>2 DEF Made
<1>5. ASSUME NEW c \in Cands, d.cands[c].state # "none"
      PROVE  /\ f.cands[c].state # "none"
             /\ d.cands[c].form.training = "dropped_out" => f.cands[c].form.training = "dropped_out"
  BY <1>5 DEF Made
<1>6. \A c \in Cands : Consistent(d, c) => Consistent(f, c)
  BY DEF Made
<1>. QED
  BY <1>2, <1>3, <1>4, <1>5, <1>6 DEF Made

\* What a query's first() finds is one of the rows.
LEMMA FirstIn == ASSUME NEW rows PROVE First(rows) \in rows \cup {0}
BY DEF First

LEMMA FirstOfOne == ASSUME NEW i \in Nat PROVE First({i}) = i
<1>1. \E k \in {i} : \A j \in {i} : k <= j
  OBVIOUS
<1>2. \A k : k \in {i} => k = i
  OBVIOUS
<1>. QED
  BY <1>1, <1>2 DEF First

LEMMA FirstOfNone == First({}) = 0
BY DEF First

LEMMA WorkingRowsAre ==
  ASSUME NEW d \in Tables, NEW c
  PROVE  /\ WorkingRows(d, c) \subseteq 1 .. Len(d.placements)
         /\ \A i : i \in WorkingRows(d, c) <=>
              /\ i \in 1 .. Len(d.placements)
              /\ d.placements[i].cand = c /\ d.placements[i].working
BY TablesOf DEF WorkingRows

\* The same row everywhere means the same working rows.
LEMMA SameWorkingRows ==
  ASSUME NEW d \in Tables, NEW e \in Tables, NEW c, Len(d.placements) = Len(e.placements),
         \A i \in 1 .. Len(d.placements) :
           d.placements[i].cand = c \/ e.placements[i].cand = c => e.placements[i] = d.placements[i]
  PROVE  WorkingRows(e, c) = WorkingRows(d, c)
<1>1. ASSUME NEW i PROVE i \in WorkingRows(e, c) <=> i \in WorkingRows(d, c)
  BY WorkingRowsAre
<1>. QED
  BY <1>1

------------------------------------------------------------------------------
(* What the forms do to the tables                                          *)

LEMMA WithCand ==
  ASSUME NEW d \in Tables, NEW c \in Cands, NEW col \in Columns
  PROVE  LET e == [d EXCEPT !.cands[c] = col] IN
         /\ e \in Tables /\ e.employers = d.employers /\ e.placements = d.placements
         /\ \A k \in Cands : e.cands[k] = IF k = c THEN col ELSE d.cands[k]
         /\ \A k : WorkingRows(e, k) = WorkingRows(d, k)
<1>. DEFINE e == [d EXCEPT !.cands[c] = col]
<1>1. e.employers = d.employers /\ e.placements = d.placements
  BY TablesOf
<1>2. e.cands = [d.cands EXCEPT ![c] = col]
  BY TablesOf
<1>3. e = [cands |-> e.cands, employers |-> e.employers, placements |-> e.placements]
  <2>1. e = [d EXCEPT !.cands = [d.cands EXCEPT ![c] = col]]
    BY TablesOf
  <2>. HIDE DEF e
  <2>. QED
    BY <1>1, <1>2, <2>1, TablesOf
<1>. HIDE DEF e
<1>4. e.cands \in [Cands -> Columns]
  BY <1>2, TablesOf
<1>5. e \in Tables
  BY <1>1, <1>3, <1>4, TablesOf DEF Tables, Employers
<1>6. \A k \in Cands : e.cands[k] = IF k = c THEN col ELSE d.cands[k]
  BY <1>2, TablesOf
<1>7. \A k : WorkingRows(e, k) = WorkingRows(d, k)
  BY <1>1 DEF WorkingRows
<1>. QED
  BY <1>1, <1>5, <1>6, <1>7 DEF e

Reasons == {"removed", "left", "moved"}

LEMMA LeaveIs ==
  ASSUME NEW d \in Tables, NEW i \in {0} \cup (1 .. Len(d.placements)), NEW reason \in Reasons
  PROVE  LET e == Leave(d, i, reason) IN
         /\ e \in Tables /\ e.cands = d.cands /\ e.employers = d.employers
         /\ Len(e.placements) = Len(d.placements)
         /\ \A j \in 1 .. Len(d.placements) :
              /\ e.placements[j].cand = d.placements[j].cand
              /\ e.placements[j].working = (d.placements[j].working /\ j # i)
              /\ j # i => e.placements[j] = d.placements[j]
<1>. DEFINE e == Leave(d, i, reason)
<1>1. CASE i = 0
  <2>1. e = d
    BY <1>1 DEF Leave
  <2>2. ASSUME NEW j \in 1 .. Len(d.placements)
        PROVE  d.placements[j].working = (d.placements[j].working /\ j # i)
    <3>1. d.placements[j] \in Placement
      BY TablesOf
    <3>2. d.placements[j].working \in BOOLEAN
      BY <3>1 DEF Placement
    <3>3. j # i
      BY <1>1, TablesOf
    <3>. QED
      BY <3>2, <3>3
  <2>. QED
    BY <2>1, <2>2
<1>2. CASE i # 0
  <2>. DEFINE p == [d.placements[i] EXCEPT !.working = FALSE, !.reason = reason]
              q == [d.placements EXCEPT ![i] = p]
  <2>1. i \in 1 .. Len(d.placements) /\ d.placements[i] \in Placement
    BY <1>2, TablesOf
  <2>2. p \in Placement /\ p.cand = d.placements[i].cand /\ p.working = FALSE
    BY <2>1 DEF Placement, Reasons
  <2>3. e = [d EXCEPT !.placements = q]
    <3>1. d.placements \in [1 .. Len(d.placements) -> Placement]
      BY TablesOf, LenProperties
    <3>2. e = [d EXCEPT !.placements[i].working = FALSE, !.placements[i].reason = reason]
      BY <1>2 DEF Leave
    <3>. QED
      BY <2>1, <3>1, <3>2, TablesOf
  <2>. HIDE DEF p
  <2>4. /\ q \in Seq(Placement) /\ Len(q) = Len(d.placements)
        /\ \A j \in 1 .. Len(d.placements) : q[j] = IF j = i THEN p ELSE d.placements[j]
    BY <2>1, <2>2, TablesOf, ExceptSeq
  <2>. HIDE DEF q
  <2>5. e.cands = d.cands /\ e.employers = d.employers /\ e.placements = q
    BY <2>3, TablesOf
  <2>6. e = [cands |-> d.cands, employers |-> d.employers, placements |-> q]
    BY <2>3, TablesOf
  <2>7. e \in Tables
    BY <2>4, <2>6, TablesOf DEF Tables, Employers
  <2>8. \A j \in 1 .. Len(d.placements) : d.placements[j].working \in BOOLEAN
    BY TablesOf DEF Placement
  <2>9. \A j \in 1 .. Len(d.placements) :
          /\ q[j].cand = d.placements[j].cand
          /\ q[j].working = (d.placements[j].working /\ j # i)
          /\ j # i => q[j] = d.placements[j]
    BY <2>2, <2>4, <2>8
  <2>. QED
    BY <2>4, <2>5, <2>7, <2>9
<1>. QED
  BY <1>1, <1>2

Updated(d, i, role, verified) ==
  [d EXCEPT !.placements[i].role = role, !.placements[i].verified = verified]

LEMMA UpdateIs ==
  ASSUME NEW d \in Tables, NEW i \in 1 .. Len(d.placements), NEW role \in Roles,
         NEW verified \in BOOLEAN, NEW e, e = Updated(d, i, role, verified)
  PROVE
         /\ e \in Tables /\ e.cands = d.cands /\ e.employers = d.employers
         /\ Len(e.placements) = Len(d.placements)
         /\ \A j \in 1 .. Len(d.placements) :
              /\ e.placements[j].cand = d.placements[j].cand
              /\ e.placements[j].working = d.placements[j].working
              /\ j # i => e.placements[j] = d.placements[j]
<1>. DEFINE p == [d.placements[i] EXCEPT !.role = role, !.verified = verified]
            q == [d.placements EXCEPT ![i] = p]
<1>1. d.placements[i] \in Placement
  BY TablesOf
<1>2. p \in Placement /\ p.cand = d.placements[i].cand /\ p.working = d.placements[i].working
  BY <1>1 DEF Placement
<1>3. e = [d EXCEPT !.placements = q]
  <2>1. d.placements \in [1 .. Len(d.placements) -> Placement]
    BY TablesOf, LenProperties
  <2>. QED
    BY <1>1, <2>1, TablesOf DEF Updated
<1>. HIDE DEF p
<1>4. /\ q \in Seq(Placement) /\ Len(q) = Len(d.placements)
      /\ \A j \in 1 .. Len(d.placements) : q[j] = IF j = i THEN p ELSE d.placements[j]
  BY <1>2, TablesOf, ExceptSeq
<1>. HIDE DEF q
<1>5. e.cands = d.cands /\ e.employers = d.employers /\ e.placements = q
  BY <1>3, TablesOf
<1>6. e = [cands |-> d.cands, employers |-> d.employers, placements |-> q]
  BY <1>3, TablesOf
<1>7. e \in Tables
  BY <1>4, <1>6, TablesOf DEF Tables, Employers
<1>8. \A j \in 1 .. Len(d.placements) :
        /\ q[j].cand = d.placements[j].cand /\ q[j].working = d.placements[j].working
        /\ j # i => q[j] = d.placements[j]
  BY <1>2, <1>4
<1>. QED
  BY <1>4, <1>5, <1>7, <1>8

LEMMA AddEmployerIs ==
  ASSUME NEW d \in Tables, NEW name \in Companies
  PROVE  LET e == AddEmployer(d, name) IN
         /\ e \in Tables /\ e.cands = d.cands /\ e.placements = d.placements
         /\ Len(e.employers) = Len(d.employers) + 1
<1>. DEFINE e == AddEmployer(d, name)
            q == Append(d.employers, [name |-> name, active |-> TRUE])
<1>1. q \in Seq(Employers) /\ Len(q) = Len(d.employers) + 1
  <2>1. [name |-> name, active |-> TRUE] \in Employers
    BY DEF Employers
  <2>. QED
    BY <2>1, TablesOf
<1>2. e = [d EXCEPT !.employers = q]
  BY DEF AddEmployer
<1>. HIDE DEF q
<1>3. e = [cands |-> d.cands, employers |-> q, placements |-> d.placements]
  BY <1>2, TablesOf
<1>4. e \in Tables
  BY <1>1, <1>3, TablesOf DEF Tables, Employers
<1>. QED
  BY <1>1, <1>3, <1>4

\* e is d with one more placement, a working one of c
Placed(d, e, c) ==
  /\ e \in Tables /\ e.cands = d.cands /\ e.employers = d.employers
  /\ Len(e.placements) = Len(d.placements) + 1
  /\ \A j \in 1 .. Len(d.placements) : e.placements[j] = d.placements[j]
  /\ e.placements[Len(d.placements) + 1].cand = c
  /\ e.placements[Len(d.placements) + 1].working = TRUE

LEMMA PlaceIs ==
  ASSUME NEW d \in Tables, NEW c \in Cands, NEW n \in Nat \ {0}, NEW role \in Roles
  PROVE  Placed(d, Place(d, c, n, role), c)
<1>. DEFINE p == [cand |-> c, employer |-> n, role |-> role, working |-> TRUE,
                  reason |-> "", verified |-> FALSE]
            q == Append(d.placements, p)
            e == Place(d, c, n, role)
<1>1. p \in Placement /\ p.cand = c /\ p.working = TRUE
  BY DEF Placement
<1>2. e = [d EXCEPT !.placements = q]
  BY DEF Place
<1>. HIDE DEF p
<1>3. /\ q \in Seq(Placement) /\ Len(q) = Len(d.placements) + 1
      /\ \A j \in 1 .. Len(d.placements) : q[j] = d.placements[j]
      /\ q[Len(d.placements) + 1] = p
  BY <1>1, TablesOf
<1>. HIDE DEF q
<1>. HIDE DEF e
<1>4. e = [cands |-> d.cands, employers |-> d.employers, placements |-> q]
  BY <1>2, TablesOf
<1>5. e \in Tables
  BY <1>3, <1>4, TablesOf DEF Tables, Employers
<1>. QED
  BY <1>1, <1>3, <1>4, <1>5 DEF Placed, e

\* A step that touches only the placements of c, and these in order.
LEMMA PlacementsMade ==
  ASSUME NEW d \in Tables, NEW e \in Tables, NEW c \in Cands,
         Evolved(d, e), Len(d.employers) <= Len(e.employers),
         \A i \in 1 .. Len(d.placements) :
           d.placements[i].cand # c \/ ~d.placements[i].working => e.placements[i] = d.placements[i],
         \A i \in Len(d.placements) + 1 .. Len(e.placements) : e.placements[i].cand = c,
         \A k \in Cands \ {c} : e.cands[k] = d.cands[k],
         d.cands[c].state # "none" =>
           /\ e.cands[c].state # "none"
           /\ d.cands[c].form.training = "dropped_out" => e.cands[c].form.training = "dropped_out",
         Consistent(d, c) => Consistent(e, c)
  PROVE  Made(d, e)
<1>1. Len(d.placements) \in Nat /\ Len(e.placements) \in Nat /\ Len(d.placements) <= Len(e.placements)
  BY TablesOf DEF Evolved
<1>2. ASSUME NEW k \in Cands \ {c} PROVE Consistent(d, k) => Consistent(e, k)
  <2>1. ASSUME NEW i PROVE i \in WorkingRows(e, k) <=> i \in WorkingRows(d, k)
    <3>1. CASE i \in 1 .. Len(d.placements)
      <4>1. i \in 1 .. Len(e.placements)
        BY <1>1, <3>1
      <4>2. e.placements[i].cand = d.placements[i].cand
        BY <3>1 DEF Evolved
      <4>3. CASE d.placements[i].cand = k
        <5>1. e.placements[i] = d.placements[i]
          BY <3>1, <4>3
        <5>. QED
          BY <3>1, <4>1, <5>1, WorkingRowsAre
      <4>4. CASE d.placements[i].cand # k
        BY <3>1, <4>1, <4>2, <4>4, WorkingRowsAre
      <4>. QED
        BY <4>3, <4>4
    <3>2. CASE i \notin 1 .. Len(d.placements)
      <4>1. i \notin WorkingRows(d, k)
        BY <3>2, WorkingRowsAre
      <4>2. ASSUME i \in WorkingRows(e, k) PROVE FALSE
        <5>1. i \in 1 .. Len(e.placements) /\ e.placements[i].cand = k
          BY <4>2, WorkingRowsAre
        <5>2. i \in Len(d.placements) + 1 .. Len(e.placements)
          BY <1>1, <3>2, <5>1
        <5>. QED
          BY <5>1, <5>2
      <4>. QED
        BY <4>1, <4>2
    <3>. QED
      BY <3>1, <3>2
  <2>2. WorkingRows(e, k) = WorkingRows(d, k)
    BY <2>1
  <2>3. Employed(e, k) <=> Employed(d, k)
    BY DEF Employed
  <2>4. 1 .. Len(d.placements) \subseteq 1 .. Len(e.placements)
    BY <1>1
  <2>. QED
    BY <2>2, <2>3, <2>4 DEF Consistent
<1>3. \A k \in Cands : Consistent(d, k) => Consistent(e, k)
  BY <1>2
<1>4. \A i \in 1 .. Len(d.placements) :
        ~d.placements[i].working => e.placements[i] = d.placements[i]
  OBVIOUS
<1>5. \A k \in Cands : d.cands[k].state # "none" =>
        /\ e.cands[k].state # "none"
        /\ d.cands[k].form.training = "dropped_out" => e.cands[k].form.training = "dropped_out"
  OBVIOUS
<1>. QED
  BY <1>3, <1>4, <1>5 DEF Made

\* Whatever a form does to a candidate: once the placements are synchronized, they
\* follow, those of others are as they were and those that were left stay so.
LEMMA SyncMade ==
  ASSUME NEW d \in Tables, NEW c \in Cands, NEW col \in Columns, col.state # "none",
         d.cands[c].state # "none" /\ d.cands[c].form.training = "dropped_out"
           => col.form.training = "dropped_out"
  PROVE  LET e == Sync([d EXCEPT !.cands[c] = col], c) IN
         /\ e \in Tables /\ Made(d, e)
         /\ \A k \in Cands : e.cands[k] = IF k = c THEN col ELSE d.cands[k]
<1>. DEFINE x == [d EXCEPT !.cands[c] = col]
            e == Sync(x, c)
            form  == col.form
            i     == First(WorkingRows(d, c))
            known == ActiveEmployer(x, form.employer)
            n     == IF known = 0 THEN Len(x.employers) + 1 ELSE known
            y     == IF known = 0 THEN AddEmployer(x, form.employer) ELSE x
            z     == Leave(y, i, "moved")
<1>1. /\ x \in Tables /\ x.employers = d.employers /\ x.placements = d.placements
      /\ \A k \in Cands : x.cands[k] = IF k = c THEN col ELSE d.cands[k]
      /\ \A k : WorkingRows(x, k) = WorkingRows(d, k)
  BY WithCand
<1>2. x.cands[c].form = form /\ form \in Form
  BY <1>1 DEF Columns
<1>3. e = IF form.employer = NoCompany THEN Leave(x, i, "removed")
          ELSE IF form.left THEN Leave(x, i, "left")
          ELSE IF i # 0 /\ x.placements[i].employer = n
          THEN Updated(x, i, form.role, form.verified)
          ELSE Place(z, c, n, form.role)
  <2>1. WorkingRows(x, c) = WorkingRows(d, c) /\ x.cands[c].form = form
    BY <1>1, <1>2
  <2>. HIDE DEF x, form
  <2>. QED
    BY <2>1 DEF Sync, Updated
<1>4. i \in {0} \cup (1 .. Len(x.placements))
  BY <1>1, FirstIn, WorkingRowsAre
<1>5. i # 0 => d.placements[i].cand = c /\ d.placements[i].working
  BY FirstIn, WorkingRowsAre
<1>6. known \in Nat
  <2>1. known \in {p \in DOMAIN x.employers :
                     x.employers[p].name = form.employer /\ x.employers[p].active} \cup {0}
    BY FirstIn DEF ActiveEmployer
  <2>. QED
    BY <1>1, <2>1, TablesOf
<1>7. n \in Nat \ {0}
  BY <1>1, <1>6, TablesOf
<1>8. Len(d.placements) \in Nat /\ Len(d.employers) \in Nat
  BY TablesOf
<1>9. Consistent(d, c) => \/ WorkingRows(d, c) = {} /\ i = 0
                          \/ i \in 1 .. Len(d.placements) /\ WorkingRows(d, c) = {i}
  <2>1. ASSUME WorkingRows(d, c) = {} PROVE WorkingRows(d, c) = {} /\ i = 0
    BY <2>1, FirstOfNone, Zenon
  <2>2. ASSUME NEW j \in 1 .. Len(d.placements), WorkingRows(d, c) = {j}
        PROVE  i \in 1 .. Len(d.placements) /\ WorkingRows(d, c) = {i}
    <3>1. i = j
      BY <2>2, FirstOfOne
    <3>. QED
      BY <2>2, <3>1
  <2>. HIDE DEF i
  <2>. QED
    BY <2>1, <2>2 DEF Consistent
<1>10. Employed(x, c) <=> form.employer # NoCompany /\ ~form.left
  BY <1>1, <1>2 DEF Employed
<1>. HIDE DEF x, e, form, i, known, n, y, z
<1>11. CASE form.employer = NoCompany \/ form.left
  <2>1. PICK reason \in Reasons : e = Leave(x, i, reason)
    BY <1>3, <1>11 DEF Reasons
  <2>2. /\ e \in Tables /\ e.cands = x.cands /\ e.employers = x.employers
        /\ Len(e.placements) = Len(x.placements)
        /\ \A j \in 1 .. Len(x.placements) :
             /\ e.placements[j].cand = x.placements[j].cand
             /\ e.placements[j].working = (x.placements[j].working /\ j # i)
             /\ j # i => e.placements[j] = x.placements[j]
    BY <1>1, <1>4, <2>1, LeaveIs
  <2>3. ~Employed(e, c)
    BY <1>10, <1>11, <2>2 DEF Employed
  <2>4. Consistent(d, c) => WorkingRows(e, c) = {}
    <3>1. ASSUME Consistent(d, c), NEW j \in WorkingRows(e, c) PROVE FALSE
      <4>1. /\ j \in 1 .. Len(d.placements) /\ d.placements[j].cand = c /\ d.placements[j].working
            /\ j # i
        <5>1. j \in 1 .. Len(d.placements) /\ e.placements[j].cand = c /\ e.placements[j].working
          BY <1>1, <2>2, WorkingRowsAre
        <5>2. /\ d.placements[j].cand = e.placements[j].cand
              /\ e.placements[j].working = (d.placements[j].working /\ j # i)
          BY <1>1, <2>2, <5>1
        <5>. QED
          BY <5>1, <5>2
      <4>2. j \in WorkingRows(d, c)
        BY <4>1, WorkingRowsAre
      <4>. QED
        BY <1>9, <3>1, <4>1, <4>2
    <3>. QED
      BY <3>1
  <2>5. Consistent(d, c) => Consistent(e, c)
    BY <2>3, <2>4 DEF Consistent
  <2>6. Evolved(d, e) /\ Len(d.employers) <= Len(e.employers)
    BY <1>1, <1>8, <2>2 DEF Evolved
  <2>7. \A j \in 1 .. Len(d.placements) :
          d.placements[j].cand # c \/ ~d.placements[j].working => e.placements[j] = d.placements[j]
    BY <1>1, <1>5, <2>2
  <2>8. \A j \in Len(d.placements) + 1 .. Len(e.placements) : e.placements[j].cand = c
    BY <1>1, <1>8, <2>2
  <2>9. \A k \in Cands : e.cands[k] = IF k = c THEN col ELSE d.cands[k]
    BY <1>1, <2>2
  <2>10. Made(d, e)
    <3>1. /\ \A k \in Cands \ {c} : e.cands[k] = d.cands[k]
          /\ d.cands[c].state # "none" =>
               /\ e.cands[c].state # "none"
               /\ d.cands[c].form.training = "dropped_out" => e.cands[c].form.training = "dropped_out"
      BY <2>9
    <3>. QED
      BY <2>2, <2>5, <2>6, <2>7, <2>8, <3>1, PlacementsMade
  <2>. QED
    BY <2>2, <2>9, <2>10 DEF e, x
<1>12. CASE /\ form.employer # NoCompany /\ ~form.left
            /\ i # 0 /\ x.placements[i].employer = n
  <2>1. e = Updated(x, i, form.role, form.verified)
    BY <1>3, <1>12
  <2>2. /\ e \in Tables /\ e.cands = x.cands /\ e.employers = x.employers
        /\ Len(e.placements) = Len(x.placements)
        /\ \A j \in 1 .. Len(x.placements) :
             /\ e.placements[j].cand = x.placements[j].cand
             /\ e.placements[j].working = x.placements[j].working
             /\ j # i => e.placements[j] = x.placements[j]
    <3>1. i \in 1 .. Len(x.placements) /\ form.role \in Roles /\ form.verified \in BOOLEAN
      BY <1>2, <1>4, <1>12 DEF Form
    <3>2. x \in Tables
      BY <1>1
    <3>. QED
      BY <2>1, <3>1, <3>2, UpdateIs
  <2>3. Employed(e, c)
    BY <1>10, <1>12, <2>2 DEF Employed
  <2>4. WorkingRows(e, c) = WorkingRows(d, c)
    <3>1. ASSUME NEW j PROVE j \in WorkingRows(e, c) <=> j \in WorkingRows(d, c)
      BY <1>1, <2>2, WorkingRowsAre
    <3>. QED
      BY <3>1
  <2>5. Consistent(d, c) => Consistent(e, c)
    BY <1>1, <1>9, <1>12, <2>2, <2>3, <2>4 DEF Consistent
  <2>6. Evolved(d, e) /\ Len(d.employers) <= Len(e.employers)
    BY <1>1, <1>8, <2>2 DEF Evolved
  <2>7. \A j \in 1 .. Len(d.placements) :
          d.placements[j].cand # c \/ ~d.placements[j].working => e.placements[j] = d.placements[j]
    BY <1>1, <1>5, <1>12, <2>2
  <2>8. \A j \in Len(d.placements) + 1 .. Len(e.placements) : e.placements[j].cand = c
    BY <1>1, <1>8, <2>2
  <2>9. \A k \in Cands : e.cands[k] = IF k = c THEN col ELSE d.cands[k]
    BY <1>1, <2>2
  <2>10. Made(d, e)
    <3>1. /\ \A k \in Cands \ {c} : e.cands[k] = d.cands[k]
          /\ d.cands[c].state # "none" =>
               /\ e.cands[c].state # "none"
               /\ d.cands[c].form.training = "dropped_out" => e.cands[c].form.training = "dropped_out"
      BY <2>9
    <3>. QED
      BY <2>2, <2>5, <2>6, <2>7, <2>8, <3>1, PlacementsMade
  <2>. QED
    BY <2>2, <2>9, <2>10 DEF e, x
<1>13. CASE /\ form.employer # NoCompany /\ ~form.left
            /\ ~(i # 0 /\ x.placements[i].employer = n)
  <2>1. e = Place(z, c, n, form.role)
    BY <1>3, <1>13
  <2>2. /\ y \in Tables /\ y.cands = x.cands /\ y.placements = x.placements
        /\ Len(d.employers) <= Len(y.employers)
    <3>1. form.employer \in Companies
      BY <1>2, <1>13 DEF Form
    <3>2. CASE known = 0
      <4>1. y = AddEmployer(x, form.employer)
        BY <3>2 DEF y
      <4>. QED
        BY <1>1, <1>8, <3>1, <4>1, AddEmployerIs
    <3>3. CASE known # 0
      BY <1>1, <1>8, <3>3 DEF y
    <3>. QED
      BY <3>2, <3>3
  <2>3. /\ z \in Tables /\ z.cands = y.cands /\ z.employers = y.employers
        /\ Len(z.placements) = Len(y.placements)
        /\ \A j \in 1 .. Len(y.placements) :
             /\ z.placements[j].cand = y.placements[j].cand
             /\ z.placements[j].working = (y.placements[j].working /\ j # i)
             /\ j # i => z.placements[j] = y.placements[j]
    BY <1>4, <2>2, LeaveIs DEF z, Reasons
  <2>4. /\ e \in Tables /\ e.cands = z.cands /\ e.employers = z.employers
        /\ Len(e.placements) = Len(z.placements) + 1
        /\ \A j \in 1 .. Len(z.placements) : e.placements[j] = z.placements[j]
        /\ e.placements[Len(z.placements) + 1].cand = c
        /\ e.placements[Len(z.placements) + 1].working = TRUE
    <3>1. form.role \in Roles
      BY <1>2 DEF Form
    <3>2. z \in Tables
      BY <2>3
    <3>3. Placed(z, e, c)
      BY <1>7, <2>1, <3>1, <3>2, PlaceIs
    <3>. QED
      BY <3>3 DEF Placed
  <2>5. /\ Len(e.placements) = Len(d.placements) + 1
        /\ \A j \in 1 .. Len(d.placements) :
             /\ e.placements[j].cand = d.placements[j].cand
             /\ e.placements[j].working = (d.placements[j].working /\ j # i)
             /\ j # i => e.placements[j] = d.placements[j]
        /\ e.placements[Len(d.placements) + 1].cand = c
        /\ e.placements[Len(d.placements) + 1].working
    BY <1>1, <2>2, <2>3, <2>4
  <2>6. Employed(e, c)
    BY <1>10, <1>13, <2>2, <2>3, <2>4 DEF Employed
  <2>7. Consistent(d, c) => WorkingRows(e, c) = {Len(d.placements) + 1}
    <3>. SUFFICES ASSUME Consistent(d, c), NEW j
                  PROVE  j \in WorkingRows(e, c) <=> j = Len(d.placements) + 1
      OBVIOUS
    <3>1. j = Len(d.placements) + 1 => j \in WorkingRows(e, c)
      <4>1. Len(d.placements) + 1 \in 1 .. Len(e.placements)
        BY <1>8, <2>5
      <4>. QED
        BY <2>4, <2>5, <4>1, WorkingRowsAre
    <3>2. ASSUME j \in WorkingRows(e, c), j # Len(d.placements) + 1 PROVE FALSE
      <4>1. j \in 1 .. Len(d.placements)
        BY <1>8, <2>4, <2>5, <3>2, WorkingRowsAre
      <4>2. e.placements[j].cand = c /\ e.placements[j].working
        BY <2>4, <3>2, WorkingRowsAre
      <4>3. d.placements[j].cand = c /\ d.placements[j].working /\ j # i
        BY <2>5, <4>1, <4>2
      <4>4. j \in WorkingRows(d, c)
        BY <4>1, <4>3, WorkingRowsAre
      <4>. QED
        BY <1>9, <4>3, <4>4
    <3>. QED
      BY <3>1, <3>2
  <2>8. Consistent(d, c) => Consistent(e, c)
    BY <1>8, <2>5, <2>6, <2>7 DEF Consistent
  <2>9. Evolved(d, e) /\ Len(d.employers) <= Len(e.employers)
    BY <1>8, <2>2, <2>3, <2>4, <2>5 DEF Evolved
  <2>10. \A j \in 1 .. Len(d.placements) :
           d.placements[j].cand # c \/ ~d.placements[j].working => e.placements[j] = d.placements[j]
    <3>1. ASSUME NEW j \in 1 .. Len(d.placements),
                 d.placements[j].cand # c \/ ~d.placements[j].working
          PROVE  j # i
      BY <1>5, <1>8, <3>1
    <3>. QED
      BY <2>5, <3>1
  <2>11. \A j \in Len(d.placements) + 1 .. Len(e.placements) : e.placements[j].cand = c
    BY <1>8, <2>5
  <2>12. \A k \in Cands : e.cands[k] = IF k = c THEN col ELSE d.cands[k]
    BY <1>1, <2>2, <2>3, <2>4
  <2>13. Made(d, e)
    <3>1. /\ \A k \in Cands \ {c} : e.cands[k] = d.cands[k]
          /\ d.cands[c].state # "none" =>
               /\ e.cands[c].state # "none"
               /\ d.cands[c].form.training = "dropped_out" => e.cands[c].form.training = "dropped_out"
      BY <2>12
    <3>. QED
      BY <2>4, <2>8, <2>9, <2>10, <2>11, <3>1, PlacementsMade
  <2>. QED
    BY <2>4, <2>12, <2>13 DEF e, x
<1>. QED
  BY <1>11, <1>12, <1>13

WithState(d, c, state) == [d EXCEPT !.cands[c].state = state]
WithForm(d, c, form)   == [d EXCEPT !.cands[c].form = form]

\* A record of which only the state is changed, or only the form.
LEMMA StateChanged ==
  ASSUME NEW d \in Tables, NEW c \in Cands, NEW state \in {"active", "deleted"}
  PROVE  /\ WithState(d, c, state) = With(d, c, state, d.cands[c].form)
         /\ [state |-> state, form |-> d.cands[c].form] \in Columns
<1>1. d.cands[c] \in Columns
  BY TablesOf
<1>2. [d.cands[c] EXCEPT !.state = state] = [state |-> state, form |-> d.cands[c].form]
  BY <1>1 DEF Columns
<1>3. WithState(d, c, state) = With(d, c, state, d.cands[c].form)
  BY <1>2 DEF WithState, With
<1>4. [state |-> state, form |-> d.cands[c].form] \in Columns
  BY <1>1 DEF Columns
<1>. QED
  BY <1>3, <1>4

LEMMA FormReplaced ==
  ASSUME NEW d \in Tables, NEW c \in Cands, NEW form \in Form
  PROVE  /\ WithForm(d, c, form) = With(d, c, d.cands[c].state, form)
         /\ [state |-> d.cands[c].state, form |-> form] \in Columns
<1>1. d.cands[c] \in Columns
  BY TablesOf
<1>2. [d.cands[c] EXCEPT !.form = form] = [state |-> d.cands[c].state, form |-> form]
  BY <1>1 DEF Columns
<1>3. WithForm(d, c, form) = With(d, c, d.cands[c].state, form)
  BY <1>2 DEF WithForm, With
<1>4. [state |-> d.cands[c].state, form |-> form] \in Columns
  BY <1>1 DEF Columns
<1>. QED
  BY <1>3, <1>4

LEMMA FormChanged ==
  ASSUME NEW form \in Form
  PROVE  /\ NewForm(form) \in Form /\ NewForm(form).employer = form.employer
         /\ [NewForm(form) EXCEPT !.left = FALSE, !.training = "training_started"] \in Form
         /\ [NewForm(form) EXCEPT !.left = FALSE, !.training = "training_started"].employer = form.employer
         /\ [form EXCEPT !.verified = TRUE] \in Form
         /\ [form EXCEPT !.verified = TRUE].training = form.training
         /\ [form EXCEPT !.verified = TRUE].employer = form.employer
         /\ [form EXCEPT !.verified = TRUE].left = form.left
<1>1. NewForm(form) \in Form /\ NewForm(form).employer = form.employer
  BY DEF NewForm, Form
<1>2. \A f \in Form : /\ [f EXCEPT !.left = FALSE, !.training = "training_started"] \in Form
                       /\ [f EXCEPT !.left = FALSE, !.training = "training_started"].employer = f.employer
  BY DEF Form, Trainings
<1>3. /\ [form EXCEPT !.verified = TRUE] \in Form
      /\ [form EXCEPT !.verified = TRUE].training = form.training
      /\ [form EXCEPT !.verified = TRUE].employer = form.employer
      /\ [form EXCEPT !.verified = TRUE].left = form.left
  BY DEF Form
<1>. QED
  BY <1>1, <1>2, <1>3

------------------------------------------------------------------------------
(* What each form writes                                                    *)

\* A change of the candidate's own record that does not make or end employment.
LEMMA WithMade ==
  ASSUME NEW d \in Tables, NEW c \in Cands, NEW col \in Columns, col.state # "none",
         d.cands[c].state # "none" /\ d.cands[c].form.training = "dropped_out"
           => col.form.training = "dropped_out",
         Employed(d, c) <=> col.form.employer # NoCompany /\ ~col.form.left
  PROVE  LET e == [d EXCEPT !.cands[c] = col] IN
         /\ e \in Tables /\ Made(d, e)
         /\ \A k \in Cands : e.cands[k] = IF k = c THEN col ELSE d.cands[k]
<1>. DEFINE e == [d EXCEPT !.cands[c] = col]
<1>1. /\ e \in Tables /\ e.employers = d.employers /\ e.placements = d.placements
      /\ \A k \in Cands : e.cands[k] = IF k = c THEN col ELSE d.cands[k]
      /\ \A k : WorkingRows(e, k) = WorkingRows(d, k)
  BY WithCand
<1>. HIDE DEF e
<1>2. Len(d.placements) \in Nat /\ Len(d.employers) \in Nat
  BY TablesOf
<1>3. Evolved(d, e) /\ Len(d.employers) <= Len(e.employers)
  BY <1>1, <1>2 DEF Evolved
<1>4. Employed(e, c) <=> Employed(d, c)
  BY <1>1 DEF Employed
<1>5. Consistent(d, c) => Consistent(e, c)
  BY <1>1, <1>4 DEF Consistent
<1>6. \A j \in Len(d.placements) + 1 .. Len(e.placements) : e.placements[j].cand = c
  BY <1>1, <1>2
<1>7. Made(d, e)
  <2>1. /\ \A k \in Cands \ {c} : e.cands[k] = d.cands[k]
        /\ d.cands[c].state # "none" =>
             /\ e.cands[c].state # "none"
             /\ d.cands[c].form.training = "dropped_out" => e.cands[c].form.training = "dropped_out"
    BY <1>1
  <2>2. \A i \in 1 .. Len(d.placements) :
          d.placements[i].cand # c \/ ~d.placements[i].working => e.placements[i] = d.placements[i]
    BY <1>1
  <2>. QED
    BY <1>1, <1>3, <1>5, <1>6, <2>1, <2>2, PlacementsMade
<1>. QED
  BY <1>1, <1>7 DEF e

SameStates(d, e) == \A k \in Cands : e.cands[k].state = d.cands[k].state

Joined(d, e, c) == \A k \in Cands :
  e.cands[k].state = IF k = c THEN "active" ELSE d.cands[k].state

LEMMA CreatedMade ==
  ASSUME NEW d \in Tables, NEW c \in Cands, d.cands[c].state = "none", NEW form \in Form
  PROVE  /\ Created(d, c, form) \in Tables /\ Made(d, Created(d, c, form))
         /\ Joined(d, Created(d, c, form), c)
<1>. DEFINE col == [state |-> "active", form |-> NewForm(form)]
<1>1. col \in Columns /\ col.state = "active"
  BY FormChanged DEF Columns
<1>2. Created(d, c, form) = Sync([d EXCEPT !.cands[c] = col], c)
  BY DEF Created, With
<1>. HIDE DEF col
<1>3. /\ Created(d, c, form) \in Tables /\ Made(d, Created(d, c, form))
      /\ \A k \in Cands : Created(d, c, form).cands[k] = IF k = c THEN col ELSE d.cands[k]
  BY <1>1, <1>2, SyncMade
<1>. QED
  BY <1>1, <1>3 DEF Joined

LEMMA ImportedMade ==
  ASSUME NEW d \in Tables, NEW c \in Cands, d.cands[c].state = "none", NEW form \in Form
  PROVE  /\ Imported(d, c, form) \in Tables /\ Made(d, Imported(d, c, form))
         /\ Joined(d, Imported(d, c, form), c)
<1>. DEFINE f   == [NewForm(form) EXCEPT !.left = FALSE, !.training = "training_started"]
            col == [state |-> "active", form |-> f]
            e   == [d EXCEPT !.cands[c] = col]
<1>1. f \in Form /\ f.employer = form.employer
  BY FormChanged
<1>2. Imported(d, c, form) = IF form.employer = NoCompany THEN e ELSE Sync(e, c)
  BY DEF Imported, With
<1>. HIDE DEF f
<1>3. col \in Columns /\ col.state = "active" /\ col.form = f
  BY <1>1 DEF Columns
<1>. HIDE DEF col
<1>4. CASE form.employer = NoCompany
  <2>1. ~Employed(d, c) /\ ~(col.form.employer # NoCompany /\ ~col.form.left)
    BY <1>1, <1>3, <1>4 DEF Employed
  <2>2. /\ e \in Tables /\ Made(d, e)
        /\ \A k \in Cands : e.cands[k] = IF k = c THEN col ELSE d.cands[k]
    BY <1>3, <2>1, WithMade
  <2>. QED
    BY <1>2, <1>3, <1>4, <2>2 DEF Joined
<1>5. CASE form.employer # NoCompany
  <2>1. /\ Sync(e, c) \in Tables /\ Made(d, Sync(e, c))
        /\ \A k \in Cands : Sync(e, c).cands[k] = IF k = c THEN col ELSE d.cands[k]
    BY <1>3, SyncMade
  <2>. QED
    BY <1>2, <1>3, <1>5, <2>1 DEF Joined
<1>. QED
  BY <1>4, <1>5

LEMMA EditedMade ==
  ASSUME NEW d \in Tables, NEW c \in Cands, d.cands[c].state # "none", NEW form \in Form,
         MayMove(d.cands[c].form.training, form.training)
  PROVE  LET e == Sync(With(d, c, d.cands[c].state, form), c)
         IN  e \in Tables /\ Made(d, e) /\ SameStates(d, e)
<1>. DEFINE col == [state |-> d.cands[c].state, form |-> form]
<1>1. col \in Columns /\ col.state = d.cands[c].state
  BY FormReplaced
<1>2. With(d, c, d.cands[c].state, form) = [d EXCEPT !.cands[c] = col]
  BY DEF With
<1>3. /\ d.cands[c].form.training = "dropped_out" => col.form.training = "dropped_out"
  BY DEF MayMove, VALID_TRANSITIONS
<1>. HIDE DEF col
<1>4. LET e == Sync([d EXCEPT !.cands[c] = col], c)
      IN  /\ e \in Tables /\ Made(d, e)
          /\ \A k \in Cands : e.cands[k] = IF k = c THEN col ELSE d.cands[k]
  BY <1>1, <1>3, SyncMade
<1>. QED
  BY <1>1, <1>2, <1>4 DEF SameStates

LEMMA MovedMade ==
  ASSUME NEW d \in Tables, NEW c \in Cands, d.cands[c].state # "none",
         NEW state \in {"active", "deleted"}
  PROVE  /\ WithState(d, c, state) \in Tables /\ Made(d, WithState(d, c, state))
         /\ \A k \in Cands :
              WithState(d, c, state).cands[k].state = IF k = c THEN state ELSE d.cands[k].state
<1>. DEFINE col == [state |-> state, form |-> d.cands[c].form]
<1>1. d.cands[c].form \in Form
  BY TablesOf
<1>2. col \in Columns /\ WithState(d, c, state) = [d EXCEPT !.cands[c] = col]
  <2>1. With(d, c, state, d.cands[c].form) = [d EXCEPT !.cands[c] = col]
    BY DEF With
  <2>2. WithState(d, c, state) = With(d, c, state, d.cands[c].form) /\ col \in Columns
    BY StateChanged
  <2>. QED
    BY <2>1, <2>2
<1>3. col.state = state /\ col.form = d.cands[c].form
  OBVIOUS
<1>. HIDE DEF col
<1>4. Employed(d, c) <=> col.form.employer # NoCompany /\ ~col.form.left
  BY <1>3 DEF Employed
<1>5. LET e == [d EXCEPT !.cands[c] = col]
      IN  /\ e \in Tables /\ Made(d, e)
          /\ \A k \in Cands : e.cands[k] = IF k = c THEN col ELSE d.cands[k]
  BY <1>2, <1>3, <1>4, WithMade
<1>. QED
  BY <1>2, <1>3, <1>5

LEMMA VerifiedIs ==
  ASSUME NEW d \in Tables, NEW c \in Cands
  PROVE  /\ Verified(d, c) \in Tables
         /\ Verified(d, c).employers = d.employers /\ Verified(d, c).placements = d.placements
         /\ \A k \in Cands \ {c} : Verified(d, c).cands[k] = d.cands[k]
         /\ Verified(d, c).cands[c].state = d.cands[c].state
         /\ Verified(d, c).cands[c].form.training = d.cands[c].form.training
         /\ Verified(d, c).cands[c].form.employer = d.cands[c].form.employer
         /\ Verified(d, c).cands[c].form.left = d.cands[c].form.left
         /\ \E col \in Columns : Verified(d, c) = [d EXCEPT !.cands[c] = col]
<1>. DEFINE f   == [d.cands[c].form EXCEPT !.verified = TRUE]
            col == [state |-> d.cands[c].state, form |-> f]
            e   == [d EXCEPT !.cands[c] = col]
<1>1. /\ f \in Form /\ f.training = d.cands[c].form.training
      /\ f.employer = d.cands[c].form.employer /\ f.left = d.cands[c].form.left
  <2>1. d.cands[c].form \in Form
    BY TablesOf
  <2>. QED
    BY <2>1, FormChanged
<1>2. Verified(d, c) = e
  <2>1. Verified(d, c) = WithForm(d, c, f)
    BY DEF Verified, WithForm
  <2>. HIDE DEF f
  <2>2. With(d, c, d.cands[c].state, f) = e
    BY DEF With
  <2>3. WithForm(d, c, f) = With(d, c, d.cands[c].state, f)
    BY <1>1, FormReplaced
  <2>. QED
    BY <2>1, <2>2, <2>3
<1>. HIDE DEF f
<1>3. col \in Columns /\ col.state = d.cands[c].state /\ col.form = f
  BY <1>1, FormReplaced
<1>. HIDE DEF col
<1>4. /\ e \in Tables /\ e.employers = d.employers /\ e.placements = d.placements
      /\ \A k \in Cands : e.cands[k] = IF k = c THEN col ELSE d.cands[k]
  BY <1>3, WithCand
<1>5. \E k \in Columns : Verified(d, c) = [d EXCEPT !.cands[c] = k]
  BY <1>2, <1>3
<1>. HIDE DEF e
<1>. QED
  BY <1>1, <1>2, <1>3, <1>4, <1>5

LEMMA VerifiedMade ==
  ASSUME NEW d \in Tables, NEW c \in Cands, d.cands[c].state # "none"
  PROVE  /\ BulkVerified(d, c) \in Tables /\ Made(d, BulkVerified(d, c))
         /\ SameStates(d, BulkVerified(d, c))
<1>1. PICK col \in Columns : Verified(d, c) = [d EXCEPT !.cands[c] = col]
  BY VerifiedIs
<1>2. Verified(d, c).cands[c] = col
  BY <1>1, WithCand
<1>3. /\ col.state = d.cands[c].state
      /\ d.cands[c].form.training = "dropped_out" => col.form.training = "dropped_out"
      /\ Employed(d, c) <=> col.form.employer # NoCompany /\ ~col.form.left
  BY <1>2, VerifiedIs DEF Employed
<1>4. /\ Verified(d, c) \in Tables /\ Made(d, Verified(d, c))
      /\ Sync(Verified(d, c), c) \in Tables /\ Made(d, Sync(Verified(d, c), c))
      /\ \A k \in Cands : /\ Verified(d, c).cands[k] = IF k = c THEN col ELSE d.cands[k]
                          /\ Sync(Verified(d, c), c).cands[k] = IF k = c THEN col ELSE d.cands[k]
  BY <1>1, <1>3, WithMade, SyncMade
<1>. QED
  BY <1>3, <1>4 DEF BulkVerified, SameStates

Reported(d, c, form) ==
  [d EXCEPT !.cands[c].form = [@ EXCEPT !.employer = form.employer, !.role = form.role,
                                        !.left = FALSE]]

LEMMA ReportedMade ==
  ASSUME NEW d \in Tables, NEW c \in Cands, d.cands[c].state # "none", NEW form \in Form
  PROVE  /\ Sync(Reported(d, c, form), c) \in Tables
         /\ Made(d, Sync(Reported(d, c, form), c))
         /\ SameStates(d, Sync(Reported(d, c, form), c))
<1>. DEFINE f   == [d.cands[c].form EXCEPT !.employer = form.employer, !.role = form.role,
                                           !.left = FALSE]
            col == [state |-> d.cands[c].state, form |-> f]
<1>1. f \in Form /\ f.training = d.cands[c].form.training
  <2>1. d.cands[c].form \in Form
    BY TablesOf
  <2>. QED
    BY <2>1 DEF Form
<1>2. Reported(d, c, form) = [d EXCEPT !.cands[c] = col]
  <2>1. Reported(d, c, form) = WithForm(d, c, f)
    BY DEF Reported, WithForm
  <2>. HIDE DEF f
  <2>2. With(d, c, d.cands[c].state, f) = [d EXCEPT !.cands[c] = col]
    BY DEF With
  <2>3. WithForm(d, c, f) = With(d, c, d.cands[c].state, f)
    BY <1>1, FormReplaced
  <2>. QED
    BY <2>1, <2>2, <2>3
<1>. HIDE DEF f
<1>3. col \in Columns /\ col.state = d.cands[c].state /\ col.form = f
  BY <1>1, FormReplaced
<1>. HIDE DEF col
<1>4. LET e == Sync([d EXCEPT !.cands[c] = col], c)
      IN  /\ e \in Tables /\ Made(d, e)
          /\ \A k \in Cands : e.cands[k] = IF k = c THEN col ELSE d.cands[k]
  BY <1>1, <1>3, SyncMade
<1>. QED
  BY <1>2, <1>3, <1>4 DEF SameStates

\* Whatever is done to the employers, the candidates and placements stay.
LEMMA EmployersMade ==
  ASSUME NEW d \in Tables, NEW q \in Seq(Employers), Len(d.employers) <= Len(q)
  PROVE  LET e == [d EXCEPT !.employers = q] IN e \in Tables /\ Made(d, e) /\ SameStates(d, e)
<1>. DEFINE e == [d EXCEPT !.employers = q]
<1>1. e = [cands |-> d.cands, employers |-> q, placements |-> d.placements]
  BY TablesOf
<1>. HIDE DEF e
<1>2. e \in Tables
  BY <1>1, TablesOf DEF Tables, Employers
<1>3. \A k : WorkingRows(e, k) = WorkingRows(d, k) /\ (Employed(e, k) <=> Employed(d, k))
  BY <1>1 DEF WorkingRows, Employed
<1>4. Len(d.placements) \in Nat
  BY TablesOf
<1>5. Evolved(d, e)
  BY <1>1, <1>4 DEF Evolved
<1>6. \A c \in Cands : Consistent(d, c) => Consistent(e, c)
  BY <1>1, <1>3 DEF Consistent
<1>7. Made(d, e)
  BY <1>1, <1>5, <1>6 DEF Made
<1>8. SameStates(d, e)
  BY <1>1 DEF SameStates
<1>. QED
  BY <1>2, <1>7, <1>8 DEF e

Checked(d, i) == [d EXCEPT !.placements[i].verified = TRUE]

LEMMA CheckedIs ==
  ASSUME NEW d \in Tables, NEW i \in 1 .. Len(d.placements)
  PROVE  /\ Checked(d, i) \in Tables /\ Checked(d, i).cands = d.cands
         /\ Checked(d, i).employers = d.employers
         /\ Len(Checked(d, i).placements) = Len(d.placements)
         /\ \A j \in 1 .. Len(d.placements) :
              /\ Checked(d, i).placements[j].cand = d.placements[j].cand
              /\ Checked(d, i).placements[j].working = d.placements[j].working
              /\ j # i => Checked(d, i).placements[j] = d.placements[j]
<1>. DEFINE p == [d.placements[i] EXCEPT !.verified = TRUE]
            q == [d.placements EXCEPT ![i] = p]
            e == Checked(d, i)
<1>1. d.placements[i] \in Placement
  BY TablesOf
<1>2. p \in Placement /\ p.cand = d.placements[i].cand /\ p.working = d.placements[i].working
  BY <1>1 DEF Placement
<1>3. e = [d EXCEPT !.placements = q]
  BY DEF Checked
<1>. HIDE DEF p, e
<1>4. /\ q \in Seq(Placement) /\ Len(q) = Len(d.placements)
      /\ \A j \in 1 .. Len(d.placements) : q[j] = IF j = i THEN p ELSE d.placements[j]
  BY <1>2, TablesOf, ExceptSeq
<1>. HIDE DEF q
<1>5. e = [cands |-> d.cands, employers |-> d.employers, placements |-> q]
  BY <1>3, TablesOf
<1>6. e \in Tables
  BY <1>4, <1>5, TablesOf DEF Tables, Employers
<1>7. \A j \in 1 .. Len(d.placements) :
        /\ q[j].cand = d.placements[j].cand /\ q[j].working = d.placements[j].working
        /\ j # i => q[j] = d.placements[j]
  BY <1>2, <1>4
<1>. QED
  BY <1>4, <1>5, <1>6, <1>7 DEF e

LEMMA PlacementVerifiedMade ==
  ASSUME NEW d \in Tables, NEW i \in 1 .. Len(d.placements), d.placements[i].working
  PROVE  LET e == Checked(Verified(d, d.placements[i].cand), i)
         IN  e \in Tables /\ Made(d, e) /\ SameStates(d, e)
<1>. DEFINE c == d.placements[i].cand
            v == Verified(d, c)
            e == Checked(v, i)
<1>1. c \in Cands
  BY TablesOf DEF Placement
<1>. HIDE DEF c
<1>2. /\ v \in Tables /\ v.employers = d.employers /\ v.placements = d.placements
      /\ \A k \in Cands \ {c} : v.cands[k] = d.cands[k]
      /\ v.cands[c].state = d.cands[c].state
      /\ v.cands[c].form.training = d.cands[c].form.training
      /\ v.cands[c].form.employer = d.cands[c].form.employer
      /\ v.cands[c].form.left = d.cands[c].form.left
  BY <1>1, VerifiedIs
<1>. HIDE DEF v
<1>3. /\ e \in Tables /\ e.cands = v.cands /\ e.employers = v.employers
      /\ Len(e.placements) = Len(v.placements)
      /\ \A j \in 1 .. Len(v.placements) :
           /\ e.placements[j].cand = v.placements[j].cand
           /\ e.placements[j].working = v.placements[j].working
           /\ j # i => e.placements[j] = v.placements[j]
  BY <1>2, CheckedIs
<1>. HIDE DEF e
<1>4. Len(d.placements) \in Nat /\ Len(d.employers) \in Nat
  BY TablesOf
<1>5. Evolved(d, e) /\ Len(d.employers) <= Len(e.employers)
  BY <1>2, <1>3, <1>4 DEF Evolved
<1>6. WorkingRows(e, c) = WorkingRows(d, c)
  <2>1. ASSUME NEW j PROVE j \in WorkingRows(e, c) <=> j \in WorkingRows(d, c)
    BY <1>2, <1>3, WorkingRowsAre
  <2>. QED
    BY <2>1
<1>7. Employed(e, c) <=> Employed(d, c)
  BY <1>2, <1>3 DEF Employed
<1>8. Consistent(d, c) => Consistent(e, c)
  BY <1>2, <1>3, <1>6, <1>7 DEF Consistent
<1>9. \A j \in 1 .. Len(d.placements) :
        d.placements[j].cand # c \/ ~d.placements[j].working => e.placements[j] = d.placements[j]
  BY <1>2, <1>3 DEF c
<1>10. \A j \in Len(d.placements) + 1 .. Len(e.placements) : e.placements[j].cand = c
  BY <1>2, <1>3, <1>4
<1>11. Made(d, e)
  <2>1. /\ \A k \in Cands \ {c} : e.cands[k] = d.cands[k]
        /\ d.cands[c].state # "none" =>
             /\ e.cands[c].state # "none"
             /\ d.cands[c].form.training = "dropped_out" => e.cands[c].form.training = "dropped_out"
    BY <1>2, <1>3
  <2>. QED
    BY <1>1, <1>3, <1>5, <1>8, <1>9, <1>10, <2>1, PlacementsMade
<1>12. SameStates(d, e)
  BY <1>2, <1>3 DEF SameStates
<1>. QED
  BY <1>3, <1>11, <1>12 DEF e, v, c

------------------------------------------------------------------------------
(* The candidate limit                                                      *)

LEMMA ActiveFinite ==
  ASSUME NEW d
  PROVE  IsFiniteSet(Active(d)) /\ Cardinality(Active(d)) \in Nat
<1>1. IsFiniteSet(Active(d))
  BY CandidatesAssumption, FS_Subset DEF Active
<1>. QED
  BY <1>1, FS_CardinalityType

\* Candidates are added where the plan has room for them.
Grows(d, e) == Active(d) \subseteq Active(e) /\ (Limit = 0 \/ Cardinality(Active(e)) <= Limit)

\* A form restores a candidate, adds none, or adds where there is room.
Admitted(d, e) ==
  \/ \E c \in Cands : d.cands[c].state = "deleted" /\ e.cands[c].state = "active"
  \/ Active(e) \subseteq Active(d)
  \/ Grows(d, e)

LEMMA SameAdmitted ==
  ASSUME NEW d, NEW e, SameStates(d, e)
  PROVE  Admitted(d, e)
BY DEF SameStates, Admitted, Active

LEMMA JoinedGrows ==
  ASSUME NEW d, NEW e, NEW c \in Cands, d.cands[c].state = "none", Joined(d, e, c), HasRoom(d)
  PROVE  Grows(d, e)
<1>1. Active(e) = Active(d) \cup {c} /\ c \notin Active(d)
  BY DEF Joined, Active
<1>2. Cardinality(Active(d) \cup {c}) = Cardinality(Active(d)) + 1
  BY <1>1, ActiveFinite, FS_AddElement
<1>3. Limit = 0 \/ Cardinality(Active(d)) < Limit
  BY DEF HasRoom
<1>4. Cardinality(Active(d)) \in Nat /\ Limit \in Nat
  BY ActiveFinite, CandidatesAssumption
<1>5. Limit = 0 \/ Cardinality(Active(e)) <= Limit
  BY <1>1, <1>2, <1>3, <1>4
<1>. QED
  BY <1>1, <1>5 DEF Grows

------------------------------------------------------------------------------
(* Every form begins with what it makes                                     *)

Began(r) == \E new \in Tables : Made(db, new) /\ Admitted(db, new) /\ Begin(r, new)

LEMMA CandidateStepBegan ==
  ASSUME db \in Tables, NEW r, CandidateStep(r)
  PROVE  Began(r)
<1>1. ASSUME Import(r) PROVE Began(r)
  <2>1. PICK c1 \in Cands, c2 \in Cands, f1 \in Forms, f2 \in Forms :
          /\ IsNew(c1) /\ IsNew(c2) /\ HasRoom(db)
          /\ LET d1 == Imported(db, c1, f1)
             IN  Begin(r, IF c1 = c2 \/ ~HasRoom(d1) THEN d1 ELSE Imported(d1, c2, f2))
    BY <1>1 DEF Import
  <2>. DEFINE d1 == Imported(db, c1, f1)
              d2 == Imported(d1, c2, f2)
  <2>2. /\ f1 \in Form /\ f2 \in Form
        /\ db.cands[c1].state = "none" /\ db.cands[c2].state = "none"
    BY <2>1, CandidatesAssumption DEF IsNew
  <2>3. d1 \in Tables /\ Made(db, d1) /\ Joined(db, d1, c1)
    BY <2>2, ImportedMade
  <2>. HIDE DEF d1
  <2>0. Grows(db, d1)
    BY <2>1, <2>2, <2>3, JoinedGrows
  <2>4. CASE c1 = c2 \/ ~HasRoom(d1)
    <3>1. Begin(r, d1)
      BY <2>1, <2>4 DEF d1
    <3>. QED
      BY <2>0, <2>3, <3>1 DEF Began, Admitted
  <2>5. CASE ~(c1 = c2 \/ ~HasRoom(d1))
    <3>1. Begin(r, d2)
      BY <2>1, <2>5 DEF d1
    <3>2. d1.cands[c2].state = "none"
      BY <2>2, <2>3, <2>5 DEF Joined
    <3>3. d2 \in Tables /\ Made(d1, d2) /\ Joined(d1, d2, c2)
      BY <2>2, <2>3, <3>2, ImportedMade
    <3>. HIDE DEF d2
    <3>5. Grows(db, d2)
      BY <2>0, <2>5, <3>2, <3>3, JoinedGrows DEF Grows
    <3>4. Made(db, d2)
      BY <2>3, <3>3, MadeTransitive
    <3>. QED
      BY <3>1, <3>3, <3>4, <3>5 DEF Began, Admitted
  <2>. QED
    BY <2>4, <2>5
<1>2. ASSUME NEW c \in Cands, Delete(r, c) \/ Restore(r, c) PROVE Began(r)
  <2>1. PICK state \in {"active", "deleted"} : Exists(c) /\ Begin(r, WithState(db, c, state))
    BY <1>2 DEF Delete, Restore, WithState
  <2>. DEFINE new == WithState(db, c, state)
  <2>2. /\ new \in Tables /\ Made(db, new)
        /\ \A k \in Cands : new.cands[k].state = IF k = c THEN state ELSE db.cands[k].state
    BY <2>1, MovedMade DEF Exists
  <2>. HIDE DEF new
  <2>3. db.cands[c].state \in {"active", "deleted"}
    BY <2>1, TablesOf DEF Exists, Columns
  <2>4. Admitted(db, new)
    BY <2>2, <2>3 DEF Admitted, Active
  <2>. QED
    BY <2>1, <2>2, <2>4 DEF Began, new
<1>3. ASSUME NEW c \in Cands, BulkVerify(r, c) PROVE Began(r)
  <2>1. db.cands[c].state # "none" /\ Begin(r, BulkVerified(db, c))
    BY <1>3 DEF BulkVerify, Exists
  <2>. QED
    BY <2>1, VerifiedMade, SameAdmitted DEF Began
<1>4. ASSUME NEW c \in Cands, NEW form \in Forms, Create(r, c, form) PROVE Began(r)
  <2>1. db.cands[c].state = "none" /\ Begin(r, Created(db, c, form)) /\ form \in Form
    BY <1>4, CandidatesAssumption DEF Create, IsNew
  <2>2. /\ Created(db, c, form) \in Tables /\ Made(db, Created(db, c, form))
        /\ Joined(db, Created(db, c, form), c)
    BY <2>1, CreatedMade
  <2>3. Grows(db, Created(db, c, form))
    BY <1>4, <2>1, <2>2, JoinedGrows DEF Create
  <2>. QED
    BY <2>1, <2>2, <2>3 DEF Began, Admitted
<1>5. ASSUME NEW c \in Cands, NEW form \in Forms, Edit(r, c, form) PROVE Began(r)
  <2>1. /\ db.cands[c].state # "none" /\ form \in Form
        /\ MayMove(db.cands[c].form.training, form.training)
        /\ Begin(r, Sync(With(db, c, db.cands[c].state, form), c))
    BY <1>5, CandidatesAssumption DEF Edit, Exists
  <2>. QED
    BY <2>1, EditedMade, SameAdmitted DEF Began
<1>6. ASSUME NEW c \in Cands, NEW form \in Forms, ReportPlacement(r, c, form) PROVE Began(r)
  <2>1. /\ db.cands[c].state # "none" /\ form \in Form
        /\ Begin(r, Sync(Reported(db, c, form), c))
    BY <1>6, CandidatesAssumption DEF ReportPlacement, Exists, Reported
  <2>. QED
    BY <2>1, ReportedMade, SameAdmitted DEF Began
<1>. QED
  BY <1>1, <1>2, <1>3, <1>4, <1>5, <1>6 DEF CandidateStep

LEMMA EmployerStepBegan ==
  ASSUME db \in Tables, NEW r, EmployerStep(r)
  PROVE  Began(r)
<1>1. db.employers \in Seq(Employers) /\ DOMAIN db.employers = 1 .. Len(db.employers)
  BY TablesOf
<1>2. ASSUME NEW name \in Companies, CreateEmployer(r, name) PROVE Began(r)
  <2>. DEFINE q == Append(db.employers, [name |-> name, active |-> TRUE])
  <2>1. q \in Seq(Employers) /\ Len(db.employers) <= Len(q)
    <3>1. [name |-> name, active |-> TRUE] \in Employers
      BY DEF Employers
    <3>. QED
      BY <1>1, <3>1, TablesOf
  <2>2. Begin(r, [db EXCEPT !.employers = q])
    BY <1>2 DEF CreateEmployer, AddEmployer
  <2>. HIDE DEF q
  <2>. QED
    BY <2>1, <2>2, EmployersMade, SameAdmitted DEF Began
<1>3. ASSUME NEW e \in DOMAIN db.employers, NEW row \in Employers,
             Begin(r, [db EXCEPT !.employers = [db.employers EXCEPT ![e] = row]])
      PROVE  Began(r)
  <2>. DEFINE q == [db.employers EXCEPT ![e] = row]
  <2>1. q \in Seq(Employers) /\ Len(q) = Len(db.employers)
    BY <1>1, ExceptSeq
  <2>2. Len(db.employers) <= Len(q)
    BY <2>1, TablesOf
  <2>. HIDE DEF q
  <2>. QED
    BY <1>3, <2>1, <2>2, EmployersMade, SameAdmitted DEF Began, q
<1>4. \A e \in DOMAIN db.employers : db.employers[e] \in Employers
  BY <1>1, ElementOfSeq
<1>5. ASSUME NEW e, NEW name \in Companies, EditEmployer(r, e, name) PROVE Began(r)
  <2>. DEFINE row == [db.employers[e] EXCEPT !.name = name]
  <2>1. e \in DOMAIN db.employers
    BY <1>5 DEF EditEmployer
  <2>2. row \in Employers
    BY <1>4, <2>1 DEF Employers
  <2>3. Begin(r, [db EXCEPT !.employers = [db.employers EXCEPT ![e] = row]])
    BY <1>5 DEF EditEmployer
  <2>. HIDE DEF row
  <2>. QED
    BY <1>3, <2>1, <2>2, <2>3
<1>6. ASSUME NEW e, DeleteEmployer(r, e) PROVE Began(r)
  <2>. DEFINE row == [db.employers[e] EXCEPT !.active = FALSE]
  <2>1. e \in DOMAIN db.employers
    BY <1>6 DEF DeleteEmployer
  <2>2. row \in Employers
    BY <1>4, <2>1 DEF Employers
  <2>3. Begin(r, [db EXCEPT !.employers = [db.employers EXCEPT ![e] = row]])
    BY <1>6 DEF DeleteEmployer
  <2>. HIDE DEF row
  <2>. QED
    BY <1>3, <2>1, <2>2, <2>3
<1>7. ASSUME NEW i, VerifyPlacement(r, i) PROVE Began(r)
  <2>1. /\ i \in 1 .. Len(db.placements) /\ db.placements[i].working
        /\ Begin(r, Checked(Verified(db, db.placements[i].cand), i))
    BY <1>7, TablesOf DEF VerifyPlacement, Checked
  <2>. QED
    BY <2>1, PlacementVerifiedMade, SameAdmitted DEF Began
<1>. QED
  BY <1>2, <1>5, <1>6, <1>7 DEF EmployerStep

------------------------------------------------------------------------------
(* Commits                                                                  *)

\* The row of a candidate and the placements are the same in both.
SameView(d, e, c) ==
  /\ d.cands[c] = e.cands[c]
  /\ \A i \in 1 .. Len(d.placements) : d.placements[i].cand = c =>
       i \in 1 .. Len(e.placements) /\ e.placements[i] = d.placements[i]
  /\ \A i \in 1 .. Len(e.placements) : e.placements[i].cand = c =>
       i \in 1 .. Len(d.placements) /\ e.placements[i] = d.placements[i]

LEMMA ViewSame ==
  ASSUME NEW d \in Tables, NEW e \in Tables, NEW c \in Cands, View(d, c) = View(e, c)
  PROVE  SameView(d, e, c)
<1>. DEFINE f == [i \in Rows(d, c) |-> d.placements[i]]
            g == [i \in Rows(e, c) |-> e.placements[i]]
<1>1. <<d.cands[c], f>> = <<e.cands[c], g>>
  BY DEF View
<1>. HIDE DEF f, g
<1>2. d.cands[c] = e.cands[c] /\ f = g
  BY <1>1
<1>3. DOMAIN f = Rows(d, c) /\ \A i \in Rows(d, c) : f[i] = d.placements[i]
  BY DEF f
<1>4. DOMAIN g = Rows(e, c) /\ \A i \in Rows(e, c) : g[i] = e.placements[i]
  BY DEF g
<1>5. /\ Rows(d, c) = {i \in 1 .. Len(d.placements) : d.placements[i].cand = c}
      /\ Rows(e, c) = {i \in 1 .. Len(e.placements) : e.placements[i].cand = c}
  BY TablesOf DEF Rows
<1>. QED
  BY <1>2, <1>3, <1>4, <1>5 DEF SameView

LEMMA SameViewConsistent ==
  ASSUME NEW d \in Tables, NEW e \in Tables, NEW c \in Cands, SameView(d, e, c), Consistent(d, c)
  PROVE  Consistent(e, c)
<1>1. ASSUME NEW i PROVE i \in WorkingRows(e, c) <=> i \in WorkingRows(d, c)
  BY WorkingRowsAre DEF SameView
<1>2. WorkingRows(e, c) = WorkingRows(d, c)
  BY <1>1
<1>3. Employed(e, c) <=> Employed(d, c)
  BY DEF SameView, Employed
<1>4. WorkingRows(e, c) \subseteq 1 .. Len(e.placements)
  BY WorkingRowsAre
<1>5. ASSUME NEW i, WorkingRows(e, c) = {i} PROVE i \in 1 .. Len(e.placements)
  BY <1>4, <1>5
<1>. QED
  BY <1>2, <1>3, <1>5 DEF Consistent

\* What a commit of new, made from old, leaves of the tables d
Committed(d, old, new) ==
  [cands |-> [c \in Cands |-> WrittenCand(d.cands[c], old.cands[c], new.cands[c])],
   employers |-> WrittenTable(d.employers, old.employers, new.employers),
   placements |-> WrittenTable(d.placements, old.placements, new.placements)]

LEMMA CommittedIs ==
  ASSUME NEW d \in Tables, NEW old \in Tables, NEW new \in Tables, Made(old, new)
  PROVE  /\ Committed(d, old, new) \in Tables
         /\ TableWritten(d.placements, old.placements, new.placements,
                         Committed(d, old, new).placements)
         /\ \A c \in Cands :
              Committed(d, old, new).cands[c] = WrittenCand(d.cands[c], old.cands[c], new.cands[c])
<1>. DEFINE t  == Committed(d, old, new)
            tc == [c \in Cands |-> WrittenCand(d.cands[c], old.cands[c], new.cands[c])]
            te == WrittenTable(d.employers, old.employers, new.employers)
            tp == WrittenTable(d.placements, old.placements, new.placements)
<1>1. t = [cands |-> tc, employers |-> te, placements |-> tp]
  BY DEF Committed
<1>2. tc \in [Cands -> Columns]
      /\ \A c \in Cands : tc[c] = WrittenCand(d.cands[c], old.cands[c], new.cands[c])
  <2>1. \A c \in Cands : WrittenCand(d.cands[c], old.cands[c], new.cands[c]) \in Columns
    <3>. SUFFICES ASSUME NEW c \in Cands
                  PROVE  WrittenCand(d.cands[c], old.cands[c], new.cands[c]) \in Columns
      OBVIOUS
    <3>1. d.cands[c] \in Columns /\ old.cands[c] \in Columns /\ new.cands[c] \in Columns
      BY TablesOf
    <3>. QED
      BY <3>1, WrittenColumns
  <2>. QED
    BY <2>1
<1>3. te \in Seq(Employers)
  <2>1. \A a, b, e \in Employers : Written(a, b, e) \in Employers
    BY WrittenEmployer
  <2>2. Len(old.employers) <= Len(new.employers)
    BY DEF Made
  <2>3. /\ d.employers \in Seq(Employers) /\ old.employers \in Seq(Employers)
        /\ new.employers \in Seq(Employers)
    BY TablesOf
  <2>. QED
    BY <2>1, <2>2, <2>3, WrittenTableIs
<1>4. tp \in Seq(Placement) /\ TableWritten(d.placements, old.placements, new.placements, tp)
  <2>1. \A a, b, e \in Placement : Written(a, b, e) \in Placement
    BY WrittenPlacement
  <2>2. Len(old.placements) <= Len(new.placements)
    BY DEF Made, Evolved
  <2>3. /\ d.placements \in Seq(Placement) /\ old.placements \in Seq(Placement)
        /\ new.placements \in Seq(Placement)
    BY TablesOf
  <2>. QED
    BY <2>1, <2>2, <2>3, WrittenTableIs
<1>. HIDE DEF t, tc, te, tp
<1>5. t \in Tables
  BY <1>1, <1>2, <1>3, <1>4 DEF Tables, Employers
<1>6. t.cands = tc /\ t.placements = tp
  BY <1>1
<1>. QED
  BY <1>2, <1>4, <1>5, <1>6 DEF t

\* A row that was there is written or left alone, a row that was added has its place
\* after those that are there.
RowsCommitted(d, old, new, t) ==
  /\ Len(old.placements) <= Len(d.placements)
  /\ Len(d.placements) <= Len(t.placements)
  /\ \A i \in 1 .. Len(old.placements) :
       t.placements[i] = Written(d.placements[i], old.placements[i], new.placements[i])
  /\ \A i \in Len(old.placements) + 1 .. Len(d.placements) :
       t.placements[i] = d.placements[i]
  /\ \A i \in Len(d.placements) + 1 .. Len(t.placements) :
       \E k \in Len(old.placements) + 1 .. Len(new.placements) :
         /\ i = Len(d.placements) - Len(old.placements) + k
         /\ t.placements[i] = new.placements[k]
  /\ \A k \in Len(old.placements) + 1 .. Len(new.placements) :
       /\ Len(d.placements) - Len(old.placements) + k
          \in Len(d.placements) + 1 .. Len(t.placements)
       /\ t.placements[Len(d.placements) - Len(old.placements) + k] = new.placements[k]

LEMMA CommittedRows ==
  ASSUME NEW d \in Tables, NEW old \in Tables, NEW new \in Tables,
         Evolved(old, d), Made(old, new)
  PROVE  RowsCommitted(d, old, new, Committed(d, old, new))
<1>. DEFINE D == Len(d.placements)
            O == Len(old.placements)
            N == Len(new.placements)
            t == Committed(d, old, new)
            T == Len(t.placements)
<1>1. D \in Nat /\ O \in Nat /\ N \in Nat /\ O <= N /\ O <= D
  BY TablesOf DEF Made, Evolved
<1>2. /\ T = D + N - O
      /\ \A i \in 1 .. D :
           t.placements[i] = IF i <= O THEN Written(d.placements[i], old.placements[i], new.placements[i])
                             ELSE d.placements[i]
      /\ \A i \in D + 1 .. T : t.placements[i] = new.placements[i - D + O]
  <2>1. TableWritten(d.placements, old.placements, new.placements, t.placements)
    BY CommittedIs
  <2>. HIDE DEF t
  <2>. QED
    BY <2>1 DEF TableWritten
<1>. HIDE DEF D, O, N, T, t
<1>3. \A i \in 1 .. O :
        t.placements[i] = Written(d.placements[i], old.placements[i], new.placements[i])
  BY <1>1, <1>2
<1>4. \A i \in O + 1 .. D : t.placements[i] = d.placements[i]
  BY <1>1, <1>2
<1>5. \A i \in D + 1 .. T : \E k \in O + 1 .. N : i = D - O + k /\ t.placements[i] = new.placements[k]
  <2>. SUFFICES ASSUME NEW i \in D + 1 .. T
                PROVE  \E k \in O + 1 .. N : i = D - O + k /\ t.placements[i] = new.placements[k]
    OBVIOUS
  <2>1. i - D + O \in O + 1 .. N /\ i = D - O + (i - D + O)
    BY <1>1, <1>2
  <2>. QED
    BY <1>2, <2>1
<1>6. \A k \in O + 1 .. N :
        D - O + k \in D + 1 .. T /\ t.placements[D - O + k] = new.placements[k]
  <2>. SUFFICES ASSUME NEW k \in O + 1 .. N
                PROVE  D - O + k \in D + 1 .. T /\ t.placements[D - O + k] = new.placements[k]
    OBVIOUS
  <2>1. D - O + k \in D + 1 .. T /\ (D - O + k) - D + O = k
    BY <1>1, <1>2
  <2>. QED
    BY <1>2, <2>1
<1>7. D <= T
  BY <1>1, <1>2
<1>. QED
  BY <1>1, <1>3, <1>4, <1>5, <1>6, <1>7 DEF D, O, N, T, t, RowsCommitted

LEMMA CommitEvolves ==
  ASSUME NEW d \in Tables, NEW old \in Tables, NEW new \in Tables,
         Evolved(old, d), Made(old, new)
  PROVE  Evolved(d, Committed(d, old, new))
<1>. DEFINE t == Committed(d, old, new)
<1>1. /\ Len(d.placements) \in Nat /\ Len(old.placements) \in Nat
      /\ Len(new.placements) \in Nat /\ Len(old.placements) <= Len(new.placements)
  BY TablesOf DEF Made, Evolved
<1>0. RowsCommitted(d, old, new, t)
  BY CommittedRows
<1>. HIDE DEF t
<1>2. ASSUME NEW i \in 1 .. Len(d.placements)
      PROVE  t.placements[i].cand = d.placements[i].cand
  <2>1. CASE i <= Len(old.placements)
    <3>1. i \in 1 .. Len(old.placements) /\ i \in 1 .. Len(new.placements)
      BY <1>1, <2>1
    <3>2. /\ d.placements[i] \in Placement /\ old.placements[i] \in Placement
          /\ new.placements[i] \in Placement
      BY <3>1, TablesOf
    <3>3. new.placements[i].cand = old.placements[i].cand
      BY <3>1 DEF Made, Evolved
    <3>4. t.placements[i] = Written(d.placements[i], old.placements[i], new.placements[i])
      BY <1>0, <3>1 DEF RowsCommitted
    <3>. QED
      BY <3>2, <3>3, <3>4, WrittenPlacement
  <2>2. CASE ~(i <= Len(old.placements))
    <3>1. i \in Len(old.placements) + 1 .. Len(d.placements)
      BY <1>1, <2>2
    <3>. QED
      BY <1>0, <3>1 DEF RowsCommitted
  <2>. QED
    BY <2>1, <2>2
<1>3. Len(d.placements) <= Len(t.placements)
  BY <1>0 DEF RowsCommitted
<1>4. Evolved(d, t)
  BY <1>2, <1>3 DEF Evolved
<1>. QED
  BY <1>4 DEF t

\* A commit that did not touch a candidate leaves it and its placements alone.
LEMMA CommitUntouched ==
  ASSUME NEW d \in Tables, NEW old \in Tables, NEW new \in Tables, NEW c \in Cands,
         Evolved(old, d), Made(old, new), SameView(old, new, c)
  PROVE  SameView(d, Committed(d, old, new), c)
<1>. DEFINE t == Committed(d, old, new)
<1>1. /\ Len(d.placements) \in Nat /\ Len(old.placements) \in Nat
      /\ Len(new.placements) \in Nat /\ Len(old.placements) <= Len(new.placements)
      /\ Len(old.placements) <= Len(d.placements)
  BY TablesOf DEF Made, Evolved
<1>2. RowsCommitted(d, old, new, t)
  BY CommittedRows
<1>3. Evolved(d, t)
  BY CommitEvolves
<1>4. t.cands[c] = WrittenCand(d.cands[c], old.cands[c], new.cands[c]) /\ t \in Tables
  BY CommittedIs
<1>. HIDE DEF t
<1>5. d.cands[c] = t.cands[c]
  <2>1. d.cands[c] \in Columns /\ old.cands[c] \in Columns /\ new.cands[c] = old.cands[c]
    BY TablesOf DEF SameView
  <2>. QED
    BY <1>4, <2>1, WrittenColumnsKept
<1>6. \A i \in 1 .. Len(d.placements) : i \in 1 .. Len(t.placements)
  <2>1. Len(d.placements) <= Len(t.placements) /\ Len(t.placements) \in Nat
    BY <1>2, <1>4, TablesOf DEF RowsCommitted
  <2>. QED
    BY <1>1, <2>1
<1>7. ASSUME NEW i \in 1 .. Len(d.placements), d.placements[i].cand = c
      PROVE  t.placements[i] = d.placements[i]
  <2>1. CASE i \in 1 .. Len(old.placements)
    <3>1. old.placements[i].cand = c
      BY <1>7, <2>1 DEF Evolved
    <3>2. new.placements[i] = old.placements[i]
      BY <2>1, <3>1 DEF SameView
    <3>3. d.placements[i] \in Placement /\ old.placements[i] \in Placement
      BY <2>1, TablesOf
    <3>4. t.placements[i] = Written(d.placements[i], old.placements[i], new.placements[i])
      BY <1>2, <2>1 DEF RowsCommitted
    <3>. QED
      BY <3>2, <3>3, <3>4, WrittenPlacementKept
  <2>2. CASE i \notin 1 .. Len(old.placements)
    <3>1. i \in Len(old.placements) + 1 .. Len(d.placements)
      BY <1>1, <2>2
    <3>. QED
      BY <1>2, <3>1 DEF RowsCommitted
  <2>. QED
    BY <2>1, <2>2
<1>8. ASSUME NEW i \in 1 .. Len(t.placements), t.placements[i].cand = c
      PROVE  i \in 1 .. Len(d.placements)
  <2>. SUFFICES ASSUME i \notin 1 .. Len(d.placements) PROVE FALSE
    OBVIOUS
  <2>1. i \in Len(d.placements) + 1 .. Len(t.placements)
    BY <1>1, <1>4, TablesOf
  <2>2. PICK k \in Len(old.placements) + 1 .. Len(new.placements) :
          t.placements[i] = new.placements[k]
    BY <1>2, <2>1 DEF RowsCommitted
  <2>3. k \in 1 .. Len(new.placements) /\ k \notin 1 .. Len(old.placements)
    BY <1>1
  <2>4. k \in 1 .. Len(old.placements)
    BY <1>8, <2>2, <2>3 DEF SameView
  <2>. QED
    BY <2>3, <2>4
<1>9. ASSUME NEW i \in 1 .. Len(t.placements), t.placements[i].cand = c
      PROVE  i \in 1 .. Len(d.placements) /\ t.placements[i] = d.placements[i]
  <2>1. i \in 1 .. Len(d.placements)
    BY <1>8, <1>9
  <2>2. d.placements[i].cand = c
    BY <1>3, <1>9, <2>1 DEF Evolved
  <2>. QED
    BY <1>7, <2>1, <2>2
<1>10. SameView(d, t, c)
  BY <1>5, <1>6, <1>7, <1>9 DEF SameView
<1>. QED
  BY <1>10 DEF t

\* A commit that touched a candidate nobody else did leaves it as it wrote it.
LEMMA CommitTouched ==
  ASSUME NEW d \in Tables, NEW old \in Tables, NEW new \in Tables, NEW c \in Cands,
         Evolved(old, d), Made(old, new), SameView(d, old, c)
  PROVE  /\ Committed(d, old, new).cands[c] = new.cands[c]
         /\ \A i \in 1 .. Len(d.placements) : d.placements[i].cand = c =>
              /\ i \in 1 .. Len(old.placements) /\ old.placements[i] = d.placements[i]
              /\ Committed(d, old, new).placements[i] = new.placements[i]
<1>. DEFINE t == Committed(d, old, new)
<1>1. RowsCommitted(d, old, new, t)
  BY CommittedRows
<1>2. t.cands[c] = WrittenCand(d.cands[c], old.cands[c], new.cands[c])
  BY CommittedIs
<1>. HIDE DEF t
<1>3. t.cands[c] = new.cands[c]
  <2>1. d.cands[c] = old.cands[c] /\ old.cands[c] \in Columns /\ new.cands[c] \in Columns
    BY TablesOf DEF SameView
  <2>. QED
    BY <1>2, <2>1, WrittenColumnsKept
<1>4. ASSUME NEW i \in 1 .. Len(d.placements), d.placements[i].cand = c
      PROVE  /\ i \in 1 .. Len(old.placements) /\ old.placements[i] = d.placements[i]
             /\ t.placements[i] = new.placements[i]
  <2>1. i \in 1 .. Len(old.placements) /\ old.placements[i] = d.placements[i]
    BY <1>4 DEF SameView
  <2>2. i \in 1 .. Len(new.placements)
    BY <2>1, TablesOf DEF Made, Evolved
  <2>3. d.placements[i] \in Placement /\ new.placements[i] \in Placement
    BY <2>2, TablesOf
  <2>4. t.placements[i] = Written(d.placements[i], old.placements[i], new.placements[i])
    BY <1>1, <2>1 DEF RowsCommitted
  <2>. QED
    BY <2>1, <2>3, <2>4, WrittenPlacementKept
<1>. QED
  BY <1>3, <1>4 DEF t

\* The placements of a candidate nobody else touched follow after the commit.
LEMMA CommitConsistent ==
  ASSUME NEW d \in Tables, NEW old \in Tables, NEW new \in Tables, NEW c \in Cands,
         Evolved(old, d), Made(old, new), SameView(d, old, c), Consistent(d, c)
  PROVE  Consistent(Committed(d, old, new), c)
<1>. DEFINE t == Committed(d, old, new)
            D == Len(d.placements)
            O == Len(old.placements)
            N == Len(new.placements)
            T == Len(t.placements)
<1>1. D \in Nat /\ O \in Nat /\ N \in Nat /\ T \in Nat /\ O <= N /\ O <= D /\ D <= T /\ t \in Tables
  <2>1. t \in Tables /\ RowsCommitted(d, old, new, t)
    BY CommittedIs, CommittedRows
  <2>. HIDE DEF t
  <2>. QED
    BY <2>1, TablesOf DEF Made, Evolved, RowsCommitted
<1>2. /\ \A i \in D + 1 .. T : \E k \in O + 1 .. N : i = D - O + k /\ t.placements[i] = new.placements[k]
      /\ \A k \in O + 1 .. N : D - O + k \in D + 1 .. T /\ t.placements[D - O + k] = new.placements[k]
  <2>1. RowsCommitted(d, old, new, t)
    BY CommittedRows
  <2>. HIDE DEF t
  <2>. QED
    BY <2>1 DEF RowsCommitted
<1>3. /\ t.cands[c] = new.cands[c]
      /\ \A i \in 1 .. D : d.placements[i].cand = c =>
           i \in 1 .. O /\ t.placements[i] = new.placements[i]
  BY CommitTouched
<1>4. \A i \in 1 .. D : t.placements[i].cand = d.placements[i].cand
  BY CommitEvolves DEF Evolved
<1>5. \A i \in 1 .. O : i \in 1 .. D /\ i \in 1 .. N /\ new.placements[i].cand = d.placements[i].cand
  BY <1>1 DEF Made, Evolved
<1>6. Consistent(new, c)
  <2>1. Consistent(old, c)
    BY SameViewConsistent
  <2>. QED
    BY <2>1 DEF Made
<1>. DEFINE shift(k) == IF k <= O THEN k ELSE D - O + k
<1>. HIDE DEF t, D, O, N, T
<1>7. Employed(t, c) <=> Employed(new, c)
  BY <1>3 DEF Employed
<1>8. ASSUME NEW i \in WorkingRows(t, c)
      PROVE  \E k \in WorkingRows(new, c) : i = shift(k)
  <2>1. i \in 1 .. T /\ t.placements[i].cand = c /\ t.placements[i].working
    BY <1>1, <1>8, WorkingRowsAre DEF T
  <2>2. CASE i \in 1 .. D
    <3>1. i \in 1 .. O /\ t.placements[i] = new.placements[i]
      BY <1>3, <1>4, <2>1, <2>2
    <3>2. i \in WorkingRows(new, c)
      BY <1>5, <2>1, <3>1, WorkingRowsAre DEF N
    <3>3. i = shift(i)
      BY <1>1, <3>1
    <3>. QED
      BY <3>2, <3>3
  <2>3. CASE i \notin 1 .. D
    <3>1. i \in D + 1 .. T
      BY <1>1, <2>1, <2>3
    <3>2. PICK k \in O + 1 .. N : i = D - O + k /\ t.placements[i] = new.placements[k]
      BY <1>2, <3>1
    <3>3. k \in 1 .. N /\ i = shift(k)
      BY <1>1, <3>2
    <3>4. k \in WorkingRows(new, c)
      BY <2>1, <3>2, <3>3, WorkingRowsAre DEF N
    <3>. QED
      BY <3>3, <3>4
  <2>. QED
    BY <2>2, <2>3
<1>9. ASSUME NEW k \in WorkingRows(new, c)
      PROVE  shift(k) \in WorkingRows(t, c) /\ shift(k) \in 1 .. T
  <2>1. k \in 1 .. N /\ new.placements[k].cand = c /\ new.placements[k].working
    BY <1>9, WorkingRowsAre DEF N
  <2>2. CASE k \in 1 .. O
    <3>1. k \in 1 .. D /\ t.placements[k] = new.placements[k]
      BY <1>3, <1>5, <2>1, <2>2
    <3>2. shift(k) = k /\ k \in 1 .. T
      BY <1>1, <2>2, <3>1
    <3>. HIDE DEF shift
    <3>3. k \in WorkingRows(t, c)
      BY <1>1, <2>1, <3>1, <3>2, WorkingRowsAre DEF T
    <3>. QED
      BY <3>2, <3>3
  <2>3. CASE k \notin 1 .. O
    <3>1. k \in O + 1 .. N /\ shift(k) = D - O + k
      BY <1>1, <2>1, <2>3
    <3>. HIDE DEF shift
    <3>2. shift(k) \in D + 1 .. T /\ t.placements[shift(k)] = new.placements[k]
      BY <1>2, <3>1
    <3>3. shift(k) \in 1 .. T
      BY <1>1, <3>2
    <3>4. shift(k) \in WorkingRows(t, c)
      BY <1>1, <2>1, <3>2, <3>3, WorkingRowsAre DEF T
    <3>. QED
      BY <3>3, <3>4
  <2>. QED
    BY <2>2, <2>3
<1>. HIDE DEF shift
<1>10. CASE Employed(new, c)
  <2>1. PICK m : WorkingRows(new, c) = {m}
    BY <1>6, <1>10 DEF Consistent
  <2>2. WorkingRows(t, c) = {shift(m)} /\ shift(m) \in 1 .. T
    BY <1>8, <1>9, <2>1
  <2>3. Consistent(t, c)
    BY <1>7, <1>10, <2>2 DEF Consistent, T
  <2>. QED
    BY <2>3 DEF t
<1>11. CASE ~Employed(new, c)
  <2>1. WorkingRows(new, c) = {}
    BY <1>6, <1>11 DEF Consistent
  <2>2. WorkingRows(t, c) = {}
    BY <1>8, <2>1
  <2>3. Consistent(t, c)
    BY <1>7, <1>11, <2>2 DEF Consistent
  <2>. QED
    BY <2>3 DEF t
<1>. QED
  BY <1>10, <1>11

\* Candidates are added by who has read that there is room, or counted.
LEMMA CommitLimit ==
  ASSUME NEW d, NEW old, NEW new, NEW x \in Nat, Admitted(old, new),
         Limit = 0 \/ Cardinality(Active(d)) <= Limit + x
  PROVE  LET added == Cardinality(Active(new) \ Active(old)) IN
         \/ Limit = 0
         \/ Cardinality(Active(Committed(d, old, new))) <= Limit +
              IF \/ \E c \in Cands : old.cands[c].state = "deleted" /\ new.cands[c].state = "active"
                 \/ Cardinality(Active(d)) > Cardinality(Active(old))
              THEN x + added ELSE x
<1>. DEFINE t == Committed(d, old, new)
            plus == Active(new) \ Active(old)
            restored == \E c \in Cands : old.cands[c].state = "deleted" /\ new.cands[c].state = "active"
<1>1. /\ IsFiniteSet(Active(d)) /\ IsFiniteSet(Active(t)) /\ IsFiniteSet(Active(old))
      /\ IsFiniteSet(Active(new)) /\ IsFiniteSet(plus)
      /\ Cardinality(Active(d)) \in Nat /\ Cardinality(Active(t)) \in Nat
      /\ Cardinality(Active(old)) \in Nat /\ Cardinality(Active(new)) \in Nat
      /\ Cardinality(plus) \in Nat /\ Limit \in Nat
  <2>1. IsFiniteSet(plus)
    BY ActiveFinite, FS_Difference
  <2>. QED
    BY <2>1, ActiveFinite, FS_CardinalityType, CandidatesAssumption
<1>2. Active(t) \subseteq Active(d) \cup plus
  BY DEF Committed, WrittenCand, Active
<1>. HIDE DEF t
<1>3. Cardinality(Active(t)) <= Cardinality(Active(d)) + Cardinality(plus)
  <2>1. /\ IsFiniteSet(Active(d) \cup plus)
        /\ Cardinality(Active(d) \cup plus)
           = Cardinality(Active(d)) + Cardinality(plus) - Cardinality(Active(d) \cap plus)
    BY <1>1, FS_Union
  <2>2. Cardinality(Active(d) \cap plus) \in Nat
    <3>1. IsFiniteSet(Active(d) \cap plus)
      BY <1>1, FS_Subset
    <3>. QED
      BY <3>1, FS_CardinalityType
  <2>3. Cardinality(Active(t)) <= Cardinality(Active(d) \cup plus)
    BY <1>2, <2>1, FS_Subset
  <2>. HIDE DEF plus
  <2>. QED
    BY <1>1, <2>1, <2>2, <2>3
<1>4. CASE restored \/ Cardinality(Active(d)) > Cardinality(Active(old))
  <2>. HIDE DEF plus
  <2>1. Limit = 0 \/ Cardinality(Active(t)) <= Limit + (x + Cardinality(plus))
    BY <1>1, <1>3
  <2>. QED
    BY <1>4, <2>1 DEF plus, t
<1>5. CASE ~(restored \/ Cardinality(Active(d)) > Cardinality(Active(old)))
  <2>1. CASE Active(new) \subseteq Active(old)
    <3>1. Active(t) \subseteq Active(d)
      BY <1>2, <2>1
    <3>2. Cardinality(Active(t)) <= Cardinality(Active(d))
      BY <1>1, <3>1, FS_Subset
    <3>3. Limit = 0 \/ Cardinality(Active(t)) <= Limit + x
      BY <1>1, <3>2
    <3>. QED
      BY <1>5, <3>3 DEF t
  <2>2. CASE Grows(old, new)
    <3>1. Active(old) \subseteq Active(new) /\ (Limit = 0 \/ Cardinality(Active(new)) <= Limit)
      BY <2>2 DEF Grows
    <3>2. Cardinality(plus) = Cardinality(Active(new)) - Cardinality(Active(old))
      <4>1. Active(new) \cap Active(old) = Active(old)
        BY <3>1
      <4>. QED
        BY <1>1, <4>1, FS_Difference
    <3>. HIDE DEF plus
    <3>3. Limit = 0 \/ Cardinality(Active(t)) <= Limit + x
      BY <1>1, <1>3, <1>5, <3>1, <3>2
    <3>. QED
      BY <1>5, <3>3 DEF t
  <2>. QED
    BY <1>5, <2>1, <2>2 DEF Admitted
<1>. QED
  BY <1>4, <1>5

------------------------------------------------------------------------------
(* The invariant                                                            *)

\* Over the types: placements follow, the limit is kept, and a unit of work was made
\* from tables that the present ones evolved from.
IInv ==
  /\ TypeOK
  /\ \A c \in Cands \ raced : Consistent(db, c)
  /\ LimitKept
  /\ \A r \in Requests : work[r] # NoWork =>
       /\ Evolved(work[r].old, db)
       /\ Made(work[r].old, work[r].new) /\ Admitted(work[r].old, work[r].new)

LEMMA InitInv == Init => IInv
<1>. SUFFICES ASSUME Init PROVE IInv
  OBVIOUS
<1>1. Nobody \in Tables
  <2>1. [state |-> "none", form |-> CHOOSE form \in Forms : TRUE] \in Columns
    BY CandidatesAssumption DEF Columns
  <2>2. <<>> \in Seq(Employers) /\ <<>> \in Seq(Placement)
    BY EmptySeq
  <2>. QED
    BY <2>1, <2>2 DEF Nobody, Tables, Employers
<1>2. \A c \in Cands : Nobody.cands[c].state = "none"
  BY DEF Nobody
<1>3. \A c \in Cands : Consistent(Nobody, c)
  <2>1. Nobody.placements = <<>> /\ DOMAIN Nobody.placements = {}
    BY DEF Nobody
  <2>2. \A c : WorkingRows(Nobody, c) = {}
    BY <2>1 DEF WorkingRows
  <2>. QED
    BY <1>2, <2>2 DEF Consistent, Employed
<1>4. db \in Tables /\ \A c \in Cands : Consistent(db, c)
  <2>1. CASE db = Nobody
    BY <1>1, <1>3, <2>1
  <2>2. ASSUME NEW c \in Cands, NEW form \in Forms, db = Created(Nobody, c, form)
        PROVE  db \in Tables /\ \A k \in Cands : Consistent(db, k)
    <3>1. form \in Form
      BY CandidatesAssumption
    <3>2. db \in Tables /\ Made(Nobody, db)
      BY <1>1, <1>2, <2>2, <3>1, CreatedMade
    <3>. QED
      BY <1>3, <3>2 DEF Made
  <2>. QED
    BY <2>1, <2>2 DEF Init
<1>5. TypeOK
  BY <1>4 DEF Init, TypeOK
<1>6. \A r \in Requests : work[r] = NoWork
  BY DEF Init
<1>7. LimitKept
  <2>1. Active(Nobody) = {}
    BY <1>2 DEF Active
  <2>2. Cardinality(Active(Nobody)) = 0
    BY <2>1, FS_EmptySet
  <2>3. Limit \in Nat /\ excess = 0
    BY CandidatesAssumption DEF Init
  <2>4. CASE db = Nobody
    BY <2>2, <2>3, <2>4 DEF LimitKept
  <2>5. ASSUME NEW c \in Cands, NEW form \in Forms, db = Created(Nobody, c, form)
        PROVE  LimitKept
    <3>1. Joined(Nobody, db, c) /\ Nobody.cands[c].state = "none"
      BY <1>1, <1>2, <2>5, CreatedMade, CandidatesAssumption
    <3>2. HasRoom(Nobody)
      BY <2>2, <2>3 DEF HasRoom
    <3>3. Grows(Nobody, db)
      BY <3>1, <3>2, JoinedGrows
    <3>4. Cardinality(Active(db)) \in Nat
      BY ActiveFinite
    <3>. QED
      BY <2>3, <3>3, <3>4 DEF Grows, LimitKept
  <2>. QED
    BY <2>4, <2>5 DEF Init
<1>. QED
  BY <1>4, <1>5, <1>6, <1>7 DEF IInv

LEMMA UnitOfWork ==
  ASSUME TypeOK, NEW r \in Requests, work[r] # NoWork
  PROVE  work[r].old \in Tables /\ work[r].new \in Tables
BY DEF TypeOK

LEMMA BeganInv ==
  ASSUME IInv, NEW r \in Requests, Began(r)
  PROVE  IInv' /\ db' = db
<1>1. PICK new \in Tables : Made(db, new) /\ Admitted(db, new) /\ Begin(r, new)
  BY DEF Began
<1>. DEFINE w == [old |-> db, new |-> new]
<1>2. /\ db \in Tables /\ work \in [Requests -> [old : Tables, new : Tables] \cup {NoWork}]
      /\ saves \in Nat /\ raced \subseteq Cands /\ excess \in Nat
  BY DEF IInv, TypeOK
<1>3. /\ work' = [work EXCEPT ![r] = w]
      /\ db' = db /\ saves' = saves /\ raced' = raced /\ excess' = excess
  BY <1>1 DEF Begin
<1>4. w \in [old : Tables, new : Tables] /\ w.old = db /\ w.new = new
  BY <1>2
<1>. HIDE DEF w
<1>5. TypeOK'
  BY <1>2, <1>3, <1>4 DEF TypeOK
<1>6. Evolved(db, db)
  BY <1>2, TablesOf DEF Evolved
<1>7. ASSUME NEW q \in Requests, work'[q] # NoWork
      PROVE  /\ Evolved(work'[q].old, db)
             /\ Made(work'[q].old, work'[q].new) /\ Admitted(work'[q].old, work'[q].new)
  <2>1. CASE q = r
    <3>1. work'[q] = w
      BY <1>2, <1>3, <2>1
    <3>. QED
      BY <1>1, <1>4, <1>6, <3>1
  <2>2. CASE q # r
    <3>1. work'[q] = work[q]
      BY <1>2, <1>3, <2>2
    <3>. QED
      BY <1>7, <3>1 DEF IInv
  <2>. QED
    BY <2>1, <2>2
<1>8. \A c \in Cands \ raced' : Consistent(db', c)
  BY <1>3 DEF IInv
<1>9. LimitKept'
  BY <1>3 DEF IInv, LimitKept
<1>. QED
  BY <1>3, <1>5, <1>7, <1>8, <1>9 DEF IInv

\* What a commit does to the candidates that were not raced for.
LEMMA CommitKeeps ==
  ASSUME IInv, NEW r \in Requests, Commit(r), NEW c \in Cands \ raced'
  PROVE  LET old == work[r].old
             new == work[r].new
         IN  /\ old \in Tables /\ new \in Tables /\ db \in Tables
             /\ Evolved(old, db) /\ Made(old, new) /\ db' = Committed(db, old, new)
             /\ c \notin raced
             /\ SameView(old, new, c) \/ SameView(db, old, c)
<1>. DEFINE old == work[r].old
            new == work[r].new
<1>1. work[r] # NoWork
  BY DEF Commit
<1>2. db \in Tables /\ old \in Tables /\ new \in Tables
  BY <1>1, UnitOfWork DEF IInv, TypeOK
<1>3. Evolved(old, db) /\ Made(old, new)
  BY <1>1 DEF IInv
<1>4. db' = Committed(db, old, new)
  BY DEF Commit, Committed
<1>5. raced' = raced \cup {k \in Touched(work[r]) : View(db, k) # View(work[r].old, k)}
  BY DEF Commit
<1>6. c \notin raced /\ (c \in Touched(work[r]) => View(db, c) = View(old, c))
  BY <1>5
<1>7. c \in Touched(work[r]) \/ View(old, c) = View(new, c)
  BY DEF Touched
<1>. HIDE DEF old, new
<1>8. SameView(old, new, c) \/ SameView(db, old, c)
  BY <1>2, <1>6, <1>7, ViewSame
<1>. QED
  BY <1>2, <1>3, <1>4, <1>6, <1>8 DEF old, new

LEMMA CommitInv ==
  ASSUME IInv, NEW r \in Requests, Commit(r)
  PROVE  IInv'
<1>. DEFINE old == work[r].old
            new == work[r].new
<1>1. /\ db \in Tables /\ work \in [Requests -> [old : Tables, new : Tables] \cup {NoWork}]
      /\ saves \in Nat /\ raced \subseteq Cands /\ excess \in Nat
  BY DEF IInv, TypeOK
<1>2. work[r] # NoWork
  BY DEF Commit
<1>3. old \in Tables /\ new \in Tables
  BY <1>2, UnitOfWork DEF IInv
<1>4. Evolved(old, db) /\ Made(old, new)
  BY <1>2 DEF IInv
<1>5. db' = Committed(db, old, new)
  BY DEF Commit, Committed
<1>. HIDE DEF old, new
<1>6. db' \in Tables /\ Evolved(db, db')
  BY <1>1, <1>3, <1>4, <1>5, CommittedIs, CommitEvolves
<1>7. TypeOK'
  <2>1. saves' = saves + 1 /\ work' = [work EXCEPT ![r] = NoWork]
    BY DEF Commit
  <2>2. raced' \subseteq Cands
    BY <1>1 DEF Commit, Touched
  <2>3. excess' \in Nat
    <3>1. IsFiniteSet(Active(work[r].new) \ Active(work[r].old))
      BY CandidatesAssumption, FS_Subset DEF Active
    <3>2. Cardinality(Active(work[r].new) \ Active(work[r].old)) \in Nat
      BY <3>1, FS_CardinalityType
    <3>. DEFINE added == Cardinality(Active(work[r].new) \ Active(work[r].old))
    <3>3. excess' \in {excess, excess + added}
      BY DEF Commit
    <3>. HIDE DEF added
    <3>4. added \in Nat
      BY <3>2 DEF added
    <3>. QED
      BY <1>1, <3>3, <3>4
  <2>. QED
    BY <1>1, <1>6, <2>1, <2>2, <2>3 DEF TypeOK
<1>8. ASSUME NEW c \in Cands \ raced' PROVE Consistent(db', c)
  <2>1. c \notin raced /\ (SameView(old, new, c) \/ SameView(db, old, c))
    BY CommitKeeps DEF old, new
  <2>2. Consistent(db, c)
    BY <2>1 DEF IInv
  <2>3. CASE SameView(old, new, c)
    <3>1. SameView(db, db', c)
      BY <1>1, <1>3, <1>4, <1>5, <2>3, CommitUntouched
    <3>. QED
      BY <1>1, <1>6, <2>2, <3>1, SameViewConsistent
  <2>4. CASE SameView(db, old, c)
    BY <1>1, <1>3, <1>4, <1>5, <2>2, <2>4, CommitConsistent
  <2>. QED
    BY <2>1, <2>3, <2>4
<1>9. ASSUME NEW q \in Requests, work'[q] # NoWork
      PROVE  /\ Evolved(work'[q].old, db')
             /\ Made(work'[q].old, work'[q].new) /\ Admitted(work'[q].old, work'[q].new)
  <2>1. work'[q] = work[q]
    BY <1>1, <1>9 DEF Commit
  <2>2. /\ Evolved(work[q].old, db)
        /\ Made(work[q].old, work[q].new) /\ Admitted(work[q].old, work[q].new)
    BY <1>9, <2>1 DEF IInv
  <2>3. work[q].old \in Tables
    BY <1>9, <2>1, UnitOfWork DEF IInv
  <2>. QED
    BY <1>1, <1>6, <2>1, <2>2, <2>3, EvolvedTransitive
<1>10. LimitKept'
  <2>. DEFINE n == IF \/ \E c \in Cands : old.cands[c].state = "deleted" /\ new.cands[c].state = "active"
                      \/ Cardinality(Active(db)) > Cardinality(Active(old))
                   THEN excess + Cardinality(Active(new) \ Active(old)) ELSE excess
  <2>1. Admitted(old, new)
    BY <1>2 DEF IInv, old, new
  <2>2. Limit = 0 \/ Cardinality(Active(db)) <= Limit + excess
    BY DEF IInv, LimitKept
  <2>3. Limit = 0 \/ Cardinality(Active(Committed(db, old, new))) <= Limit + n
    BY <1>1, <2>1, <2>2, CommitLimit
  <2>4. excess' = n
    BY DEF Commit, old, new
  <2>. HIDE DEF n
  <2>5. Limit = 0 \/ Cardinality(Active(db')) <= Limit + excess'
    BY <1>5, <2>3, <2>4
  <2>. QED
    BY <2>5 DEF LimitKept, Active
<1>. QED
  BY <1>7, <1>8, <1>9, <1>10 DEF IInv

LEMMA FailInv ==
  ASSUME IInv, NEW r \in Requests, CommitFails(r)
  PROVE  IInv' /\ db' = db
<1>1. /\ work' = [work EXCEPT ![r] = NoWork]
      /\ db' = db /\ saves' = saves /\ raced' = raced /\ excess' = excess
  BY DEF CommitFails
<1>2. work \in [Requests -> [old : Tables, new : Tables] \cup {NoWork}]
  BY DEF IInv, TypeOK
<1>3. TypeOK'
  BY <1>1, <1>2 DEF IInv, TypeOK
<1>4. \A q \in Requests : work'[q] # NoWork => work'[q] = work[q]
  BY <1>1, <1>2
<1>5. LimitKept'
  BY <1>1 DEF IInv, LimitKept
<1>. QED
  BY <1>1, <1>3, <1>4, <1>5 DEF IInv

\* A step either leaves the tables alone or commits a unit of work.
LEMMA StepCases ==
  ASSUME IInv, [Next]_vars
  PROVE  IInv' /\ (db' = db \/ \E r \in Requests : Commit(r))
<1>1. CASE UNCHANGED vars
  BY <1>1 DEF vars, IInv, TypeOK, LimitKept
<1>2. ASSUME NEW r \in Requests, Commit(r)
      PROVE  IInv'
  BY <1>2, CommitInv
<1>3. ASSUME NEW r \in Requests, CommitFails(r)
      PROVE  IInv' /\ db' = db
  BY <1>3, FailInv
<1>4. ASSUME NEW r \in Requests, CandidateStep(r) \/ EmployerStep(r)
      PROVE  IInv' /\ db' = db
  <2>1. Began(r)
    BY <1>4, CandidateStepBegan, EmployerStepBegan DEF IInv, TypeOK
  <2>. QED
    BY <2>1, BeganInv
<1>. QED
  BY <1>1, <1>2, <1>3, <1>4 DEF Next

LEMMA Invariance == Spec => []IInv
<1>1. IInv /\ [Next]_vars => IInv'
  BY StepCases
<1>. QED
  BY InitInv, <1>1, PTL DEF Spec

------------------------------------------------------------------------------
(* Theorems                                                                 *)

\* The tables, the units of work and the history variables keep their types, however
\* many candidates, employers and requests there are.
THEOREM CandidatesTypes == Spec => []TypeOK
<1>1. IInv => TypeOK
  BY DEF IInv
<1>. QED
  BY Invariance, <1>1, PTL

\* Placements follow their candidates: whoever works for somebody has exactly one
\* WORKING placement, anybody else none, unless two saves of the candidate overlapped.
THEOREM PlacementsFollow == Spec => []PlacementFollows
<1>1. ASSUME IInv PROVE PlacementFollows
  <2>1. ASSUME NEW c \in Cands \ raced
        PROVE  Cardinality(WorkingRows(db, c)) = IF Employed(db, c) THEN 1 ELSE 0
    <3>1. Consistent(db, c)
      BY <1>1 DEF IInv
    <3>2. CASE Employed(db, c)
      <4>1. PICK i : WorkingRows(db, c) = {i}
        BY <3>1, <3>2 DEF Consistent
      <4>. QED
        BY <3>2, <4>1, FS_Singleton
    <3>3. CASE ~Employed(db, c)
      <4>1. WorkingRows(db, c) = {}
        BY <3>1, <3>3 DEF Consistent
      <4>. QED
        BY <3>3, <4>1, FS_EmptySet
    <3>. QED
      BY <3>2, <3>3
  <2>. QED
    BY <2>1 DEF PlacementFollows
<1>. QED
  BY Invariance, <1>1, PTL

\* The plan's candidate limit is passed only by restored candidates and by creations
\* and imports that overlap, whatever the limit and the number of requests.
THEOREM LimitIsKept == Spec => []LimitKept
<1>1. IInv => LimitKept
  BY DEF IInv
<1>. QED
  BY Invariance, <1>1, PTL

\* No form, import or report of a candidate changes a placement that was left, and
\* neither does the commit of anybody else's, unless two saves overlapped.
THEOREM PlacementsKept == Spec => HistoryKept
<1>1. ASSUME IInv, [Next]_vars
      PROVE  \A i \in DOMAIN db.placements :
               ~db.placements[i].working /\ db.placements[i].cand \notin raced'
               => db'.placements[i] = db.placements[i]
  <2>. SUFFICES ASSUME NEW i \in DOMAIN db.placements, ~db.placements[i].working,
                       db.placements[i].cand \notin raced',
                       NEW r \in Requests, Commit(r)
                PROVE  db'.placements[i] = db.placements[i]
    BY <1>1, StepCases
  <2>. DEFINE old == work[r].old
              new == work[r].new
              c   == db.placements[i].cand
  <2>1. i \in 1 .. Len(db.placements) /\ c \in Cands
    BY <1>1, TablesOf DEF IInv, TypeOK, Placement
  <2>. HIDE DEF c
  <2>2. c \in Cands \ raced'
    BY <2>1 DEF c
  <2>3. /\ old \in Tables /\ new \in Tables /\ db \in Tables
        /\ Evolved(old, db) /\ Made(old, new) /\ db' = Committed(db, old, new)
        /\ SameView(old, new, c) \/ SameView(db, old, c)
    BY <1>1, <2>2, CommitKeeps
  <2>. HIDE DEF old, new
  <2>4. CASE SameView(old, new, c)
    <3>1. SameView(db, db', c)
      BY <2>2, <2>3, <2>4, CommitUntouched
    <3>. QED
      BY <2>1, <3>1 DEF SameView, c
  <2>5. CASE SameView(db, old, c)
    <3>1. /\ i \in 1 .. Len(old.placements) /\ old.placements[i] = db.placements[i]
          /\ db'.placements[i] = new.placements[i]
      BY <2>1, <2>2, <2>3, <2>5, CommitTouched DEF c
    <3>2. new.placements[i] = old.placements[i]
      BY <2>3, <3>1 DEF Made
    <3>. QED
      BY <3>1, <3>2
  <2>. QED
    BY <2>3, <2>4, <2>5
<1>. QED
  BY Invariance, <1>1, PTL DEF Spec, HistoryKept

\* A candidate who dropped out does not come back into training, whatever the forms
\* say, unless two saves of the candidate overlapped.
THEOREM DroppedOutStays == Spec => DroppedOutIsFinal
<1>1. ASSUME IInv, [Next]_vars
      PROVE  \A c \in Cands \ raced' :
               db.cands[c].state # "none" /\ db.cands[c].form.training = "dropped_out"
               => db'.cands[c].form.training = "dropped_out"
  <2>. SUFFICES ASSUME NEW c \in Cands \ raced', db.cands[c].state # "none",
                       db.cands[c].form.training = "dropped_out",
                       NEW r \in Requests, Commit(r)
                PROVE  db'.cands[c].form.training = "dropped_out"
    BY <1>1, StepCases
  <2>. DEFINE old == work[r].old
              new == work[r].new
  <2>1. /\ old \in Tables /\ new \in Tables /\ db \in Tables
        /\ Evolved(old, db) /\ Made(old, new) /\ db' = Committed(db, old, new)
        /\ SameView(old, new, c) \/ SameView(db, old, c)
    BY <1>1, CommitKeeps
  <2>. HIDE DEF old, new
  <2>2. CASE SameView(old, new, c)
    <3>1. SameView(db, db', c)
      BY <2>1, <2>2, CommitUntouched
    <3>. QED
      BY <3>1 DEF SameView
  <2>3. CASE SameView(db, old, c)
    <3>1. db'.cands[c] = new.cands[c] /\ db.cands[c] = old.cands[c]
      BY <2>1, <2>3, CommitTouched DEF SameView
    <3>. QED
      BY <2>1, <3>1 DEF Made
  <2>. QED
    BY <2>1, <2>2, <2>3
<1>. QED
  BY Invariance, <1>1, PTL DEF Spec, DroppedOutIsFinal
==============================================================================
