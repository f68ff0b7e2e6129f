------------------------- MODULE BillingSafetyProofs -------------------------
(* No double billing, payments that grant their credits once, deletions that *)
(* last: the safety properties of Billing and its refinement of              *)
(* InvoiceRegister, for any number of organizations, schedulers and requests.*)
EXTENDS BillingProofs

Safe == UnitsOfWorkConsistent /\ OneOpenJobInvoice /\ OnePendingPurchase

\* The properties are not inductive alone: a commit keeps them because of what
\* the committing unit of work, prepared many steps ago, still guarantees.
IInv == TypeOK /\ Safe

------------------------------------------------------------------------------
(* Invoices evolve                                                          *)

LEMMA EvolvedTransitive ==
  ASSUME NEW i \in Invoice, NEW j \in Invoice, NEW k \in Invoice,
         Evolved(i, j), Evolved(j, k)
  PROVE  Evolved(i, k)
BY DEF Evolved, Invoice

LEMMA LaterReflexive == ASSUME NEW s \in Seq(Invoice) PROVE Later(s, s)
<1>1. ASSUME NEW n \in 1 .. Len(s) PROVE Evolved(s[n], s[n])
  <2>1. s[n] \in Invoice
    BY ElementOfSeq
  <2>. QED
    BY <2>1 DEF Evolved, Invoice
<1>. QED
  BY <1>1 DEF Later

LEMMA LaterTransitive ==
  ASSUME NEW a \in Seq(Invoice), NEW b \in Seq(Invoice), NEW c \in Seq(Invoice),
         Later(a, b), Later(b, c)
  PROVE  Later(a, c)
<1>1. Len(a) <= Len(b) /\ Len(b) <= Len(c) /\ Len(a) \in Nat /\ Len(b) \in Nat /\ Len(c) \in Nat
  BY DEF Later
<1>2. ASSUME NEW n \in 1 .. Len(a) PROVE Evolved(a[n], c[n])
  <2>1. n \in 1 .. Len(b) /\ n \in 1 .. Len(c)
    BY <1>1
  <2>2. a[n] \in Invoice /\ b[n] \in Invoice /\ c[n] \in Invoice
    BY <2>1, ElementOfSeq
  <2>3. Evolved(a[n], b[n]) /\ Evolved(b[n], c[n])
    BY <2>1 DEF Later
  <2>. QED
    BY <2>2, <2>3, EvolvedTransitive
<1>. QED
  BY <1>1, <1>2 DEF Later

\* A flush changes the status of a row at most, and a row that is PENDING
\* afterwards was PENDING in the table, in the snapshot and in the new values.
LEMMA FlushEvolves ==
  ASSUME NEW cur \in Invoice, NEW old \in Invoice, NEW new \in Invoice,
         Evolved(old, cur), Evolved(old, new)
  PROVE  /\ Evolved(cur, Flush(cur, old, new))
         /\ Flush(cur, old, new).status = "PENDING" =>
              cur.status = "PENDING" /\ old.status = "PENDING" /\ new.status = "PENDING"
BY DEF Evolved, Flush, Invoice

------------------------------------------------------------------------------
(* Steps that leave the invoices table alone                                *)

LEMMA QuietStep ==
  ASSUME IInv, NEW p \in Procs, NEW t, NEW label,
         Consistent(t), label = "commit" => t.open, UNCHANGED invoices,
         tx' = [tx EXCEPT ![p] = t], pc' = [pc EXCEPT ![p] = label]
  PROVE  Safe'
<1>1. OneOpenJobInvoice' /\ OnePendingPurchase'
  <2>1. OneOpenJobInvoice /\ OnePendingPurchase /\ invoices' = invoices
    BY DEF IInv, Safe
  <2>2. OneOpenJobInvoice'
    BY <2>1, Zenon DEF OneOpenJobInvoice
  <2>3. OnePendingPurchase'
    BY <2>1, Zenon DEF OnePendingPurchase
  <2>. QED
    BY <2>2, <2>3
<1>2. ASSUME NEW q \in Procs
      PROVE  Consistent(tx[q])' /\ (pc'[q] = "commit" => tx'[q].open)
  <2>1. CASE q = p
    <3>1. tx'[q] = t /\ pc'[q] = label
      BY <2>1 DEF IInv, TypeOK
    <3>. QED
      BY <3>1 DEF Consistent
  <2>2. CASE q # p
    <3>1. tx'[q] = tx[q] /\ pc'[q] = pc[q]
      BY <2>2 DEF IInv, TypeOK
    <3>. QED
      BY <3>1 DEF Consistent, IInv, Safe, UnitsOfWorkConsistent
  <2>. QED
    BY <2>1, <2>2
<1>. QED
  BY <1>1, <1>2 DEF Safe, UnitsOfWorkConsistent

LEMMA StillStep ==
  ASSUME IInv, UNCHANGED <<invoices, tx, pc>>
  PROVE  Safe'
<1>1. Safe /\ invoices' = invoices /\ tx' = tx /\ pc' = pc
  BY DEF IInv
<1>2. UnitsOfWorkConsistent'
  BY <1>1, Zenon DEF Safe, UnitsOfWorkConsistent, Consistent
<1>3. OneOpenJobInvoice' /\ OnePendingPurchase'
  BY <1>1, Zenon DEF Safe, OneOpenJobInvoice, OnePendingPurchase
<1>. QED
  BY <1>2, <1>3 DEF Safe

LEMMA IdleStep ==
  ASSUME IInv, NEW p \in Procs, NEW step \in Steps, GoTo(p, step),
         tx' = [tx EXCEPT ![p] = NoTx] \/ UNCHANGED tx, UNCHANGED invoices
  PROVE  Safe'
<1>1. step # "commit"
  BY DEF Steps
<1>2. Consistent(NoTx) /\ Consistent(tx[p])
  BY DEF Consistent, NoTx, IInv, Safe, UnitsOfWorkConsistent
<1>3. tx \in [Procs -> Tx]
  BY DEF IInv, TypeOK
<1>4. tx' = [tx EXCEPT ![p] = NoTx] \/ tx' = [tx EXCEPT ![p] = tx[p]]
  BY <1>3
<1>. QED
  BY <1>1, <1>2, <1>4, QuietStep DEF GoTo

LEMMA HoldStep ==
  ASSUME IInv, NEW p \in Procs, NEW s \in Snapshot, NEW step \in Steps,
         Later(s.invs, invoices), Hold(p, s), GoTo(p, step), UNCHANGED invoices
  PROVE  Safe'
<1>. DEFINE t == [NoTx EXCEPT !.open = TRUE, !.old = s, !.new = s]
<1>1. t.open /\ t.old = s /\ t.new = s /\ t.insert = <<>>
  BY DEF NoTx
<1>2. s.invs \in Seq(Invoice)
  BY DEF Snapshot
<1>3. tx' = [tx EXCEPT ![p] = t] /\ pc' = [pc EXCEPT ![p] = step]
  BY DEF Hold, GoTo
<1>. HIDE DEF t
<1>4. Consistent(t)
  BY <1>1, <1>2, LaterReflexive DEF Consistent
<1>. QED
  BY <1>1, <1>3, <1>4, QuietStep

\* A unit of work that inserts nothing, or an invoice without a pending rival.
LEMMA BeginStep ==
  ASSUME IInv, NEW p \in Procs, NEW s, NEW new, NEW insert, NEW next, NEW fail, NEW num,
         Begin(p, s, new, insert, next, fail, num), UNCHANGED invoices,
         Later(s.invs, invoices), Later(s.invs, new.invs),
         insert # <<>> =>
           /\ Len(insert) = 1 /\ insert[1].status = "PENDING"
           /\ insert[1].kind = "job" /\ IsMidnight(insert[1].end) =>
                Unrivalled(insert[1], s.invs, Kinds)
           /\ insert[1].kind \in SelfServe => Unrivalled(insert[1], new.invs, SelfServe)
  PROVE  Safe'
<1>. DEFINE t == [open |-> TRUE, old |-> s, new |-> new, insert |-> insert,
                  next |-> next, fail |-> fail, num |-> num]
<1>1. t.open /\ t.old = s /\ t.new = new /\ t.insert = insert
  OBVIOUS
<1>2. tx' = [tx EXCEPT ![p] = t] /\ pc' = [pc EXCEPT ![p] = "commit"]
  BY DEF Begin, GoTo
<1>. HIDE DEF t
<1>3. Consistent(t)
  BY <1>1 DEF Consistent
<1>. QED
  BY <1>1, <1>2, <1>3, QuietStep

\* What a process reads has only evolved since.
LEMMA ViewLater ==
  ASSUME IInv, NEW p \in Procs
  PROVE  /\ View(p) \in Snapshot /\ View(p).invs \in Seq(Invoice)
         /\ Later(View(p).invs, invoices) /\ Later(View(p).invs, View(p).invs)
         /\ Db \in Snapshot /\ Db.invs = invoices /\ Later(invoices, invoices)
<1>1. Db \in Snapshot /\ Db.invs = invoices /\ invoices \in Seq(Invoice)
  BY DbType DEF IInv, TypeOK, Db
<1>2. View(p) \in Snapshot /\ View(p).invs \in Seq(Invoice)
  BY ViewType DEF IInv, Snapshot
<1>3. CASE tx[p].open
  BY <1>1, <1>2, <1>3, LaterReflexive DEF IInv, Safe, UnitsOfWorkConsistent, Consistent, View
<1>4. CASE ~tx[p].open
  BY <1>1, <1>2, <1>4, LaterReflexive DEF View
<1>. QED
  BY <1>1, <1>2, <1>3, <1>4

------------------------------------------------------------------------------
(* The commit                                                               *)

\* What a commit makes of the rows that were in the table.
LEMMA FlushedTable ==
  ASSUME IInv, NEW p \in Procs, Commit(p)
  PROVE  LET t == tx[p]  f == FlushInvoices(t) IN
         /\ invoices' = f \o t.insert
         /\ t.insert \in Seq(Invoice) /\ f \in Seq(Invoice) /\ Len(f) = Len(invoices)
         /\ Later(invoices, f)
         /\ \A n \in 1 .. Len(t.old.invs) :
              /\ f[n].status = "PENDING" =>
                   t.old.invs[n].status = "PENDING" /\ t.new.invs[n].status = "PENDING"
              /\ Evolved(t.old.invs[n], f[n]) /\ Evolved(t.old.invs[n], t.new.invs[n])
         /\ t.insert # <<>> => Len(t.old.invs) = Len(invoices)
<1>. DEFINE t == tx[p]
            f == FlushInvoices(t)
<1>1. /\ t \in Tx /\ t.open /\ Consistent(t)
      /\ invoices' = f \o t.insert /\ ~NumberTaken(t)
  BY DEF IInv, Safe, TypeOK, UnitsOfWorkConsistent, Commit
<1>2. /\ t.old.invs \in Seq(Invoice) /\ t.new.invs \in Seq(Invoice) /\ t.insert \in Seq(Invoice)
      /\ invoices \in Seq(Invoice) /\ Len(t.new.invs) = Len(t.old.invs)
  BY <1>1 DEF Tx, TxRecord, Snapshot, IInv, TypeOK
<1>3. Later(t.old.invs, invoices) /\ Later(t.old.invs, t.new.invs)
  BY <1>1 DEF Consistent
<1>. HIDE DEF t
<1>4. Len(t.old.invs) <= Len(invoices)
  BY <1>3 DEF Later
<1>5. f = [n \in 1 .. Len(invoices) |-> f[n]]
  BY <1>2 DEF FlushInvoices
<1>6. ASSUME NEW n \in 1 .. Len(t.old.invs)
      PROVE  /\ Evolved(invoices[n], f[n]) /\ f[n] \in Invoice
             /\ f[n].status = "PENDING" =>
                  t.old.invs[n].status = "PENDING" /\ t.new.invs[n].status = "PENDING"
             /\ Evolved(t.old.invs[n], f[n]) /\ Evolved(t.old.invs[n], t.new.invs[n])
  <2>. DEFINE cur == invoices[n]
              old == t.old.invs[n]
              new == t.new.invs[n]
  <2>1. n \in 1 .. Len(invoices) /\ n \in 1 .. Len(t.new.invs)
    BY <1>2, <1>4
  <2>2. cur \in Invoice /\ old \in Invoice /\ new \in Invoice
    BY <1>2, <2>1, ElementOfSeq
  <2>3. Evolved(old, cur) /\ Evolved(old, new)
    BY <1>3 DEF Later
  <2>4. f[n] = Flush(cur, old, new)
    BY <1>2, <2>1 DEF FlushInvoices
  <2>. HIDE DEF f, cur, old, new
  <2>5. f[n] \in Invoice
    BY <2>2, <2>4, FlushInvoiceType
  <2>6. /\ Evolved(cur, f[n])
        /\ f[n].status = "PENDING" => old.status = "PENDING" /\ new.status = "PENDING"
    BY <2>2, <2>3, <2>4, FlushEvolves
  <2>7. Evolved(old, f[n])
    BY <2>2, <2>3, <2>5, <2>6, EvolvedTransitive
  <2>. QED
    BY <2>3, <2>5, <2>6, <2>7 DEF cur, old, new
<1>7. ASSUME NEW n \in 1 .. Len(invoices) PROVE Evolved(invoices[n], f[n]) /\ f[n] \in Invoice
  <2>1. CASE n \in 1 .. Len(t.old.invs)
    BY <1>6, <2>1
  <2>2. CASE n \notin 1 .. Len(t.old.invs)
    <3>1. f[n] = invoices[n]
      BY <1>2, <2>2 DEF FlushInvoices
    <3>2. invoices[n] \in Invoice
      BY <1>2, ElementOfSeq
    <3>. QED
      BY <3>1, <3>2 DEF Evolved, Invoice
  <2>. QED
    BY <2>1, <2>2
<1>. HIDE DEF f
<1>8. f \in Seq(Invoice) /\ Len(f) = Len(invoices)
  BY <1>2, <1>5, <1>7, IsASeq
<1>9. Later(invoices, f)
  BY <1>2, <1>7, <1>8 DEF Later
<1>10. t.insert # <<>> => Len(t.old.invs) = Len(invoices)
  BY <1>1, <1>2, <1>4 DEF NumberTaken, NextInvoiceNumber
<1>. QED
  BY <1>1, <1>2, <1>6, <1>8, <1>9, <1>10 DEF f, t

\* Two invoices that are both PENDING after a flush were so before it.
LEMMA CommitStep ==
  ASSUME IInv, NEW p \in Procs, Commit(p)
  PROVE  Safe'
<1>. DEFINE t == tx[p]
            f == FlushInvoices(t)
            old == t.old.invs
            new == t.new.invs
            inv == t.insert[1]
            last == Len(invoices) + 1
<1>1. /\ invoices' = f \o t.insert
      /\ t.insert \in Seq(Invoice) /\ f \in Seq(Invoice) /\ Len(f) = Len(invoices)
      /\ Later(invoices, f)
  BY FlushedTable
<1>2. \A n \in 1 .. Len(old) :
         /\ f[n].status = "PENDING" => old[n].status = "PENDING" /\ new[n].status = "PENDING"
         /\ Evolved(old[n], f[n]) /\ Evolved(old[n], new[n])
  BY FlushedTable
<1>3. t.insert # <<>> => Len(old) = Len(invoices)
  BY FlushedTable
<1>4. /\ invoices \in Seq(Invoice) /\ old \in Seq(Invoice) /\ new \in Seq(Invoice)
      /\ t \in Tx /\ Consistent(t) /\ Len(old) = Len(new)
  BY DEF IInv, Safe, TypeOK, Tx, TxRecord, Snapshot, UnitsOfWorkConsistent
<1>5. t.insert # <<>> =>
        /\ Len(t.insert) = 1 /\ inv.status = "PENDING"
        /\ inv.kind = "job" /\ IsMidnight(inv.end) => Unrivalled(inv, old, Kinds)
        /\ inv.kind \in SelfServe => Unrivalled(inv, new, SelfServe)
  BY <1>4 DEF Consistent
<1>6. tx' = [tx EXCEPT ![p] = NoTx] /\ pc' = [pc EXCEPT ![p] = t.next] /\ t.next # "commit"
  BY <1>4 DEF Commit, GoTo, Tx, TxRecord, Steps
<1>. HIDE DEF t, f, old, new, inv
<1>7. /\ Len(invoices') = Len(invoices) + Len(t.insert)
      /\ \A n \in 1 .. Len(invoices) : invoices'[n] = f[n]
      /\ t.insert # <<>> => invoices'[last] = inv /\ Len(invoices') = last
      /\ t.insert = <<>> => Len(invoices') = Len(invoices)
  <2>1. Len(invoices') = Len(f) + Len(t.insert)
    BY <1>1, ConcatProperties
  <2>2. \A n \in 1 .. Len(f) : invoices'[n] = f[n]
    BY <1>1, ConcatProperties
  <2>3. CASE t.insert # <<>>
    <3>1. Len(t.insert) = 1 /\ t.insert[1] = inv
      BY <1>5, <2>3 DEF inv
    <3>2. (f \o t.insert)[Len(f) + 1] = t.insert[1]
      BY <1>1, <3>1
    <3>. QED
      BY <1>1, <2>1, <2>2, <2>3, <3>1, <3>2
  <2>4. CASE t.insert = <<>>
    BY <1>1, <1>4, <2>1, <2>2, <2>4
  <2>. QED
    BY <2>3, <2>4
<1>8. Later(invoices, invoices') /\ invoices' \in Seq(Invoice)
  BY <1>1, <1>4, <1>7 DEF Later
<1>9. UnitsOfWorkConsistent'
  <2>1. ASSUME NEW q \in Procs, q # p
        PROVE  Consistent(tx[q])' /\ (pc'[q] = "commit" => tx'[q].open)
    <3>1. tx'[q] = tx[q] /\ pc'[q] = pc[q] /\ tx[q] \in Tx
      BY <1>6, <2>1 DEF IInv, TypeOK
    <3>2. Consistent(tx[q]) /\ (pc[q] = "commit" => tx[q].open)
      BY DEF IInv, Safe, UnitsOfWorkConsistent
    <3>3. tx[q].old.invs \in Seq(Invoice)
      BY <3>1 DEF Tx, TxRecord, Snapshot
    <3>4. tx[q].open => Later(tx[q].old.invs, invoices')
      BY <1>4, <1>8, <3>2, <3>3, LaterTransitive DEF Consistent
    <3>. QED
      BY <3>1, <3>2, <3>4 DEF Consistent
  <2>2. tx'[p] = NoTx /\ pc'[p] # "commit"
    BY <1>6 DEF IInv, TypeOK
  <2>3. Consistent(tx[p])'
    BY <2>2 DEF Consistent, NoTx
  <2>. QED
    BY <2>1, <2>2, <2>3 DEF UnitsOfWorkConsistent
<1>10. ASSUME NEW m \in DOMAIN invoices', NEW n \in DOMAIN invoices', m < n,
              invoices'[m].org = invoices'[n].org,
              invoices'[m].status = "PENDING", invoices'[n].status = "PENDING"
       PROVE  /\ ~(/\ invoices'[n].kind = "job" /\ IsMidnight(invoices'[n].end)
                   /\ invoices'[m].end = invoices'[n].end)
              /\ ~({invoices'[m].kind, invoices'[n].kind} \subseteq SelfServe)
  <2>1. m \in 1 .. Len(invoices) /\ (n \in 1 .. Len(invoices) \/ (n = last /\ t.insert # <<>>))
    <3>1. m \in 1 .. Len(invoices') /\ n \in 1 .. Len(invoices') /\ Len(invoices) \in Nat
      BY <1>4, <1>8
    <3>2. m < n /\ (t.insert # <<>> => Len(invoices') = Len(invoices) + 1)
          /\ (t.insert = <<>> => Len(invoices') = Len(invoices))
      BY <1>7, <1>10
    <3>3. CASE t.insert = <<>>
      BY <3>1, <3>2, <3>3
    <3>4. CASE t.insert # <<>>
      BY <3>1, <3>2, <3>4
    <3>. QED
      BY <3>3, <3>4
  <2>2. CASE n \in 1 .. Len(invoices)
    <3>1. /\ Evolved(invoices[m], invoices'[m]) /\ Evolved(invoices[n], invoices'[n])
          /\ invoices[m] \in Invoice /\ invoices[n] \in Invoice
      BY <1>4, <1>8, <2>1, <2>2, ElementOfSeq DEF Later
    <3>2. /\ invoices[m].status = "PENDING" /\ invoices[n].status = "PENDING"
          /\ invoices[m].kind = invoices'[m].kind /\ invoices[n].kind = invoices'[n].kind
          /\ invoices[m].org = invoices'[m].org /\ invoices[n].org = invoices'[n].org
          /\ invoices[m].end = invoices'[m].end /\ invoices[n].end = invoices'[n].end
      BY <1>10, <3>1 DEF Evolved, Invoice
    <3>3. m \in DOMAIN invoices /\ n \in DOMAIN invoices
      BY <1>4, <2>1, <2>2
    <3>4. {invoices[m].status, invoices[n].status} = {"PENDING"}
      BY <3>2
    <3>. QED
      BY <1>10, <3>2, <3>3, <3>4 DEF IInv, Safe, OneOpenJobInvoice, OnePendingPurchase
  <2>3. CASE n = last /\ t.insert # <<>>
    <3>1. invoices'[n] = inv /\ invoices'[m] = f[m] /\ m \in 1 .. Len(old)
      BY <1>3, <1>7, <2>1, <2>3
    <3>2. /\ old[m].status = "PENDING" /\ new[m].status = "PENDING"
          /\ Evolved(old[m], f[m]) /\ Evolved(old[m], new[m])
          /\ old[m] \in Invoice /\ new[m] \in Invoice
          /\ m \in DOMAIN old /\ m \in DOMAIN new
      BY <1>2, <1>4, <1>10, <3>1, ElementOfSeq
    <3>3. /\ old[m].org = f[m].org /\ old[m].end = f[m].end /\ old[m].kind = f[m].kind
          /\ new[m].org = f[m].org /\ new[m].kind = f[m].kind /\ old[m].kind \in Kinds
      BY <3>2 DEF Evolved, Invoice
    <3>4. ~(inv.kind = "job" /\ IsMidnight(inv.end) /\ f[m].end = inv.end)
      BY <1>5, <1>10, <2>3, <3>1, <3>2, <3>3 DEF Unrivalled
    <3>5. ~({f[m].kind, inv.kind} \subseteq SelfServe)
      <4>1. "job" \notin SelfServe
        BY DEF SelfServe
      <4>. QED
        BY <1>5, <1>10, <2>3, <3>1, <3>2, <3>3, <4>1 DEF Unrivalled
    <3>. QED
      BY <3>1, <3>4, <3>5
  <2>. QED
    BY <2>1, <2>2, <2>3
<1>11. OneOpenJobInvoice' /\ OnePendingPurchase'
  BY <1>10 DEF OneOpenJobInvoice, OnePendingPurchase
<1>. QED
  BY <1>9, <1>11 DEF Safe

------------------------------------------------------------------------------
(* Every other step                                                         *)

LEMMA NoInsert ==
  ASSUME IInv, NEW p \in Procs, NEW s, NEW new, NEW next, NEW fail, NEW num,
         Begin(p, s, new, <<>>, next, fail, num), UNCHANGED invoices,
         Later(s.invs, invoices), Later(s.invs, new.invs)
  PROVE  Safe'
BY BeginStep

LEMMA WriteOrgStep ==
  ASSUME IInv, NEW p \in Procs, NEW o, NEW org, NEW next, WriteOrg(p, o, org, next),
         UNCHANGED invoices
  PROVE  Safe'
<1>. DEFINE new == [Db EXCEPT !.orgs[o] = org]
<1>1. Db.invs = invoices /\ Later(invoices, invoices)
  BY ViewLater
<1>2. new.invs = Db.invs
  BY DEF Db
<1>3. Begin(p, Db, new, <<>>, next, "idle", 0)
  BY DEF WriteOrg
<1>. HIDE DEF new
<1>. QED
  BY <1>1, <1>2, <1>3, NoInsert

LEMMA MarkInvoicePaidStep ==
  ASSUME IInv, NEW p \in Procs, NEW s \in Snapshot, NEW n \in DOMAIN s.invs, NEW next,
         MarkInvoicePaid(p, s, n, next), Later(s.invs, invoices), UNCHANGED invoices
  PROVE  Safe'
<1>. DEFINE paid == [s.invs EXCEPT ![n].status = "PAID"]
<1>1. s.invs \in Seq(Invoice)
  BY DEF Snapshot
<1>2. Len(paid) = Len(s.invs)
  BY <1>1
<1>3. ASSUME NEW m \in 1 .. Len(s.invs) PROVE Evolved(s.invs[m], paid[m])
  <2>1. s.invs[m] \in Invoice
    BY <1>1, ElementOfSeq
  <2>2. paid[m] = IF m = n THEN [s.invs[m] EXCEPT !.status = "PAID"] ELSE s.invs[m]
    BY <1>1
  <2>. QED
    BY <2>1, <2>2 DEF Evolved, Invoice
<1>4. Later(s.invs, paid)
  BY <1>1, <1>2, <1>3 DEF Later
<1>5. PICK new, num : new.invs = paid /\ Begin(p, s, new, <<>>, next, next, num)
  BY DEF MarkInvoicePaid
<1>. HIDE DEF paid
<1>. QED
  BY <1>4, <1>5, NoInsert

LEMMA InvoiceLoopStep ==
  ASSUME IInv, NEW p \in Procs, NEW rest \in SUBSET Orgs, InvoiceLoop(p, rest), UNCHANGED invoices
  PROVE  Safe'
<1>. DEFINE s     == View(p)
            clear == {o \in rest : Skipped(s, o)}
<1>1. s \in Snapshot /\ Later(s.invs, invoices) /\ Later(s.invs, s.invs)
  BY ViewLater
<1>2. CASE Hold(p, s) /\ GoTo(p, "reminders")
  BY <1>1, <1>2, HoldStep DEF Steps
<1>3. CASE \E o \in rest \ clear :
             Begin(p, s, s, <<GeneratedInvoice(s, o, "job")>>, "invoicing", "reminders", 0)
  <2>1. PICK o \in rest \ clear :
          Begin(p, s, s, <<GeneratedInvoice(s, o, "job")>>, "invoicing", "reminders", 0)
    BY <1>3
  <2>. DEFINE inv == GeneratedInvoice(s, o, "job")
  <2>2. ~HasOpenInvoice(s, o) /\ o \in Orgs
    BY DEF clear, Skipped
  <2>3. inv.org = o /\ inv.kind = "job" /\ inv.status = "PENDING"
    BY DEF GeneratedInvoice
  <2>4. IsMidnight(inv.end) =>
          s.orgs[o].expiry # NoDate /\ inv.end = Midnight(s.orgs[o].expiry)
    <3>1. today \in Int /\ CycleDays \in Int
      BY BillingAssumption DEF BillingAssumption, IInv, TypeOK
    <3>2. ~IsMidnight(Now + 2 * CycleDays)
      BY <3>1 DEF IsMidnight, Now
    <3>. QED
      BY <3>2 DEF GeneratedInvoice
  <2>. HIDE DEF s, clear, inv
  <2>5. IsMidnight(inv.end) => Unrivalled(inv, s.invs, Kinds)
    BY <2>2, <2>3, <2>4 DEF HasOpenInvoice, Unrivalled
  <2>6. Len(<<inv>>) = 1 /\ <<inv>>[1] = inv /\ inv.kind \notin SelfServe
    BY <2>3 DEF SelfServe
  <2>7. Begin(p, s, s, <<inv>>, "invoicing", "reminders", 0)
    BY <2>1 DEF inv
  <2>. QED
    BY <1>1, <2>3, <2>5, <2>6, <2>7, BeginStep
<1>. QED
  BY <1>2, <1>3 DEF InvoiceLoop

LEMMA SweepOverdueStep ==
  ASSUME IInv, NEW p \in Procs, SweepOverdue(p)
  PROVE  Safe'
<1>. DEFINE s   == View(p)
            invs == [n \in DOMAIN s.invs |-> Swept(s.invs[n])]
            new == [s EXCEPT !.invs = invs]
<1>1. s \in Snapshot /\ s.invs \in Seq(Invoice) /\ Later(s.invs, invoices)
  BY ViewLater
<1>2. invs = [n \in 1 .. Len(s.invs) |-> Swept(s.invs[n])]
  BY <1>1
<1>3. \A n \in 1 .. Len(s.invs) :
        Swept(s.invs[n]) \in Invoice /\ Evolved(s.invs[n], Swept(s.invs[n]))
  <2>1. ASSUME NEW i \in Invoice PROVE Evolved(i, Swept(i))
    BY DEF Evolved, Swept, Invoice
  <2>. QED
    BY <1>1, <2>1, SweptType, ElementOfSeq
<1>4. Later(s.invs, invs)
  <2>1. Len(invs) = Len(s.invs)
    BY <1>1, <1>2, <1>3, IsASeq
  <2>. QED
    BY <1>1, <1>2, <1>3, <2>1 DEF Later
<1>5. new.invs = invs
  BY <1>1 DEF Snapshot
<1>6. /\ \/ Begin(p, s, new, <<>>, "suspend", "suspend", 0)
         \/ Hold(p, s) /\ GoTo(p, "suspend")
      /\ UNCHANGED invoices
  BY DEF SweepOverdue, tables
<1>. HIDE DEF s, invs, new
<1>. QED
  BY <1>1, <1>4, <1>5, <1>6, NoInsert, HoldStep DEF Steps

LEMMA AutoSuspendStep ==
  ASSUME IInv, NEW p \in Procs, AutoSuspend(p)
  PROVE  Safe'
<1>. DEFINE s   == View(p)
            new == [s EXCEPT !.orgs = [o \in Orgs |-> Suspended(s.orgs[o])]]
<1>1. s \in Snapshot /\ Later(s.invs, invoices) /\ Later(s.invs, s.invs)
  BY ViewLater
<1>2. new.invs = s.invs
  BY <1>1 DEF Snapshot
<1>3. /\ \/ Begin(p, s, new, <<>>, "idle", "idle", 0)
         \/ tx' = [tx EXCEPT ![p] = NoTx] /\ GoTo(p, "idle")
      /\ UNCHANGED invoices
  BY DEF AutoSuspend, tables
<1>. HIDE DEF s, new
<1>. QED
  BY <1>1, <1>2, <1>3, NoInsert, IdleStep DEF Steps

LEMMA CycleStepSafe ==
  ASSUME IInv, NEW p \in Procs, CycleStep(p)
  PROVE  Safe'
<1>. USE DEF env, tables, work
<1>1. CASE StartCycle(p)
  <2>1. DueForInvoice(Db) \in SUBSET Orgs
    BY DEF DueForInvoice
  <2>. QED
    BY <1>1, <2>1, InvoiceLoopStep DEF StartCycle
<1>2. CASE ContinueInvoicing(p)
  <2>1. todo[p] \in SUBSET Orgs
    BY DEF IInv, TypeOK
  <2>. QED
    BY <1>2, <2>1, InvoiceLoopStep DEF ContinueInvoicing
<1>3. CASE SendReminders(p)
  BY <1>3, ViewLater, HoldStep DEF SendReminders, Steps
<1>4. CASE CommitFails(p)
  <2>1. tx[p].fail \in Steps
    BY DEF IInv, TypeOK, Tx, TxRecord
  <2>. QED
    BY <1>4, <2>1, IdleStep DEF CommitFails, Drop
<1>. QED
  BY <1>1, <1>2, <1>3, <1>4, SweepOverdueStep, AutoSuspendStep, CommitStep DEF CycleStep

LEMMA ChoosePlanSafe ==
  ASSUME IInv, NEW r \in Procs, NEW o \in Orgs, NEW plan \in Plans, ChoosePlan(r, o, plan)
  PROVE  Safe'
<1>. DEFINE kind   == PlanChange(orgs[o], plan)
            open   == {n \in DOMAIN invoices : IsOpenPurchase(invoices[n], o)}
            same   == {n \in open : invoices[n].plan = plan /\ invoices[n].kind = kind}
            invs   == [n \in DOMAIN invoices |->
                         IF n \in open \ same THEN [invoices[n] EXCEPT !.status = "CANCELLED"]
                                              ELSE invoices[n]]
            placed == [Db EXCEPT !.invs = invs]
            inv    == PurchaseInvoice(Db, o, plan, kind)
<1>1. /\ kind \in SelfServe /\ UNCHANGED invoices
      /\ \/ Begin(r, Db, placed, <<>>, "link", "idle", 0)
         \/ same = {} /\ Begin(r, Db, placed, <<inv>>, "link", "idle", 0)
  BY DEF ChoosePlan, tables
<1>2. Db.invs = invoices /\ Later(invoices, invoices) /\ invoices \in Seq(Invoice)
  BY ViewLater DEF IInv, TypeOK
<1>3. placed.invs = invs
  BY DEF Db
<1>4. invs = [n \in 1 .. Len(invoices) |-> invs[n]]
  BY <1>2
<1>5. ASSUME NEW n \in 1 .. Len(invoices)
      PROVE  /\ invs[n] \in Invoice /\ Evolved(invoices[n], invs[n])
             /\ same = {} => ~(/\ invs[n].status = "PENDING" /\ invs[n].org = o
                               /\ invs[n].kind \in SelfServe)
  <2>1. invoices[n] \in Invoice /\ n \in DOMAIN invoices
    BY <1>2, ElementOfSeq
  <2>2. CASE n \in open \ same
    <3>1. invs[n] = [invoices[n] EXCEPT !.status = "CANCELLED"]
      BY <2>1, <2>2
    <3>. QED
      BY <2>1, <3>1 DEF Evolved, Invoice, Statuses
  <2>3. CASE n \notin open \ same
    <3>1. invs[n] = invoices[n]
      BY <2>1, <2>3
    <3>2. same = {} => ~IsOpenPurchase(invoices[n], o)
      BY <2>1, <2>3
    <3>. HIDE DEF same, open, invs
    <3>3. Evolved(invoices[n], invs[n])
      BY <2>1, <3>1 DEF Evolved, Invoice
    <3>. QED
      BY <2>1, <3>1, <3>2, <3>3 DEF IsOpenPurchase, IsOpen
  <2>. QED
    BY <2>2, <2>3
<1>. HIDE DEF invs
<1>6. Later(invoices, invs) /\ invs \in Seq(Invoice) /\ Len(invs) = Len(invoices)
  BY <1>2, <1>4, <1>5, IsASeq DEF Later
<1>7. CASE Begin(r, Db, placed, <<>>, "link", "idle", 0)
  <2>. HIDE DEF placed
  <2>. QED
    BY <1>1, <1>2, <1>3, <1>6, <1>7, NoInsert
<1>8. CASE same = {} /\ Begin(r, Db, placed, <<inv>>, "link", "idle", 0)
  <2>1. inv.org = o /\ inv.kind = kind /\ inv.status = "PENDING" /\ inv.kind # "job"
    BY <1>1 DEF PurchaseInvoice, SelfServe
  <2>. HIDE DEF inv, placed, same, kind
  <2>2. Unrivalled(inv, invs, SelfServe)
    BY <1>5, <1>6, <1>8, <2>1 DEF Unrivalled
  <2>3. Len(<<inv>>) = 1 /\ <<inv>>[1] = inv
    OBVIOUS
  <2>. QED
    BY <1>1, <1>2, <1>3, <1>6, <1>8, <2>1, <2>2, <2>3, BeginStep
<1>. QED
  BY <1>1, <1>7, <1>8

\* An invoice that an admin issues is neither the job's nor a purchase.
LEMMA AdminInvoiceStep ==
  ASSUME IInv, NEW p \in Procs, NEW o, NEW kind \in {"manual", "proration"},
         Begin(p, Db, Db, <<GeneratedInvoice(Db, o, kind)>>, "idle", "idle", 0),
         UNCHANGED invoices
  PROVE  Safe'
<1>. DEFINE inv == GeneratedInvoice(Db, o, kind)
<1>1. inv.status = "PENDING" /\ inv.kind # "job" /\ inv.kind \notin SelfServe
  BY DEF GeneratedInvoice, SelfServe
<1>2. Db.invs = invoices /\ Later(invoices, invoices)
  BY ViewLater
<1>. HIDE DEF inv
<1>3. Len(<<inv>>) = 1 /\ <<inv>>[1] = inv
  OBVIOUS
<1>4. Begin(p, Db, Db, <<inv>>, "idle", "idle", 0)
  BY DEF inv
<1>. QED
  BY <1>1, <1>2, <1>3, <1>4, BeginStep

LEMMA OrgRequestSafe ==
  ASSUME IInv, NEW r \in Procs, NEW o \in Orgs, OrgRequest(r, o)
  PROVE  Safe'
<1>. USE DEF env, tables, work
<1>1. CASE StartSync(r, o)
  BY <1>1, ViewLater, HoldStep DEF StartSync, Steps
<1>2. CASE GenerateInvoice(r, o)
  BY <1>2, AdminInvoiceStep DEF GenerateInvoice
<1>3. CASE Subscribe(r, o)
  <2>1. UNCHANGED invoices /\ \E org, next : WriteOrg(r, o, org, next)
    BY <1>3 DEF Subscribe
  <2>. QED
    BY <2>1, WriteOrgStep
<1>4. CASE Suspend(r, o)
  BY <1>4, WriteOrgStep DEF Suspend
<1>5. CASE Activate(r, o)
  BY <1>5, WriteOrgStep DEF Activate
<1>6. CASE Delete(r, o)
  BY <1>6, WriteOrgStep DEF Delete
<1>7. CASE Edit(r, o)
  BY <1>7, WriteOrgStep DEF Edit
<1>. QED
  BY <1>1, <1>2, <1>3, <1>4, <1>5, <1>6, <1>7, ChoosePlanSafe DEF OrgRequest

LEMMA InvoiceRequestSafe ==
  ASSUME IInv, NEW r \in Procs, NEW n, InvoiceRequest(r, n)
  PROVE  Safe'
<1>. USE DEF env, tables, work
<1>1. Db \in Snapshot /\ Db.invs = invoices /\ Later(invoices, invoices)
  BY ViewLater
<1>2. CASE Webhook(r, n)
  <2>1. CASE Unrecorded(invoices[n])
    BY <1>1, <1>2, <2>1, MarkInvoicePaidStep DEF Webhook
  <2>2. CASE ~Unrecorded(invoices[n])
    BY <1>2, <2>2, IdleStep DEF Webhook, Steps
  <2>. QED
    BY <2>1, <2>2
<1>3. CASE MarkPaid(r, n)
  BY <1>1, <1>3, MarkInvoicePaidStep DEF MarkPaid
<1>4. CASE PayInvoice(r, n)
  BY <1>4, IdleStep DEF PayInvoice, Steps
<1>. QED
  BY <1>2, <1>3, <1>4 DEF InvoiceRequest

LEMMA RequestStepSafe ==
  ASSUME IInv, NEW r \in Procs, RequestStep(r)
  PROVE  Safe'
<1>. USE DEF env, tables, work
<1>1. Db \in Snapshot /\ Db.invs = invoices /\ Later(invoices, invoices)
  BY ViewLater
<1>2. CASE SyncInvoice(r)
  <2>1. View(r) \in Snapshot /\ Later(View(r).invs, invoices)
    BY ViewLater
  <2>. QED
    BY <1>2, <2>1, MarkInvoicePaidStep DEF SyncInvoice
<1>3. CASE EndSync(r)
  BY <1>3, IdleStep DEF EndSync, Drop, Steps
<1>4. CASE OpenLink(r)
  BY <1>4, IdleStep DEF OpenLink, Drop, Steps
<1>5. CASE Prorate(r)
  <2>1. /\ UNCHANGED invoices
        /\ \/ GoTo(r, "idle") /\ UNCHANGED tx
           \/ \E o : Begin(r, Db, Db, <<GeneratedInvoice(Db, o, "proration")>>, "idle", "idle", 0)
    BY <1>5 DEF Prorate
  <2>. QED
    BY <2>1, IdleStep, AdminInvoiceStep DEF Steps
<1>6. CASE Extend(r)
  <2>1. PICK extended :
          Begin(r, Db, [Db EXCEPT !.orgs = extended], <<>>, "idle", "idle", 0)
    BY <1>6 DEF Extend
  <2>2. [Db EXCEPT !.orgs = extended].invs = Db.invs
    BY DEF Db
  <2>. QED
    BY <1>1, <1>6, <2>1, <2>2, NoInsert DEF Extend
<1>7. CASE Answer(r)
  BY <1>7, IdleStep DEF Answer, Drop, Steps
<1>. QED
  BY <1>2, <1>3, <1>4, <1>5, <1>6, <1>7 DEF RequestStep

LEMMA SafeInit == Init => Safe
BY DEF Init, Safe, UnitsOfWorkConsistent, Consistent, NoTx, OneOpenJobInvoice, OnePendingPurchase

LEMMA SafeStep ==
  ASSUME IInv, [Next]_vars
  PROVE  Safe'
<1>. USE DEF env, tables, work
<1>1. ASSUME NEW p \in Procs, CycleStep(p) PROVE Safe'
  BY <1>1, CycleStepSafe
<1>2. ASSUME NEW p \in Procs, Crash(p) PROVE Safe'
  BY <1>2, IdleStep DEF Crash, Drop, Steps
<1>3. ASSUME NEW r \in Requests,
             \/ RequestStep(r)
             \/ \E o \in Orgs : OrgRequest(r, o)
             \/ \E n \in 1 .. MaxInvoices : InvoiceRequest(r, n)
      PROVE  Safe'
  BY <1>3, RequestStepSafe, OrgRequestSafe, InvoiceRequestSafe DEF Procs
<1>4. ASSUME NEW n \in 1 .. MaxInvoices, CustomerPays(n) PROVE Safe'
  BY <1>4, StillStep DEF CustomerPays
<1>5. CASE NextDay
  BY <1>5, StillStep DEF NextDay
<1>6. CASE UNCHANGED vars
  BY <1>6, StillStep DEF vars
<1>. QED
  BY <1>1, <1>2, <1>3, <1>4, <1>5, <1>6 DEF Next

------------------------------------------------------------------------------
(* The theorems                                                             *)

\* The strengthened invariant of the billing system.
THEOREM Invariance == Spec => []IInv
<1>1. Init => IInv
  BY TypeInit, SafeInit, BillingAssumption DEF IInv
<1>2. IInv /\ [Next]_vars => IInv'
  <2>. SUFFICES ASSUME IInv, [Next]_vars PROVE IInv'
    OBVIOUS
  <2>1. TypeOK'
    BY TypeStep, BillingAssumption DEF IInv
  <2>. QED
    BY <2>1, SafeStep DEF IInv
<1>. QED
  BY <1>1, <1>2, PTL DEF Spec

\* Schedulers and buttons that run the billing cycle at the same time never leave
\* two PENDING invoices for one period, although each looks for an open invoice
\* and inserts its own in separate steps: the invoice number both would take is
\* UNIQUE, and the loser is rolled back.
THEOREM NoDoubleBilling == Spec => []OneOpenJobInvoice
<1>1. IInv => OneOpenJobInvoice
  BY DEF IInv, Safe
<1>. QED
  BY <1>1, Invariance, PTL

\* Concurrent choose-plan requests of one organization never leave two purchases
\* awaiting payment.
THEOREM NoDoublePurchase == Spec => []OnePendingPurchase
<1>1. IInv => OnePendingPurchase
  BY DEF IInv, Safe
<1>. QED
  BY <1>1, Invariance, PTL

\* A stale snapshot never weakens what its unit of work was prepared from.
THEOREM StaleButConsistent == Spec => []UnitsOfWorkConsistent
<1>1. IInv => UnitsOfWorkConsistent
  BY DEF IInv, Safe
<1>. QED
  BY <1>1, Invariance, PTL

------------------------------------------------------------------------------
(* The refinement of InvoiceRegister                                        *)

LEMMA OnlyCommitWrites ==
  ASSUME [Next]_vars, invoices' # invoices
  PROVE  \E p \in Procs : Commit(p)
<1>. USE DEF env, tables, work
<1>1. ASSUME NEW p \in Procs, CycleStep(p) PROVE Commit(p)
  BY <1>1 DEF CycleStep, StartCycle, ContinueInvoicing, SendReminders, SweepOverdue,
              AutoSuspend, CommitFails
<1>2. ASSUME NEW p \in Procs, Crash(p) PROVE FALSE
  BY <1>2 DEF Crash
<1>3. ASSUME NEW r \in Requests, RequestStep(r) PROVE FALSE
  BY <1>3 DEF RequestStep, SyncInvoice, EndSync, OpenLink, Prorate, Extend,
              Answer
<1>4. ASSUME NEW r \in Requests, NEW o \in Orgs, OrgRequest(r, o) PROVE FALSE
  BY <1>4 DEF OrgRequest, StartSync, GenerateInvoice, Subscribe, Suspend, Activate, Delete,
              Edit, ChoosePlan
<1>5. ASSUME NEW r \in Requests, NEW n \in 1 .. MaxInvoices, InvoiceRequest(r, n) PROVE FALSE
  BY <1>5 DEF InvoiceRequest, Webhook, MarkPaid, PayInvoice
<1>6. ~(\E n \in 1 .. MaxInvoices : CustomerPays(n)) /\ ~NextDay /\ ~UNCHANGED vars
  BY DEF CustomerPays, NextDay, vars
<1>. QED
  BY <1>1, <1>2, <1>3, <1>4, <1>5, <1>6 DEF Next

LEMMA EvolvedIsRestated ==
  ASSUME NEW i \in Invoice, NEW j \in Invoice, Evolved(i, j)
  PROVE  /\ j = [i EXCEPT !.status = j.status] /\ j.status \in Statuses
         /\ j.status = "PENDING" => i.status = "PENDING"
BY DEF Evolved, Invoice

LEMMA CommitIsRegistered ==
  ASSUME IInv, NEW p \in Procs, Commit(p)
  PROVE  Register!RegNext
<1>. DEFINE t == tx[p]
            f == FlushInvoices(t)
            old == t.old.invs
            inv == t.insert[1]
<1>1. /\ invoices' = f \o t.insert
      /\ t.insert \in Seq(Invoice) /\ f \in Seq(Invoice) /\ Len(f) = Len(invoices)
      /\ Later(invoices, f) /\ (t.insert # <<>> => Len(old) = Len(invoices))
  BY FlushedTable
<1>2. /\ invoices \in Seq(Invoice) /\ old \in Seq(Invoice) /\ t.open /\ Consistent(t)
  BY DEF IInv, Safe, TypeOK, Tx, TxRecord, Snapshot, UnitsOfWorkConsistent, Commit
<1>3. Later(old, invoices)
  BY <1>2 DEF Consistent
<1>4. t.insert # <<>> => /\ Len(t.insert) = 1 /\ inv.status = "PENDING"
                         /\ inv.kind = "job" /\ IsMidnight(inv.end) => Unrivalled(inv, old, Kinds)
  BY <1>2 DEF Consistent
<1>. HIDE DEF t, f, old, inv
<1>5. Register!Restated(f)
  <2>1. DOMAIN f = DOMAIN invoices
    BY <1>1, <1>2
  <2>2. ASSUME NEW n \in DOMAIN invoices
        PROVE  /\ f[n] = [invoices[n] EXCEPT !.status = f[n].status] /\ f[n].status \in Statuses
               /\ f[n].status = "PENDING" => Register!Pending(n)
    <3>1. f[n] \in Invoice /\ invoices[n] \in Invoice /\ Evolved(invoices[n], f[n])
      BY <1>1, <1>2, ElementOfSeq DEF Later
    <3>. QED
      BY <3>1, EvolvedIsRestated DEF Register!Pending
  <2>. QED
    BY <2>1, <2>2 DEF Register!Restated
<1>6. CASE t.insert = <<>>
  <2>1. invoices' = f
    BY <1>1, <1>6, ConcatEmptySeq
  <2>. QED
    BY <1>5, <2>1 DEF Register!RegNext, Register!Restate
<1>7. CASE t.insert # <<>>
  <2>1. Len(invoices') = Len(invoices) + 1 /\ Len(t.insert) = 1
    <3>1. Len(t.insert) = 1
      BY <1>4, <1>7
    <3>2. Len(invoices') = Len(f) + Len(t.insert)
      BY <1>1, ConcatProperties
    <3>. QED
      BY <1>1, <3>1, <3>2
  <2>2. inv \in Invoice /\ t.insert = <<inv>>
    BY <1>1, <2>1 DEF inv
  <2>3. /\ invoices'[Len(invoices')] = inv
        /\ \A n \in 1 .. Len(invoices) : invoices'[n] = f[n]
    BY <1>1, <1>2, <2>1, <2>2, ConcatProperties
  <2>4. SubSeq(invoices', 1, Len(invoices)) = f
    <3>1. invoices' \in Seq(Invoice) /\ Len(invoices) \in Nat
      BY <1>1, <1>2, ConcatProperties
    <3>2. f = [n \in 1 .. Len(invoices) |-> f[n]]
      BY <1>1
    <3>3. SubSeq(invoices', 1, Len(invoices)) = [n \in 1 .. Len(invoices) |-> invoices'[n]]
      BY <2>1, <3>1
    <3>. QED
      BY <2>3, <3>2, <3>3
  <2>5. Register!MayIssue(inv)
    <3>1. ASSUME inv.kind = "job", inv.end % 2 = 0, NEW n \in DOMAIN invoices,
                 Register!Pending(n), invoices[n].org = inv.org, invoices[n].end = inv.end
          PROVE  FALSE
      <4>1. n \in 1 .. Len(old) /\ Unrivalled(inv, old, Kinds)
        BY <1>1, <1>2, <1>4, <1>7, <3>1 DEF IsMidnight
      <4>2. /\ Evolved(old[n], invoices[n]) /\ old[n] \in Invoice /\ invoices[n] \in Invoice
            /\ n \in DOMAIN old
        BY <1>2, <1>3, <3>1, <4>1, ElementOfSeq DEF Later
      <4>3. /\ old[n].status = "PENDING" /\ old[n].kind \in Kinds
            /\ old[n].org = inv.org /\ old[n].end = inv.end
        BY <3>1, <4>2 DEF Evolved, Invoice, Register!Pending
      <4>. QED
        BY <3>1, <4>1, <4>2, <4>3 DEF Unrivalled
    <3>. QED
      BY <1>4, <1>7, <3>1 DEF Register!MayIssue
  <2>6. inv \in Register!Invoice
    BY <2>2 DEF Invoice, Register!Invoice
  <2>. QED
    BY <1>5, <2>1, <2>3, <2>4, <2>5, <2>6 DEF Register!RegNext, Register!Issue
<1>. QED
  BY <1>6, <1>7

\* The billing system implements the invoice register: every commit is one atomic
\* step of it, and nothing else touches the table.
THEOREM ImplementsRegister == Spec => RegisterSpec
<1>1. Init => Register!RegInit
  BY DEF Init, Register!RegInit
<1>2. IInv /\ [Next]_vars => [Register!RegNext]_invoices
  BY OnlyCommitWrites, CommitIsRegistered
<1>. QED
  BY <1>1, <1>2, Invariance, PTL DEF Spec, RegisterSpec, Register!RegSpec

------------------------------------------------------------------------------
(* What a unit of work makes of the organizations                           *)

\* An invoice that was applied is in one of these, unless it was swept since
Final == {"PAID", "CANCELLED"}

\* The unit records the payment of an invoice that was open when it was read
Pays(s, new, num) ==
  num \in DOMAIN s.invs /\ s.invs[num].status \notin Final /\ new.invs[num].status = "PAID"

Adds(s, new, num, o) ==
  /\ num # 0 /\ s.invs[num].org = o
  /\ new.orgs[o].credits <= s.orgs[o].credits + PlanCredits[s.invs[num].plan]

\* It brings no organization back; it leaves the credits, sets them to what an
\* organization starts with at most, or adds those of the invoice it records
Made(s, new, num) ==
  /\ num # 0 => Pays(s, new, num)
  /\ \A o \in Orgs :
       /\ s.orgs[o].deleted => new.orgs[o].deleted
       /\ \/ new.orgs[o].credits = s.orgs[o].credits
          \/ new.orgs[o].credits <= InitCredits
          \/ Adds(s, new, num, o)

\* Process p has opened a unit of work from what it read
Opened(p) ==
  \E s \in {Db, View(p)} :
    tx'[p].open /\ tx'[p].old = s /\ Made(s, tx'[p].new, tx'[p].num)

Proper(p) == tx'[p] = tx[p] \/ tx'[p] = NoTx \/ Opened(p)

LEMMA SameMade == ASSUME NEW s PROVE Made(s, s, 0)
BY DEF Made

\* The units of work of other processes are left alone.
LEMMA OneMoves ==
  ASSUME TypeOK, NEW p \in Procs, NEW t, tx' = [tx EXCEPT ![p] = t],
         t = NoTx \/ t = tx[p] \/
           \E s \in {Db, View(p)} : t.open /\ t.old = s /\ Made(s, t.new, t.num)
  PROVE  \A q \in Procs : Proper(q)
<1>1. tx \in [Procs -> Tx]
  BY DEF TypeOK
<1>2. tx'[p] = t /\ \A q \in Procs \ {p} : tx'[q] = tx[q]
  BY <1>1
<1>. QED
  BY <1>2 DEF Proper, Opened

LEMMA NoneMoves == ASSUME UNCHANGED tx PROVE \A q \in Procs : Proper(q)
BY DEF Proper

LEMMA DropMoves ==
  ASSUME TypeOK, NEW p \in Procs, tx' = [tx EXCEPT ![p] = NoTx] PROVE \A q \in Procs : Proper(q)
BY OneMoves

LEMMA HoldMoves ==
  ASSUME TypeOK, NEW p \in Procs, NEW s \in {Db, View(p)}, Hold(p, s)
  PROVE  \A q \in Procs : Proper(q)
<1>. DEFINE t == [NoTx EXCEPT !.open = TRUE, !.old = s, !.new = s]
<1>1. t.open /\ t.old = s /\ t.new = s /\ t.num = 0
  BY DEF NoTx
<1>2. tx' = [tx EXCEPT ![p] = t]
  BY DEF Hold
<1>. HIDE DEF t
<1>. QED
  BY <1>1, <1>2, SameMade, OneMoves

LEMMA BeginMoves ==
  ASSUME TypeOK, NEW p \in Procs, NEW s \in {Db, View(p)}, NEW new, NEW insert, NEW next,
         NEW fail, NEW num, Begin(p, s, new, insert, next, fail, num), Made(s, new, num)
  PROVE  \A q \in Procs : Proper(q)
<1>. DEFINE t == [open |-> TRUE, old |-> s, new |-> new, insert |-> insert,
                  next |-> next, fail |-> fail, num |-> num]
<1>1. t.open /\ t.old = s /\ t.new = new /\ t.num = num
  OBVIOUS
<1>2. tx' = [tx EXCEPT ![p] = t]
  BY DEF Begin
<1>. HIDE DEF t
<1>. QED
  BY <1>1, <1>2, OneMoves

LEMMA OrgsKept ==
  ASSUME NEW s, NEW new, new.orgs = s.orgs PROVE Made(s, new, 0)
BY DEF Made

\* Applying a purchase adds the credits of its plan at most
LEMMA ActivatedCredits ==
  ASSUME TypeOK, NEW org \in Organization, NEW inv \in Invoice
  PROVE  /\ Activated(org, inv).deleted = org.deleted
         /\ Activated(org, inv).credits <= org.credits + PlanCredits[inv.plan]
<1>1. /\ org.credits \in Nat /\ PlanCredits[inv.plan] \in Nat
      /\ org.plan # NoPlan => PlanCredits[org.plan] \in Nat
  BY BillingAssumption DEF BillingAssumption, Organization, Invoice
<1>2. IncludedCredits(org.plan) \in Nat
  BY <1>1 DEF IncludedCredits
<1>3. Extra(PlanCredits[inv.plan], IncludedCredits(org.plan)) <= PlanCredits[inv.plan]
  BY <1>1, <1>2 DEF Extra
<1>4. Extra(PlanCredits[inv.plan], IncludedCredits(org.plan)) \in Nat
  BY <1>1, <1>2 DEF Extra
<1>5. CASE inv.kind = "upgrade"
  <2>1. /\ Activated(org, inv).deleted = org.deleted
        /\ Activated(org, inv).credits =
             org.credits + Extra(PlanCredits[inv.plan], IncludedCredits(org.plan))
    BY <1>5 DEF Activated, Organization
  <2>. QED
    BY <1>1, <1>3, <1>4, <2>1
<1>6. CASE inv.kind # "upgrade"
  <2>1. SwitchedOn(org) \in Organization /\ SwitchedOn(org).credits = org.credits
        /\ SwitchedOn(org).deleted = org.deleted
    BY DEF SwitchedOn, Organization
  <2>2. Activated(org, inv).deleted = org.deleted
        /\ Activated(org, inv).credits = org.credits + PlanCredits[inv.plan]
    BY <1>6, <2>1 DEF Activated, Organization
  <2>. QED
    BY <1>1, <2>2
<1>. QED
  BY <1>5, <1>6

\* A confirmation adds the credits of the invoice it records, if that was open.
LEMMA MarkInvoicePaidMoves ==
  ASSUME TypeOK, NEW p \in Procs, NEW s \in {Db, View(p)}, NEW n \in DOMAIN s.invs, NEW next,
         MarkInvoicePaid(p, s, n, next)
  PROVE  \A q \in Procs : Proper(q)
<1>. DEFINE inv == s.invs[n]
            org == IF Activates(inv) THEN Activated(s.orgs[inv.org], inv) ELSE s.orgs[inv.org]
            new == [orgs |-> [s.orgs EXCEPT ![inv.org] = [org EXCEPT !.pay = "PAID"]],
                    invs |-> [s.invs EXCEPT ![n].status = "PAID"]]
            num == IF Activates(inv) THEN n ELSE 0
<1>1. s \in Snapshot
  BY DbType, ViewType
<1>2. /\ s.orgs \in [Orgs -> Organization] /\ s.invs \in Seq(Invoice) /\ inv \in Invoice
      /\ inv.org \in Orgs /\ s.orgs[inv.org] \in Organization
  <2>1. s.orgs \in [Orgs -> Organization] /\ s.invs \in Seq(Invoice)
    BY <1>1 DEF Snapshot
  <2>2. inv \in Invoice
    BY <2>1, ElementOfSeq
  <2>. QED
    BY <2>1, <2>2 DEF Invoice
<1>3. Begin(p, s, new, <<>>, next, next, num)
  BY DEF MarkInvoicePaid
<1>4. num # 0 => Pays(s, new, num)
  BY <1>2 DEF Activates, Pays, Final, Invoice
<1>5. /\ org.deleted = s.orgs[inv.org].deleted
      /\ org.credits = s.orgs[inv.org].credits \/
           (Activates(inv) /\ org.credits <= s.orgs[inv.org].credits + PlanCredits[inv.plan])
  <2>. HIDE DEF inv
  <2>. QED
    BY <1>2, ActivatedCredits
<1>6. org \in Organization
  <2>. HIDE DEF inv
  <2>. QED
    BY <1>2, ActivatedType, BillingAssumption
<1>7. ASSUME NEW o \in Orgs
      PROVE  /\ new.orgs[o].deleted = s.orgs[o].deleted
             /\ new.orgs[o].credits = s.orgs[o].credits \/ Adds(s, new, num, o)
  <2>1. n # 0
    BY <1>2
  <2>2. CASE o = inv.org
    <3>1. new.orgs[o] = [org EXCEPT !.pay = "PAID"]
      BY <1>2, <2>2
    <3>2. new.orgs[o].deleted = org.deleted /\ new.orgs[o].credits = org.credits
      <4>. HIDE DEF org, new
      <4>. QED
        BY <1>6, <3>1 DEF Organization
    <3>. HIDE DEF org, new
    <3>. QED
      BY <1>5, <2>1, <2>2, <3>2 DEF Adds
  <2>3. CASE o # inv.org
    BY <1>2, <2>3
  <2>. QED
    BY <2>2, <2>3
<1>8. Made(s, new, num)
  <2>. HIDE DEF new, num
  <2>. QED
    BY <1>4, <1>7 DEF Made
<1>. HIDE DEF new, num
<1>. QED
  BY <1>3, <1>8, BeginMoves

LEMMA WriteOrgMoves ==
  ASSUME TypeOK, NEW r \in Procs, NEW o \in Orgs, NEW org, NEW next, WriteOrg(r, o, org, next),
         orgs[o].deleted => org.deleted,
         org.credits = orgs[o].credits \/ org.credits <= InitCredits
  PROVE  \A q \in Procs : Proper(q)
<1>. DEFINE new == [Db EXCEPT !.orgs[o] = org]
<1>1. orgs \in [Orgs -> Organization]
  BY DEF TypeOK
<1>2. \A q \in Orgs : new.orgs[q] = IF q = o THEN org ELSE orgs[q]
  BY <1>1 DEF Db
<1>3. Begin(r, Db, new, <<>>, next, "idle", 0)
  BY DEF WriteOrg
<1>4. Db.orgs = orgs
  BY DEF Db
<1>. HIDE DEF new
<1>5. Made(Db, new, 0)
  BY <1>2, <1>4 DEF Made
<1>. QED
  BY <1>3, <1>5, BeginMoves

LEMMA ViewOrgs ==
  ASSUME TypeOK, NEW p \in Procs, NEW s \in {Db, View(p)}
  PROVE  s.orgs \in [Orgs -> Organization] /\ [s EXCEPT !.orgs = s.orgs] = s
         /\ \A x : [s EXCEPT !.orgs = x].orgs = x /\ [s EXCEPT !.invs = x].orgs = s.orgs
BY DbType, ViewType DEF Snapshot

LEMMA InvoiceLoopMoves ==
  ASSUME TypeOK, NEW p \in Procs, NEW rest, InvoiceLoop(p, rest)
  PROVE  \A q \in Procs : Proper(q)
<1>. DEFINE s == View(p)
<1>1. Hold(p, s) \/ \E insert : Begin(p, s, s, insert, "invoicing", "reminders", 0)
  BY DEF InvoiceLoop
<1>. QED
  BY <1>1, HoldMoves, BeginMoves, SameMade

LEMMA SweepOverdueMoves ==
  ASSUME TypeOK, NEW p \in Procs, SweepOverdue(p)
  PROVE  \A q \in Procs : Proper(q)
<1>. DEFINE s    == View(p)
            invs == [n \in DOMAIN s.invs |-> Swept(s.invs[n])]
            new  == [s EXCEPT !.invs = invs]
<1>1. Begin(p, s, new, <<>>, "suspend", "suspend", 0) \/ Hold(p, s)
  BY DEF SweepOverdue
<1>. HIDE DEF invs
<1>2. Made(s, new, 0)
  BY ViewOrgs, OrgsKept
<1>. HIDE DEF new
<1>. QED
  BY <1>1, <1>2, HoldMoves, BeginMoves

LEMMA AutoSuspendMoves ==
  ASSUME TypeOK, NEW p \in Procs, AutoSuspend(p)
  PROVE  \A q \in Procs : Proper(q)
<1>. DEFINE s   == View(p)
            all == [o \in Orgs |-> Suspended(s.orgs[o])]
            new == [s EXCEPT !.orgs = all]
<1>1. Begin(p, s, new, <<>>, "idle", "idle", 0) \/ tx' = [tx EXCEPT ![p] = NoTx]
  BY DEF AutoSuspend
<1>2. s.orgs \in [Orgs -> Organization]
  BY ViewOrgs
<1>3. ASSUME NEW o \in Orgs
      PROVE  all[o].deleted = s.orgs[o].deleted /\ all[o].credits = s.orgs[o].credits
  BY <1>2 DEF Suspended, Organization
<1>4. new.orgs = all
  BY ViewOrgs
<1>. HIDE DEF all, new, s
<1>5. Made(s, new, 0)
  BY <1>3, <1>4 DEF Made
<1>. USE DEF s
<1>. QED
  BY <1>1, <1>5, DropMoves, BeginMoves

LEMMA CycleStepMoves ==
  ASSUME TypeOK, NEW p \in Procs, CycleStep(p), ~Commit(p)
  PROVE  \A q \in Procs : Proper(q)
<1>1. CASE StartCycle(p)
  BY <1>1, InvoiceLoopMoves DEF StartCycle
<1>2. CASE ContinueInvoicing(p)
  BY <1>2, InvoiceLoopMoves DEF ContinueInvoicing
<1>3. CASE SendReminders(p)
  BY <1>3, HoldMoves DEF SendReminders
<1>4. CASE CommitFails(p)
  BY <1>4, DropMoves DEF CommitFails, Drop
<1>. QED
  BY <1>1, <1>2, <1>3, <1>4, SweepOverdueMoves, AutoSuspendMoves DEF CycleStep

LEMMA ChoosePlanMoves ==
  ASSUME TypeOK, NEW r \in Procs, NEW o, NEW plan, ChoosePlan(r, o, plan)
  PROVE  \A q \in Procs : Proper(q)
<1>1. PICK invs, insert : Begin(r, Db, [Db EXCEPT !.invs = invs], insert, "link", "idle", 0)
  BY DEF ChoosePlan
<1>2. Made(Db, [Db EXCEPT !.invs = invs], 0)
  BY ViewOrgs, OrgsKept
<1>. QED
  BY <1>1, <1>2, BeginMoves

LEMMA SubscribeMoves ==
  ASSUME TypeOK, NEW r \in Procs, NEW o \in Orgs, Subscribe(r, o)
  PROVE  \A q \in Procs : Proper(q)
<1>1. PICK plan \in Plans \cup {NoPlan}, expiry \in FormDays \cup {NoDate},
         credits \in {InitCredits, orgs[o].credits}, pay \in FormPayments :
        \E next : WriteOrg(r, o, [orgs[o] EXCEPT !.plan = plan, !.expiry = expiry,
                                       !.credits = credits, !.pay = pay], next)
  BY Zenon DEF Subscribe
<1>2. orgs[o] \in Organization /\ InitCredits \in Nat
  BY BillingAssumption DEF BillingAssumption, TypeOK
<1>3. PICK next : WriteOrg(r, o, [orgs[o] EXCEPT !.plan = plan, !.expiry = expiry,
                                       !.credits = credits, !.pay = pay], next)
  BY <1>1
<1>4. InitCredits <= InitCredits
  BY <1>2
<1>5. [orgs[o] EXCEPT !.plan = plan, !.expiry = expiry, !.credits = credits, !.pay = pay].deleted
        = orgs[o].deleted
  BY <1>2 DEF Organization
<1>6. [orgs[o] EXCEPT !.plan = plan, !.expiry = expiry, !.credits = credits, !.pay = pay].credits
        = credits
  BY <1>2 DEF Organization
<1>. DEFINE org == [orgs[o] EXCEPT !.plan = plan, !.expiry = expiry, !.credits = credits,
                                  !.pay = pay]
<1>7. WriteOrg(r, o, org, next) /\ org.deleted = orgs[o].deleted
      /\ (org.credits = orgs[o].credits \/ org.credits <= InitCredits)
  BY <1>1, <1>3, <1>4, <1>5, <1>6, Zenon
<1>. HIDE DEF org
<1>. QED
  BY <1>7, WriteOrgMoves

LEMMA OrgRequestMoves ==
  ASSUME TypeOK, NEW r \in Procs, NEW o \in Orgs, OrgRequest(r, o)
  PROVE  \A q \in Procs : Proper(q)
<1>0. orgs[o] \in Organization /\ InitCredits \in Nat
  BY BillingAssumption DEF BillingAssumption, TypeOK
<1>1. CASE StartSync(r, o)
  BY <1>1, HoldMoves DEF StartSync
<1>2. CASE GenerateInvoice(r, o)
  BY <1>2, BeginMoves, SameMade DEF GenerateInvoice
<1>3. CASE Suspend(r, o)
  BY <1>0, <1>3, WriteOrgMoves DEF Suspend, Organization
<1>4. CASE Activate(r, o)
  BY <1>0, <1>4, WriteOrgMoves DEF Activate, Organization
<1>5. CASE Delete(r, o)
  BY <1>0, <1>5, WriteOrgMoves DEF Delete, Organization
<1>6. CASE Edit(r, o)
  <2>. DEFINE org(status) == [orgs[o] EXCEPT !.plan = NoPlan, !.expiry = NoDate, !.credits = 0,
                                             !.pay = "NULL", !.status = status]
  <2>1. PICK status \in {0, 1} : WriteOrg(r, o, org(status), "idle")
    BY <1>6 DEF Edit
  <2>2. org(status).deleted = orgs[o].deleted /\ org(status).credits = 0 /\ 0 <= InitCredits
    BY <1>0 DEF Organization
  <2>. HIDE DEF org
  <2>. QED
    BY <2>1, <2>2, WriteOrgMoves
<1>. QED
  BY <1>1, <1>2, <1>3, <1>4, <1>5, <1>6, SubscribeMoves, ChoosePlanMoves DEF OrgRequest

LEMMA InvoiceRequestMoves ==
  ASSUME TypeOK, NEW r \in Procs, NEW n, InvoiceRequest(r, n)
  PROVE  \A q \in Procs : Proper(q)
<1>1. Db.invs = invoices
  BY DEF Db
<1>2. CASE Webhook(r, n)
  <2>1. CASE Unrecorded(invoices[n])
    BY <1>1, <1>2, <2>1, MarkInvoicePaidMoves DEF Webhook
  <2>2. CASE ~Unrecorded(invoices[n])
    BY <1>2, <2>2, NoneMoves DEF Webhook
  <2>. QED
    BY <2>1, <2>2
<1>3. CASE MarkPaid(r, n)
  BY <1>1, <1>3, MarkInvoicePaidMoves DEF MarkPaid
<1>4. CASE PayInvoice(r, n)
  BY <1>4, NoneMoves DEF PayInvoice
<1>. QED
  BY <1>2, <1>3, <1>4 DEF InvoiceRequest

LEMMA ExtendMoves ==
  ASSUME TypeOK, NEW r \in Procs, Extend(r)
  PROVE  \A q \in Procs : Proper(q)
<1>1. PICK chosen, days :
        Begin(r, Db, [Db EXCEPT !.orgs = [o \in Orgs |->
                IF o \in chosen THEN [orgs[o] EXCEPT !.expiry = ExtendedFrom(@) + days]
                                ELSE orgs[o]]], <<>>, "idle", "idle", 0)
  BY DEF Extend
<1>. DEFINE all == [o \in Orgs |->
                IF o \in chosen THEN [orgs[o] EXCEPT !.expiry = ExtendedFrom(@) + days]
                                ELSE orgs[o]]
            new == [Db EXCEPT !.orgs = all]
<1>2. orgs \in [Orgs -> Organization] /\ Db.orgs = orgs
  BY DEF TypeOK, Db
<1>3. ASSUME NEW o \in Orgs
      PROVE  all[o].deleted = orgs[o].deleted /\ all[o].credits = orgs[o].credits
  BY <1>2 DEF Organization
<1>4. new.orgs = all
  BY ViewOrgs
<1>5. Begin(r, Db, new, <<>>, "idle", "idle", 0)
  BY <1>1
<1>. HIDE DEF all, new
<1>6. Made(Db, new, 0)
  BY <1>2, <1>3, <1>4 DEF Made
<1>. QED
  BY <1>5, <1>6, BeginMoves

LEMMA RequestStepMoves ==
  ASSUME TypeOK, NEW r \in Procs, RequestStep(r)
  PROVE  \A q \in Procs : Proper(q)
<1>1. CASE SyncInvoice(r)
  BY <1>1, MarkInvoicePaidMoves DEF SyncInvoice
<1>2. CASE EndSync(r)
  BY <1>2, DropMoves DEF EndSync, Drop
<1>3. CASE OpenLink(r)
  BY <1>3, DropMoves DEF OpenLink, Drop
<1>4. CASE Prorate(r)
  <2>1. UNCHANGED tx \/ \E insert : Begin(r, Db, Db, insert, "idle", "idle", 0)
    BY <1>4 DEF Prorate
  <2>. QED
    BY <2>1, NoneMoves, BeginMoves, SameMade
<1>5. CASE Answer(r)
  BY <1>5, DropMoves DEF Answer, Drop
<1>. QED
  BY <1>1, <1>2, <1>3, <1>4, <1>5, ExtendMoves DEF RequestStep

\* Every step is a commit, or leaves the tables alone and at most opens units of work
\* that were made from what was read.
LEMMA Moves ==
  ASSUME TypeOK, [Next]_vars
  PROVE  \/ \E p \in Procs : Commit(p)
         \/ UNCHANGED tables /\ \A q \in Procs : Proper(q)
<1>. USE DEF env, tables, work
<1>1. ASSUME NEW p \in Procs, CycleStep(p), ~Commit(p)
      PROVE  UNCHANGED tables /\ \A q \in Procs : Proper(q)
  <2>1. UNCHANGED tables
    BY <1>1 DEF CycleStep, StartCycle, ContinueInvoicing, SendReminders, SweepOverdue, AutoSuspend,
                CommitFails
  <2>. QED
    BY <1>1, <2>1, CycleStepMoves
<1>2. ASSUME NEW p \in Procs, Crash(p)
      PROVE  UNCHANGED tables /\ \A q \in Procs : Proper(q)
  BY <1>2, DropMoves DEF Crash, Drop
<1>3. ASSUME NEW r \in Requests, RequestStep(r)
      PROVE  UNCHANGED tables /\ \A q \in Procs : Proper(q)
  <2>1. UNCHANGED tables
    BY <1>3 DEF RequestStep, SyncInvoice, EndSync, OpenLink, Prorate, Extend,
              Answer
  <2>. QED
    BY <1>3, <2>1, RequestStepMoves DEF Procs
<1>4. ASSUME NEW r \in Requests, NEW o \in Orgs, OrgRequest(r, o)
      PROVE  UNCHANGED tables /\ \A q \in Procs : Proper(q)
  <2>1. UNCHANGED tables
    BY <1>4 DEF OrgRequest, StartSync, GenerateInvoice, Subscribe, Suspend, Activate, Delete, Edit,
                ChoosePlan
  <2>. QED
    BY <1>4, <2>1, OrgRequestMoves DEF Procs
<1>5. ASSUME NEW r \in Requests, NEW n \in 1 .. MaxInvoices, InvoiceRequest(r, n)
      PROVE  UNCHANGED tables /\ \A q \in Procs : Proper(q)
  <2>1. UNCHANGED tables
    BY <1>5 DEF InvoiceRequest, Webhook, MarkPaid, PayInvoice
  <2>. QED
    BY <1>5, <2>1, InvoiceRequestMoves DEF Procs
<1>6. ASSUME NEW n \in 1 .. MaxInvoices, CustomerPays(n)
      PROVE  UNCHANGED tables /\ \A q \in Procs : Proper(q)
  BY <1>6, NoneMoves DEF CustomerPays
<1>7. CASE NextDay
  BY <1>7, NoneMoves DEF NextDay
<1>8. CASE UNCHANGED vars
  BY <1>8, NoneMoves DEF vars
<1>. QED
  BY <1>1, <1>2, <1>3, <1>4, <1>5, <1>6, <1>7, <1>8 DEF Next

------------------------------------------------------------------------------
(* Credits                                                                  *)

WorthOf(invs) == [n \in DOMAIN invs |-> PlanCredits[invs[n].plan]]

BoughtOf(applied, invs, o) == {n \in applied : invs[n].org = o}

\* What a snapshot knows of them
KnownOf(applied, s, o) ==
  {n \in applied \cap DOMAIN s.invs : s.invs[n].org = o /\ s.invs[n].status \in Final}

\* A snapshot has no more credits than it knows to be bought
FairRead(s, applied, again, invs) ==
  \A o \in Orgs : BoughtOf(applied, invs, o) \cap again = {} =>
    s.orgs[o].credits <= InitCredits + SumFunctionOnSet(WorthOf(invs), KnownOf(applied, s, o))

Stands ==
  /\ activated \subseteq DOMAIN invoices
  /\ \A n \in activated \ reopened : invoices[n].status \in Final

FairUnits ==
  \A p \in Procs : tx[p].open =>
    FairRead(tx[p].old, activated, reopened, invoices) /\ Made(tx[p].old, tx[p].new, tx[p].num)

Credited == Stands /\ GrantedOnce /\ FairUnits

LEMMA WorthNat ==
  ASSUME NEW invs \in Seq(Invoice), NEW S \in SUBSET DOMAIN invs
  PROVE  /\ IsFiniteSet(S)
         /\ \A n \in S : /\ WorthOf(invs)[n] = PlanCredits[invs[n].plan]
                        /\ WorthOf(invs)[n] \in Nat
<1>1. DOMAIN invs = 1 .. Len(invs) /\ IsFiniteSet(1 .. Len(invs))
  BY FS_Interval
<1>2. IsFiniteSet(S)
  BY <1>1, FS_Subset
<1>3. ASSUME NEW n \in S
      PROVE  WorthOf(invs)[n] = PlanCredits[invs[n].plan] /\ PlanCredits[invs[n].plan] \in Nat
  <2>1. invs[n] \in Invoice
    BY <1>1, ElementOfSeq
  <2>. QED
    BY <2>1, BillingAssumption DEF WorthOf, Invoice, BillingAssumption
<1>. QED
  BY <1>2, <1>3

LEMMA SameInvoice ==
  ASSUME NEW a \in Seq(Invoice), NEW b \in Seq(Invoice), Later(a, b)
  PROVE  /\ DOMAIN a \subseteq DOMAIN b
         /\ \A n \in DOMAIN a :
              /\ a[n] \in Invoice /\ b[n] \in Invoice
              /\ a[n].org = b[n].org /\ a[n].plan = b[n].plan
              /\ b[n].status = "PENDING" => a[n].status = "PENDING"
<1>1. /\ DOMAIN a = 1 .. Len(a) /\ DOMAIN b = 1 .. Len(b) /\ Len(a) \in Nat /\ Len(b) \in Nat
      /\ Len(a) <= Len(b)
  BY DEF Later
<1>2. DOMAIN a \subseteq DOMAIN b
  BY <1>1
<1>3. ASSUME NEW n \in DOMAIN a
      PROVE  /\ a[n] \in Invoice /\ b[n] \in Invoice
             /\ a[n].org = b[n].org /\ a[n].plan = b[n].plan
             /\ b[n].status = "PENDING" => a[n].status = "PENDING"
  <2>1. a[n] \in Invoice /\ b[n] \in Invoice
    BY <1>1, <1>2, ElementOfSeq
  <2>2. Evolved(a[n], b[n])
    BY <1>1 DEF Later
  <2>. QED
    BY <2>1, <2>2 DEF Evolved, Invoice
<1>. QED
  BY <1>2, <1>3

\* It stays so while more is bought and more rows are written.
LEMMA FairLater ==
  ASSUME NEW s \in Snapshot, NEW invs \in Seq(Invoice), NEW invs2 \in Seq(Invoice),
         NEW a, NEW a2, NEW r, NEW r2, FairRead(s, a, r, invs),
         a \subseteq a2, r \subseteq r2, a \subseteq DOMAIN invs,
         Later(invs, invs2), Later(s.invs, invs2)
  PROVE  FairRead(s, a2, r2, invs2)
<1>. SUFFICES ASSUME NEW o \in Orgs, BoughtOf(a2, invs2, o) \cap r2 = {}
              PROVE  s.orgs[o].credits <=
                       InitCredits + SumFunctionOnSet(WorthOf(invs2), KnownOf(a2, s, o))
  BY DEF FairRead
<1>. DEFINE K  == KnownOf(a, s, o)
            K2 == KnownOf(a2, s, o)
<1>1. s.invs \in Seq(Invoice) /\ s.orgs[o].credits \in Nat /\ InitCredits \in Nat
  BY BillingAssumption DEF Snapshot, Organization, BillingAssumption
<1>2. BoughtOf(a, invs, o) \cap r = {}
  <2>1. \A n \in a : invs[n].org = invs2[n].org
    BY SameInvoice
  <2>. QED
    BY <2>1 DEF BoughtOf
<1>3. K \subseteq K2 /\ K \subseteq DOMAIN invs /\ K2 \subseteq DOMAIN s.invs
  BY DEF KnownOf
<1>4. K2 \subseteq DOMAIN invs2 /\ K \subseteq DOMAIN invs2
  BY <1>1, <1>3, SameInvoice
<1>5. s.orgs[o].credits <= InitCredits + SumFunctionOnSet(WorthOf(invs), K)
  BY <1>2 DEF FairRead
<1>. HIDE DEF K, K2
<1>6. ASSUME NEW n \in K PROVE WorthOf(invs)[n] = WorthOf(invs2)[n]
  <2>1. invs[n].plan = invs2[n].plan
    BY <1>3, SameInvoice
  <2>2. WorthOf(invs)[n] = PlanCredits[invs[n].plan]
    BY <1>3, WorthNat
  <2>3. WorthOf(invs2)[n] = PlanCredits[invs2[n].plan]
    BY <1>4, WorthNat
  <2>. QED
    BY <2>1, <2>2, <2>3
<1>7. SumFunctionOnSet(WorthOf(invs), K) = SumFunctionOnSet(WorthOf(invs2), K)
  BY <1>3, <1>6, WorthNat, SumsAgree
<1>8. /\ SumFunctionOnSet(WorthOf(invs2), K) <= SumFunctionOnSet(WorthOf(invs2), K2)
      /\ SumFunctionOnSet(WorthOf(invs2), K) \in Nat /\ SumFunctionOnSet(WorthOf(invs2), K2) \in Nat
  BY <1>3, <1>4, WorthNat, SumGrows, SumNat
<1>9. s.orgs[o].credits <= InitCredits + SumFunctionOnSet(WorthOf(invs2), K2)
  BY <1>1, <1>5, <1>7, <1>8
<1>. QED
  BY <1>9 DEF K2

\* Such credits are within what was bought, and an invoice not yet known adds its own.
LEMMA FairBounds ==
  ASSUME NEW s \in Snapshot, NEW invs \in Seq(Invoice), NEW a, NEW r, NEW o \in Orgs,
         FairRead(s, a, r, invs), a \subseteq DOMAIN invs, Later(s.invs, invs),
         BoughtOf(a, invs, o) \cap r = {}
  PROVE  LET total == SumFunctionOnSet(WorthOf(invs), BoughtOf(a, invs, o)) IN
         /\ total \in Nat /\ s.orgs[o].credits <= InitCredits + total
         /\ \A n \in BoughtOf(a, invs, o) \ KnownOf(a, s, o) :
              s.orgs[o].credits + PlanCredits[invs[n].plan] <= InitCredits + total
<1>. DEFINE K == KnownOf(a, s, o)
            B == BoughtOf(a, invs, o)
            Sum(ns) == SumFunctionOnSet(WorthOf(invs), ns)
<1>1. s.invs \in Seq(Invoice) /\ s.orgs[o].credits \in Nat /\ InitCredits \in Nat
  BY BillingAssumption DEF Snapshot, Organization, BillingAssumption
<1>2. K \subseteq B /\ B \subseteq DOMAIN invs
  <2>1. \A n \in DOMAIN s.invs : s.invs[n].org = invs[n].org
    BY <1>1, SameInvoice
  <2>. QED
    BY <2>1 DEF KnownOf, BoughtOf
<1>3. s.orgs[o].credits <= InitCredits + Sum(K)
  BY DEF FairRead
<1>. HIDE DEF K, B
<1>4. \A ns \in SUBSET B :
        /\ Sum(ns) \in Nat
        /\ \A ms \in SUBSET ns : Sum(ms) <= Sum(ns)
        /\ \A n \in ns : Sum(ns) = WorthOf(invs)[n] + Sum(ns \ {n})
  BY <1>2, WorthNat, SumNat, SumGrows, SumTakesOut
<1>. HIDE DEF Sum
<1>5. Sum(K) \in Nat /\ Sum(B) \in Nat /\ Sum(K) <= Sum(B)
  BY <1>2, <1>4
<1>6. ASSUME NEW n \in B \ K
      PROVE  s.orgs[o].credits + PlanCredits[invs[n].plan] <= InitCredits + Sum(B)
  <2>1. WorthOf(invs)[n] = PlanCredits[invs[n].plan] /\ WorthOf(invs)[n] \in Nat
    BY <1>2, WorthNat
  <2>2. Sum(B) = WorthOf(invs)[n] + Sum(B \ {n}) /\ Sum(B \ {n}) \in Nat
    BY <1>4
  <2>3. Sum(K) <= Sum(B \ {n})
    <3>1. K \subseteq B \ {n} /\ B \ {n} \subseteq B
      BY <1>2
    <3>. QED
      BY <1>4, <3>1
  <2>. DEFINE w == PlanCredits[invs[n].plan]
              c == s.orgs[o].credits
              rest == Sum(B \ {n})
  <2>4. w \in Nat /\ c \in Nat /\ rest \in Nat /\ Sum(B) = w + rest /\ Sum(K) <= rest
    BY <1>1, <2>1, <2>2, <2>3
  <2>5. c <= InitCredits + Sum(K)
    BY <1>3
  <2>. HIDE DEF w, c, rest
  <2>6. c + w <= InitCredits + Sum(B)
    BY <1>1, <1>5, <2>4, <2>5
  <2>. QED
    BY <2>6 DEF w, c
<1>7. Sum(B) \in Nat /\ s.orgs[o].credits <= InitCredits + Sum(B)
  BY <1>1, <1>3, <1>5
<1>. QED
  BY <1>6, <1>7 DEF Sum, B, K

\* What is read now has the credits that were bought.
LEMMA FairNow ==
  ASSUME Stands, GrantedOnce
  PROVE  FairRead(Db, activated, reopened, invoices)
<1>. SUFFICES ASSUME NEW o \in Orgs, BoughtOf(activated, invoices, o) \cap reopened = {}
              PROVE  Db.orgs[o].credits <=
                       InitCredits + SumFunctionOnSet(WorthOf(invoices), KnownOf(activated, Db, o))
  BY DEF FairRead
<1>1. Db.orgs = orgs /\ Db.invs = invoices
  BY DEF Db
<1>2. BoughtOf(activated, invoices, o) = Bought(o) /\ WorthOf(invoices) = Worth
  BY DEF BoughtOf, Bought, WorthOf, Worth
<1>3. KnownOf(activated, Db, o) = Bought(o)
  BY <1>1, <1>2 DEF KnownOf, Bought, Stands
<1>4. orgs[o].credits <= InitCredits + SumFunctionOnSet(Worth, Bought(o))
  BY <1>2 DEF GrantedOnce
<1>. QED
  BY <1>1, <1>2, <1>3, <1>4

LEMMA ViewFair ==
  ASSUME Credited, NEW p \in Procs
  PROVE  FairRead(View(p), activated, reopened, invoices)
BY FairNow DEF Credited, FairUnits, View

LEMMA CreditedQuiet ==
  ASSUME IInv, Credited, UNCHANGED tables, \A q \in Procs : Proper(q)
  PROVE  Credited'
<1>1. /\ orgs' = orgs /\ invoices' = invoices /\ activated' = activated /\ reopened' = reopened
  BY DEF tables
<1>2. Stands'
  BY <1>1, Zenon DEF Credited, Stands
<1>3. GrantedOnce'
  BY <1>1, Zenon DEF Credited, GrantedOnce, Bought, Worth
<1>4. ASSUME NEW p \in Procs, tx'[p].open
      PROVE  /\ FairRead(tx'[p].old, activated, reopened, invoices)
             /\ Made(tx'[p].old, tx'[p].new, tx'[p].num)
  <2>1. CASE tx'[p] = tx[p]
    BY <1>4, <2>1, Zenon DEF Credited, FairUnits
  <2>2. tx'[p] # NoTx
    BY <1>4 DEF NoTx
  <2>3. CASE Opened(p)
    <3>1. FairRead(Db, activated, reopened, invoices)
      BY FairNow DEF Credited
    <3>. QED
      BY <2>3, <3>1, ViewFair DEF Opened
  <2>. QED
    BY <2>1, <2>2, <2>3 DEF Proper
<1>5. FairUnits'
  BY <1>1, <1>4, Zenon DEF FairUnits
<1>. QED
  BY <1>2, <1>3, <1>5 DEF Credited

\* A commit writes credits that others may have raised since: either it leaves them, or
\* it adds to fewer than are there now the credits of an invoice nobody had counted.
LEMMA CreditedCommit ==
  ASSUME IInv, TypeOK', Credited, NEW p \in Procs, Commit(p)
  PROVE  Credited' /\ \A o \in Orgs : orgs[o].deleted => orgs'[o].deleted
<1>. DEFINE t == tx[p]
            f == FlushInvoices(t)
<1>1. /\ t \in Tx /\ t.open /\ t.num \in Nat /\ t.old \in Snapshot
      /\ t.old.invs \in Seq(Invoice) /\ t.old.orgs \in [Orgs -> Organization]
      /\ t.new.orgs \in [Orgs -> Organization]
  BY DEF IInv, Safe, TypeOK, UnitsOfWorkConsistent, Commit, Tx, TxRecord, Snapshot
<1>2. /\ FairRead(t.old, activated, reopened, invoices) /\ Made(t.old, t.new, t.num)
      /\ Later(t.old.invs, invoices)
  BY <1>1, Zenon DEF Credited, FairUnits, IInv, Safe, UnitsOfWorkConsistent, Consistent
<1>3. /\ invoices \in Seq(Invoice) /\ invoices' \in Seq(Invoice) /\ invoices' = f \o t.insert
      /\ f \in Seq(Invoice) /\ t.insert \in Seq(Invoice)
      /\ Len(f) = Len(invoices) /\ Later(invoices, f)
  BY FlushedTable DEF IInv, TypeOK
<1>4. /\ orgs' = FlushOrgs(t) /\ activated' = activated \cup ({t.num} \ {0})
      /\ reopened' = reopened \cup {n \in activated : invoices'[n].status = "OVERDUE"}
      /\ tx' = [tx EXCEPT ![p] = NoTx]
  BY DEF Commit
<1>. HIDE DEF f
<1>5. Later(invoices, invoices') /\ \A n \in DOMAIN invoices : invoices'[n] = f[n]
  <2>1. \A n \in 1 .. Len(f) : invoices'[n] = f[n]
    BY <1>3
  <2>2. Len(invoices) <= Len(invoices')
    BY <1>3
  <2>. QED
    BY <1>3, <2>1, <2>2 DEF Later
<1>6. ASSUME t.num # 0 PROVE t.num \in DOMAIN invoices' /\ invoices'[t.num].status = "PAID"
  <2>1. Pays(t.old, t.new, t.num)
    BY <1>2, <1>6 DEF Made
  <2>2. t.num \in DOMAIN t.old.invs /\ t.num \in DOMAIN invoices
    BY <1>1, <1>2, <1>3, <2>1, SameInvoice DEF Pays
  <2>3. invoices'[t.num] = Flush(invoices[t.num], t.old.invs[t.num], t.new.invs[t.num])
    BY <1>5, <2>2 DEF f, FlushInvoices
  <2>4. invoices[t.num] \in Invoice
    BY <1>3, <2>2, ElementOfSeq
  <2>5. invoices'[t.num].status = "PAID"
    BY <2>1, <2>3, <2>4 DEF Flush, Pays, Final, Invoice
  <2>. QED
    BY <1>3, <1>5, <2>2, <2>5, SameInvoice
<1>7. activated \subseteq DOMAIN invoices /\ activated' \subseteq DOMAIN invoices'
  BY <1>3, <1>4, <1>5, <1>6, SameInvoice DEF Credited, Stands
<1>8. Stands'
  <2>1. ASSUME NEW n \in activated' \ reopened' PROVE invoices'[n].status \in Final
    <3>1. CASE n \in activated
      <4>1. n \in DOMAIN invoices /\ invoices[n].status \in Final /\ invoices'[n].status # "OVERDUE"
        BY <1>4, <1>7, <2>1, <3>1 DEF Credited, Stands
      <4>2. /\ invoices'[n] \in Invoice
            /\ invoices'[n].status = "PENDING" => invoices[n].status = "PENDING"
        BY <1>3, <1>5, <4>1, SameInvoice
      <4>. QED
        BY <4>1, <4>2 DEF Invoice, Statuses, Final
    <3>2. CASE n \notin activated
      BY <1>4, <1>6, <2>1, <3>2 DEF Final
    <3>. QED
      BY <3>1, <3>2
  <2>. QED
    BY <1>7, <2>1 DEF Stands
<1>9. ASSUME NEW s \in Snapshot, FairRead(s, activated, reopened, invoices), Later(s.invs, invoices)
      PROVE  FairRead(s, activated', reopened', invoices') /\ Later(s.invs, invoices')
  <2>1. s.invs \in Seq(Invoice)
    BY DEF Snapshot
  <2>2. Later(s.invs, invoices')
    BY <1>3, <1>5, <1>9, <2>1, LaterTransitive
  <2>3. activated \subseteq activated' /\ reopened \subseteq reopened'
    BY <1>4
  <2>4. FairRead(s, activated', reopened', invoices')
    BY <1>3, <1>5, <1>7, <1>9, <2>2, <2>3, FairLater
  <2>. QED
    BY <2>2, <2>4
<1>10. FairUnits'
  <2>1. ASSUME NEW q \in Procs, tx'[q].open
        PROVE  /\ FairRead(tx'[q].old, activated', reopened', invoices')
               /\ Made(tx'[q].old, tx'[q].new, tx'[q].num)
    <3>1. q # p /\ tx'[q] = tx[q]
      BY <1>4, <2>1 DEF IInv, TypeOK, NoTx
    <3>2. tx[q].old \in Snapshot
      BY DEF IInv, TypeOK, Tx, TxRecord
    <3>3. /\ FairRead(tx[q].old, activated, reopened, invoices)
          /\ Made(tx[q].old, tx[q].new, tx[q].num) /\ Later(tx[q].old.invs, invoices)
      BY <2>1, <3>1 DEF Credited, FairUnits, IInv, Safe, UnitsOfWorkConsistent, Consistent
    <3>. QED
      BY <1>9, <3>1, <3>2, <3>3
  <2>. QED
    BY <2>1 DEF FairUnits
<1>11. Db \in Snapshot /\ Db.invs = invoices /\ Db.orgs = orgs /\ Later(invoices, invoices)
  BY ViewLater DEF Db
<1>12. /\ FairRead(Db, activated', reopened', invoices')
       /\ FairRead(t.old, activated', reopened', invoices') /\ Later(t.old.invs, invoices')
  <2>1. FairRead(Db, activated, reopened, invoices)
    BY FairNow DEF Credited
  <2>. QED
    BY <1>1, <1>2, <1>9, <1>11, <2>1
<1>13. ASSUME NEW o \in Orgs
       PROVE  /\ orgs'[o].credits = IF t.new.orgs[o].credits # t.old.orgs[o].credits
                                    THEN t.new.orgs[o].credits ELSE orgs[o].credits
              /\ orgs'[o].deleted = IF t.new.orgs[o].deleted # t.old.orgs[o].deleted
                                    THEN t.new.orgs[o].deleted ELSE orgs[o].deleted
              /\ orgs[o].credits \in Nat /\ t.new.orgs[o].credits \in Nat
              /\ t.old.orgs[o].deleted \in BOOLEAN /\ t.new.orgs[o].deleted \in BOOLEAN
  <2>1. orgs[o] \in Organization /\ t.new.orgs[o] \in Organization /\ t.old.orgs[o] \in Organization
    BY <1>1 DEF IInv, TypeOK
  <2>2. orgs'[o] = Flush(orgs[o], t.old.orgs[o], t.new.orgs[o])
    BY <1>4 DEF FlushOrgs
  <2>. QED
    BY <2>1, <2>2 DEF Flush, Organization
<1>14. ASSUME NEW o \in Orgs, orgs[o].deleted PROVE orgs'[o].deleted
  <2>1. t.old.orgs[o].deleted => t.new.orgs[o].deleted
    BY <1>2 DEF Made
  <2>. QED
    BY <1>13, <1>14, <2>1, Zenon
<1>15. ASSUME NEW o \in Orgs, BoughtOf(activated', invoices', o) \cap reopened' = {}
       PROVE  orgs'[o].credits <=
                InitCredits +
                  SumFunctionOnSet(WorthOf(invoices'), BoughtOf(activated', invoices', o))
  <2>. DEFINE B     == BoughtOf(activated', invoices', o)
              total == SumFunctionOnSet(WorthOf(invoices'), B)
  <2>1. total \in Nat /\ orgs[o].credits <= InitCredits + total
    BY <1>3, <1>5, <1>7, <1>11, <1>12, <1>15, FairBounds
  <2>2. /\ t.old.orgs[o].credits <= InitCredits + total
        /\ \A n \in B \ KnownOf(activated', t.old, o) :
             t.old.orgs[o].credits + PlanCredits[invoices'[n].plan] <= InitCredits + total
    BY <1>1, <1>3, <1>7, <1>12, <1>15, FairBounds
  <2>. SUFFICES orgs'[o].credits <= InitCredits + total
    OBVIOUS
  <2>. HIDE DEF total, t
  <2>. DEFINE cur == orgs[o].credits
              new == t.new.orgs[o].credits
              old == t.old.orgs[o].credits
  <2>3. InitCredits \in Nat /\ cur \in Nat /\ new \in Nat /\ old \in Nat
    BY <1>1, <1>13, BillingAssumption DEF BillingAssumption, Organization
  <2>4. orgs'[o].credits = IF new # old THEN new ELSE cur
    BY <1>13
  <2>5. ASSUME Adds(t.old, t.new, t.num, o) PROVE new <= InitCredits + total
    <3>. DEFINE n == t.num
                w == PlanCredits[t.old.invs[n].plan]
    <3>1. Pays(t.old, t.new, n) /\ n # 0
      BY <1>2, <2>5 DEF Made, Adds
    <3>2. /\ n \in DOMAIN t.old.invs /\ t.old.invs[n].status \notin Final
          /\ t.old.invs[n].org = o /\ new <= old + w
      BY <2>5, <3>1 DEF Pays, Adds
    <3>3. /\ t.old.invs[n] \in Invoice /\ invoices'[n] \in Invoice
          /\ t.old.invs[n].org = invoices'[n].org /\ t.old.invs[n].plan = invoices'[n].plan
      <4>1. /\ t.old.invs \in Seq(Invoice) /\ invoices' \in Seq(Invoice)
            /\ Later(t.old.invs, invoices')
        BY <1>1, <1>3, <1>12
      <4>2. n \in DOMAIN t.old.invs
        BY <3>2
      <4>. HIDE DEF n
      <4>. QED
        BY <4>1, <4>2, SameInvoice
    <3>4. n \in B \ KnownOf(activated', t.old, o)
      BY <1>4, <3>1, <3>2, <3>3 DEF BoughtOf, KnownOf
    <3>5. old + w <= InitCredits + total
      BY <2>2, <3>3, <3>4
    <3>6. w \in Nat
      BY <3>3, BillingAssumption DEF BillingAssumption, Invoice
    <3>. HIDE DEF w, old, new
    <3>. QED
      BY <2>1, <2>3, <3>2, <3>5, <3>6
  <2>6. new = old \/ new <= InitCredits \/ Adds(t.old, t.new, t.num, o)
    BY <1>2 DEF Made
  <2>7. cur <= InitCredits + total /\ total \in Nat
    BY <2>1
  <2>. HIDE DEF cur, new, old
  <2>. QED
    BY <2>3, <2>4, <2>5, <2>6, <2>7
<1>16. GrantedOnce'
  BY <1>15, Zenon DEF GrantedOnce, Bought, Worth, BoughtOf, WorthOf
<1>. QED
  BY <1>8, <1>10, <1>14, <1>16 DEF Credited

LEMMA CreditedInit == Init => Credited
<1>. SUFFICES ASSUME Init PROVE Credited
  OBVIOUS
<1>1. activated = {} /\ \A p \in Procs : tx[p] = NoTx
  BY DEF Init
<1>2. Stands /\ FairUnits
  BY <1>1 DEF Stands, FairUnits, NoTx
<1>3. \A o \in Orgs : Bought(o) = {} /\ orgs[o].credits = InitCredits
  BY <1>1 DEF Bought, Init
<1>4. SumFunctionOnSet(Worth, {}) = 0 /\ InitCredits \in Nat
  BY SumUnfolds, FS_EmptySet, BillingAssumption DEF BillingAssumption
<1>5. GrantedOnce
  BY <1>3, <1>4 DEF GrantedOnce
<1>. QED
  BY <1>2, <1>5 DEF Credited

LEMMA CreditedAlways == Spec => [](IInv /\ Credited)
<1>1. Init => IInv /\ Credited
  BY TypeInit, SafeInit, CreditedInit, BillingAssumption DEF IInv
<1>2. (IInv /\ Credited) /\ [Next]_vars => (IInv /\ Credited)'
  <2>. SUFFICES ASSUME IInv, Credited, [Next]_vars PROVE (IInv /\ Credited)'
    OBVIOUS
  <2>1. TypeOK' /\ IInv'
    BY TypeStep, SafeStep, BillingAssumption DEF IInv
  <2>2. Credited'
    BY <2>1, Moves, CreditedQuiet, CreditedCommit DEF IInv
  <2>. QED
    BY <2>1, <2>2
<1>. QED
  BY <1>1, <1>2, PTL DEF Spec

\* A payment grants the credits of its plan once, however many confirmations of it, of
\* other payments and however many stale forms overlap.
THEOREM CreditsAreGrantedOnce == Spec => []GrantedOnce
<1>1. Credited => GrantedOnce
  BY DEF Credited
<1>. QED
  BY CreditedAlways, <1>1, PTL

\* No unit of work brings back an organization that was deleted after it had read it.
THEOREM DeletionIsPermanent == Spec => DeletedStaysDeleted
<1>1. (IInv /\ Credited) /\ (IInv /\ Credited)' /\ [Next]_vars =>
        [\A o \in Orgs : orgs[o].deleted => orgs'[o].deleted]_vars
  <2>. SUFFICES ASSUME IInv, IInv', Credited, [Next]_vars
                PROVE  \A o \in Orgs : orgs[o].deleted => orgs'[o].deleted
    OBVIOUS
  <2>1. CASE \E p \in Procs : Commit(p)
    BY <2>1, CreditedCommit DEF IInv
  <2>2. CASE UNCHANGED tables
    BY <2>2 DEF tables
  <2>. QED
    BY <2>1, <2>2, Moves DEF IInv
<1>. QED
  BY CreditedAlways, <1>1, PTL DEF Spec, DeletedStaysDeleted
==============================================================================
