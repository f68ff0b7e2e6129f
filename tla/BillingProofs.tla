---------------------------- MODULE BillingProofs ----------------------------
(* Proofs about Billing for any organizations, plans, prices and processes:  *)
(* finite sums, and types.                                                   *)
EXTENDS Billing, SequenceTheorems, FiniteSetTheorems, TLAPS

------------------------------------------------------------------------------
(* Finite sums.  What holds of every finite set is shown by a smallest       *)
(* subset of which it does not hold.                                         *)

Chosen(s) == CHOOSE x \in s : TRUE

\* What MapThenFoldSet defines by recursion, over the subsets of S
IsTotal(f, S, g) ==
  g = [s \in SUBSET S |-> IF s = {} THEN 0 ELSE f[Chosen(s)] + g[s \ {Chosen(s)}]]

\* Among subsets of a finite set one is smallest.
LEMMA Minimal ==
  ASSUME NEW S, IsFiniteSet(S), NEW T, T \subseteq SUBSET S, T # {}
  PROVE  \E x \in T : \A y \in T : y \subseteq x => y = x
<1>1. IsWellFoundedOn(StrictSubsetOrdering(S), SUBSET S)
  BY FS_StrictSubsetOrderingWellFounded, FS_FiniteSubsetsOfFinite
<1>2. PICK x \in T : \A y \in T : ~(<<y, x>> \in StrictSubsetOrdering(S))
  BY <1>1, WFMin
<1>. QED
  BY <1>2 DEF StrictSubsetOrdering

LEMMA ChosenIn == ASSUME NEW s, s # {} PROVE Chosen(s) \in s /\ s \ {Chosen(s)} # s
BY DEF Chosen

LEMMA TotalAt ==
  ASSUME NEW f, NEW S, NEW g, IsTotal(f, S, g), NEW s \in SUBSET S
  PROVE  g[s] = IF s = {} THEN 0 ELSE f[Chosen(s)] + g[s \ {Chosen(s)}]
BY DEF IsTotal

\* The recursive function of the fold is unique where it is defined, and exists.
LEMMA TotalsAgree ==
  ASSUME NEW f, NEW A, NEW B, NEW g, NEW h, IsTotal(f, A, g), IsTotal(f, B, h), IsFiniteSet(A)
  PROVE  \A s \in SUBSET A : s \subseteq B => g[s] = h[s]
<1>. DEFINE Bad == {s \in SUBSET A : s \subseteq B /\ g[s] # h[s]}
<1>. SUFFICES ASSUME Bad # {} PROVE FALSE
  OBVIOUS
<1>0. Bad \subseteq SUBSET A /\ Bad # {}
  OBVIOUS
<1>. HIDE DEF Bad
<1>1. PICK s \in Bad : \A t \in Bad : t \subseteq s => t = s
  BY <1>0, Minimal
<1>. USE DEF Bad
<1>2. s # {}
  BY TotalAt
<1>3. Chosen(s) \in s /\ s \ {Chosen(s)} # s
  BY <1>2, ChosenIn
<1>4. g[s \ {Chosen(s)}] = h[s \ {Chosen(s)}]
  BY <1>1, <1>3
<1>. QED
  BY <1>2, <1>4, TotalAt

LEMMA TotalExists ==
  ASSUME NEW f, NEW S, IsFiniteSet(S)
  PROVE  \E g : IsTotal(f, S, g)
<1>. DEFINE Bad == {s \in SUBSET S : ~ \E g : IsTotal(f, s, g)}
<1>. SUFFICES ASSUME Bad # {} PROVE FALSE
  BY Zenon
<1>0. Bad \subseteq SUBSET S /\ Bad # {}
  OBVIOUS
<1>. HIDE DEF Bad
<1>1. PICK s \in Bad : \A t \in Bad : t \subseteq s => t = s
  BY <1>0, Minimal
<1>. USE DEF Bad
<1>. DEFINE Of(t) == CHOOSE g : IsTotal(f, t, g)
            last(t) == IF t = {} THEN 0 ELSE f[Chosen(t)] + Of(t \ {Chosen(t)})[t \ {Chosen(t)}]
            g == [t \in SUBSET s |-> last(t)]
<1>2. ASSUME NEW t \in SUBSET s, t # s PROVE IsTotal(f, t, Of(t)) /\ IsFiniteSet(t)
  <2>1. t \notin Bad /\ t \in SUBSET S
    BY <1>1, <1>2
  <2>. QED
    BY <2>1, FS_Subset
<1>. HIDE DEF Of
<1>3. ASSUME NEW t \in SUBSET s, t # s PROVE g[t] = Of(t)[t]
  <2>1. IsTotal(f, t, Of(t)) /\ IsFiniteSet(t)
    BY <1>2, <1>3
  <2>2. CASE t = {}
    BY <2>1, <2>2, TotalAt
  <2>3. CASE t # {}
    <3>. DEFINE u == t \ {Chosen(t)}
    <3>1. Chosen(t) \in t /\ u # t /\ u \in SUBSET t
      BY <2>3, ChosenIn
    <3>2. IsTotal(f, u, Of(u)) /\ IsFiniteSet(u)
      BY <1>2, <3>1
    <3>3. Of(u)[u] = Of(t)[u]
      BY <2>1, <3>1, <3>2, TotalsAgree
    <3>4. Of(t)[t] = f[Chosen(t)] + Of(t)[u]
      BY <2>1, <2>3, TotalAt
    <3>. QED
      BY <2>3, <3>3, <3>4
  <2>. QED
    BY <2>2, <2>3
<1>4. ASSUME NEW t \in SUBSET s
      PROVE  last(t) = IF t = {} THEN 0 ELSE f[Chosen(t)] + g[t \ {Chosen(t)}]
  <2>1. CASE t = {}
    BY <2>1
  <2>2. CASE t # {}
    <3>1. t \ {Chosen(t)} # s /\ t \ {Chosen(t)} \in SUBSET s
      BY <2>2, ChosenIn
    <3>2. g[t \ {Chosen(t)}] = Of(t \ {Chosen(t)})[t \ {Chosen(t)}]
      BY <1>3, <3>1
    <3>. HIDE DEF g
    <3>. QED
      BY <2>2, <3>2
  <2>. QED
    BY <2>1, <2>2
<1>5. g = [t \in SUBSET s |-> IF t = {} THEN 0 ELSE f[Chosen(t)] + g[t \ {Chosen(t)}]]
  BY <1>4
<1>6. IsTotal(f, s, g)
  BY <1>5 DEF IsTotal
<1>. QED
  BY <1>1, <1>6

\* The sum over a finite set: nothing for none, else one value and the sum over the rest.
LEMMA SumUnfolds ==
  ASSUME NEW f, NEW S, IsFiniteSet(S)
  PROVE  SumFunctionOnSet(f, S) =
           IF S = {} THEN 0 ELSE f[Chosen(S)] + SumFunctionOnSet(f, S \ {Chosen(S)})
<1>1. ASSUME NEW T, IsFiniteSet(T)
      PROVE  \E g : IsTotal(f, T, g) /\ SumFunctionOnSet(f, T) = g[T]
  <2>1. PICK h : IsTotal(f, T, h)
    BY <1>1, TotalExists
  <2>. QED
    BY <2>1 DEF IsTotal, SumFunctionOnSet, FoldFunctionOnSet, MapThenFoldSet, Chosen
<1>2. PICK g : IsTotal(f, S, g) /\ SumFunctionOnSet(f, S) = g[S]
  BY <1>1
<1>3. CASE S = {}
  BY <1>2, <1>3, TotalAt
<1>4. CASE S # {}
  <2>. DEFINE T == S \ {Chosen(S)}
  <2>1. T \in SUBSET S /\ IsFiniteSet(T)
    BY FS_Subset
  <2>2. PICK h : IsTotal(f, T, h) /\ SumFunctionOnSet(f, T) = h[T]
    BY <1>1, <2>1
  <2>3. h[T] = g[T]
    BY <1>2, <2>1, <2>2, TotalsAgree
  <2>. QED
    BY <1>2, <1>4, <2>2, <2>3, TotalAt
<1>. QED
  BY <1>3, <1>4

LEMMA SumNat ==
  ASSUME NEW f, NEW S, IsFiniteSet(S), \A x \in S : f[x] \in Nat
  PROVE  SumFunctionOnSet(f, S) \in Nat
<1>. DEFINE Bad == {s \in SUBSET S : SumFunctionOnSet(f, s) \notin Nat}
<1>. SUFFICES ASSUME Bad # {} PROVE FALSE
  OBVIOUS
<1>0. Bad \subseteq SUBSET S /\ Bad # {}
  OBVIOUS
<1>. HIDE DEF Bad
<1>1. PICK s \in Bad : \A t \in Bad : t \subseteq s => t = s
  BY <1>0, Minimal
<1>. USE DEF Bad
<1>2. IsFiniteSet(s)
  BY FS_Subset
<1>3. s # {}
  <2>1. s = {} => SumFunctionOnSet(f, s) = 0
    BY <1>2, SumUnfolds
  <2>. HIDE DEF Bad
  <2>2. SumFunctionOnSet(f, s) \notin Nat
    BY DEF Bad
  <2>. QED
    BY <2>1, <2>2
<1>4. Chosen(s) \in s /\ s \ {Chosen(s)} # s
  BY <1>3, ChosenIn
<1>5. SumFunctionOnSet(f, s \ {Chosen(s)}) \in Nat
  BY <1>1, <1>4
<1>. QED
  BY <1>2, <1>3, <1>4, <1>5, SumUnfolds

\* Whichever element is taken out first.
LEMMA SumTakesOut ==
  ASSUME NEW f, NEW S, IsFiniteSet(S), \A x \in S : f[x] \in Nat, NEW a \in S
  PROVE  SumFunctionOnSet(f, S) = f[a] + SumFunctionOnSet(f, S \ {a})
<1>. DEFINE Sum(s) == SumFunctionOnSet(f, s)
            Bad == {s \in SUBSET S : \E x \in s : Sum(s) # f[x] + Sum(s \ {x})}
<1>. SUFFICES ASSUME Bad # {} PROVE FALSE
  OBVIOUS
<1>0. Bad \subseteq SUBSET S /\ Bad # {}
  OBVIOUS
<1>. HIDE DEF Bad
<1>1. PICK s \in Bad : \A t \in Bad : t \subseteq s => t = s
  BY <1>0, Minimal
<1>. USE DEF Bad
<1>2. PICK x \in s : Sum(s) # f[x] + Sum(s \ {x})
  BY <1>1
<1>. DEFINE c == Chosen(s)
<1>3. \A t \in SUBSET S : IsFiniteSet(t) /\ Sum(t) \in Nat
  BY FS_Subset, SumNat
<1>. HIDE DEF Sum
<1>4. c \in s /\ Sum(s) = f[c] + Sum(s \ {c})
  <2>1. c \in s
    BY <1>2, ChosenIn
  <2>. QED
    BY <1>2, <1>3, <2>1, SumUnfolds DEF Sum
<1>. HIDE DEF c
<1>5. x # c
  BY <1>2, <1>4
<1>6. Sum(s \ {c}) = f[x] + Sum((s \ {c}) \ {x})
  <2>1. s \ {c} \notin Bad /\ s \ {c} \in SUBSET S
    BY <1>1, <1>4
  <2>. QED
    BY <1>5, <2>1
<1>7. Sum(s \ {x}) = f[c] + Sum((s \ {x}) \ {c})
  <2>1. s \ {x} \notin Bad /\ s \ {x} \in SUBSET S
    BY <1>1, <1>2
  <2>. QED
    BY <1>4, <1>5, <2>1
<1>8. (s \ {x}) \ {c} = (s \ {c}) \ {x}
  OBVIOUS
<1>9. f[x] \in Nat /\ f[c] \in Nat /\ Sum((s \ {c}) \ {x}) \in Nat
  BY <1>3, <1>4
<1>. QED
  BY <1>2, <1>4, <1>6, <1>7, <1>8, <1>9

\* More is added, nothing taken away.
LEMMA SumGrows ==
  ASSUME NEW f, NEW S, IsFiniteSet(S), \A x \in S : f[x] \in Nat, NEW T \in SUBSET S
  PROVE  SumFunctionOnSet(f, T) <= SumFunctionOnSet(f, S)
<1>. DEFINE Sum(s) == SumFunctionOnSet(f, s)
            Bad == {s \in SUBSET S : T \subseteq s /\ ~(Sum(T) <= Sum(s))}
<1>. SUFFICES ASSUME Bad # {} PROVE FALSE
  OBVIOUS
<1>0. Bad \subseteq SUBSET S /\ Bad # {}
  OBVIOUS
<1>. HIDE DEF Bad
<1>1. PICK s \in Bad : \A t \in Bad : t \subseteq s => t = s
  BY <1>0, Minimal
<1>. USE DEF Bad
<1>2. \A t \in SUBSET S : IsFiniteSet(t) /\ Sum(t) \in Nat
  BY FS_Subset, SumNat
<1>3. \A x \in s : Sum(s) = f[x] + Sum(s \ {x})
  BY <1>1, <1>2, SumTakesOut
<1>. HIDE DEF Sum
<1>4. PICK x \in s : x \notin T
  <2>1. s # T
    BY <1>1, <1>2
  <2>. QED
    BY <1>1, <2>1
<1>5. s \ {x} \notin Bad /\ s \ {x} \in SUBSET S /\ T \subseteq s \ {x}
  BY <1>1, <1>4
<1>6. Sum(T) <= Sum(s \ {x})
  BY <1>5
<1>. QED
  BY <1>1, <1>2, <1>3, <1>4, <1>5, <1>6

\* Only the values at the elements count.
LEMMA SumsAgree ==
  ASSUME NEW f, NEW g, NEW S, IsFiniteSet(S), \A x \in S : f[x] = g[x]
  PROVE  SumFunctionOnSet(f, S) = SumFunctionOnSet(g, S)
<1>. DEFINE Bad == {s \in SUBSET S : SumFunctionOnSet(f, s) # SumFunctionOnSet(g, s)}
<1>. SUFFICES ASSUME Bad # {} PROVE FALSE
  OBVIOUS
<1>0. Bad \subseteq SUBSET S /\ Bad # {}
  OBVIOUS
<1>. HIDE DEF Bad
<1>1. PICK s \in Bad : \A t \in Bad : t \subseteq s => t = s
  BY <1>0, Minimal
<1>. USE DEF Bad
<1>2. IsFiniteSet(s)
  BY FS_Subset
<1>3. s # {}
  BY <1>2, SumUnfolds
<1>4. Chosen(s) \in s /\ s \ {Chosen(s)} # s
  BY <1>3, ChosenIn
<1>5. s \ {Chosen(s)} \notin Bad
  BY <1>1, <1>4
<1>6. SumFunctionOnSet(f, s \ {Chosen(s)}) = SumFunctionOnSet(g, s \ {Chosen(s)})
  BY <1>5
<1>. QED
  BY <1>2, <1>3, <1>4, <1>6, SumUnfolds

------------------------------------------------------------------------------
(* Types                                                                    *)

\* Writing the changed columns of a row over another row gives a row.
LEMMA FlushOrgType ==
  ASSUME NEW cur \in Organization, NEW old \in Organization, NEW new \in Organization
  PROVE  Flush(cur, old, new) \in Organization
BY DEF Flush, Organization

LEMMA FlushInvoiceType ==
  ASSUME NEW cur \in Invoice, NEW old \in Invoice, NEW new \in Invoice
  PROVE  Flush(cur, old, new) \in Invoice
BY DEF Flush, Invoice

LEMMA DbType == TypeOK => Db \in Snapshot
BY DEF TypeOK, Db, Snapshot

LEMMA EmptyType == Empty \in Snapshot
<1>1. NoOrg \in Organization
  BY DEF NoOrg, Organization
<1>. QED
  BY <1>1 DEF Empty, Snapshot

LEMMA NoTxType == NoTx \in Tx
BY EmptyType DEF NoTx, Tx, TxRecord, Labels, Steps

LEMMA ViewType == ASSUME TypeOK, NEW p \in Procs PROVE View(p) \in Snapshot
BY DbType DEF View, TypeOK, Tx, TxRecord

\* A unit of work that is begun with well-typed values is well typed.
LEMMA BeginType ==
  ASSUME TypeOK, NEW p \in Procs, NEW s \in Snapshot, NEW new \in Snapshot,
         Len(new.invs) = Len(s.invs), NEW insert \in Seq(Invoice),
         NEW next \in Steps, NEW fail \in Steps,
         NEW num \in Nat, Begin(p, s, new, insert, next, fail, num)
  PROVE  /\ tx' \in [Procs -> Tx]
         /\ pc' \in [Procs -> Labels]
<1>1. "commit" \in Labels
  BY DEF Labels, Steps
<1>2. [open |-> TRUE, old |-> s, new |-> new, insert |-> insert,
       next |-> next, fail |-> fail, num |-> num] \in Tx
  BY DEF Tx, TxRecord
<1>. QED
  BY <1>1, <1>2 DEF Begin, GoTo, TypeOK

LEMMA GoToType ==
  ASSUME TypeOK, NEW p \in Procs, NEW step \in Steps, GoTo(p, step)
  PROVE  pc' \in [Procs -> Labels]
BY DEF GoTo, TypeOK, Labels

LEMMA HoldType ==
  ASSUME TypeOK, NEW p \in Procs, NEW s \in Snapshot, Hold(p, s)
  PROVE  tx' \in [Procs -> Tx]
<1>1. [NoTx EXCEPT !.open = TRUE, !.old = s, !.new = s] \in Tx
  BY NoTxType DEF Tx, TxRecord
<1>. QED
  BY <1>1 DEF Hold, TypeOK

LEMMA WriteOrgType ==
  ASSUME TypeOK, NEW p \in Procs, NEW o \in Orgs, NEW org \in Organization,
         NEW next \in Steps, WriteOrg(p, o, org, next)
  PROVE  /\ tx' \in [Procs -> Tx]
         /\ pc' \in [Procs -> Labels]
<1>. DEFINE new == [Db EXCEPT !.orgs[o] = org]
<1>1. Db \in Snapshot
  BY DbType
<1>2. new \in Snapshot /\ Len(new.invs) = Len(Db.invs)
  BY <1>1 DEF Snapshot
<1>3. Begin(p, Db, new, <<>>, next, "idle", 0)
  BY DEF WriteOrg
<1>4. "idle" \in Steps /\ <<>> \in Seq(Invoice)
  BY DEF Labels, Steps
<1>. HIDE DEF new
<1>. QED
  BY <1>1, <1>2, <1>3, <1>4, BeginType

LEMMA GeneratedInvoiceType ==
  ASSUME BillingAssumption, TypeOK, NEW s \in Snapshot, NEW o \in Orgs, s.orgs[o].plan # NoPlan,
         NEW kind \in Kinds
  PROVE  <<GeneratedInvoice(s, o, kind)>> \in Seq(Invoice)
<1>1. s.orgs[o] \in Organization
  BY DEF Snapshot
<1>2. s.orgs[o].plan \in Plans /\ s.orgs[o].expiry \in Int \cup {NoDate}
  BY <1>1 DEF Organization
<1>3. Now \in Int /\ CycleDays \in Int
  BY DEF BillingAssumption, TypeOK, Now
<1>4. GeneratedInvoice(s, o, kind) \in Invoice
  BY <1>2, <1>3 DEF GeneratedInvoice, Invoice, Midnight, Statuses
<1>. QED
  BY <1>4

LEMMA SweptType == ASSUME NEW inv \in Invoice PROVE Swept(inv) \in Invoice
BY DEF Swept, Invoice, Statuses

LEMMA SuspendedType == ASSUME NEW org \in Organization PROVE Suspended(org) \in Organization
BY DEF Suspended, Organization

LEMMA ActivatedType ==
  ASSUME BillingAssumption, TypeOK, NEW org \in Organization, NEW inv \in Invoice
  PROVE  Activated(org, inv) \in Organization
<1>1. SwitchedOn(org) \in Organization
  BY DEF SwitchedOn, Organization
<1>2. inv.plan \in Plans /\ inv.end \in Int
  BY DEF Invoice
<1>3. DateOf(inv.end) \in Int
  BY <1>2 DEF DateOf
<1>4. today + CycleDays \in Int
  BY DEF BillingAssumption, TypeOK
<1>5. PlanCredits[inv.plan] \in Nat /\ IncludedCredits(org.plan) \in Nat
  BY <1>2 DEF BillingAssumption, IncludedCredits, Organization
<1>6. Extra(PlanCredits[inv.plan], IncludedCredits(org.plan)) \in Nat
  BY <1>5 DEF Extra
<1>7. CASE inv.kind = "upgrade"
  <2>. DEFINE expiry == IF DateOf(inv.end) <= today THEN today + CycleDays ELSE DateOf(inv.end)
              extra  == Extra(PlanCredits[inv.plan], IncludedCredits(org.plan))
  <2>1. expiry \in Int /\ org.credits + extra \in Nat
    BY <1>3, <1>4, <1>6 DEF Organization
  <2>2. Activated(org, inv) =
          [org EXCEPT !.plan = inv.plan, !.credits = @ + extra, !.expiry = expiry]
    BY <1>7 DEF Activated
  <2>. HIDE DEF expiry, extra
  <2>. QED
    BY <1>2, <2>1, <2>2 DEF Organization
<1>8. CASE inv.kind # "upgrade"
  <2>. DEFINE on      == SwitchedOn(org)
              credits == on.credits + PlanCredits[inv.plan]
  <2>1. credits \in Nat
    BY <1>1, <1>5 DEF Organization
  <2>2. Activated(org, inv) = [on EXCEPT !.plan = inv.plan, !.credits = credits,
                                         !.expiry = DateOf(inv.end)]
    BY <1>8 DEF Activated
  <2>3. on \in Organization
    BY <1>1
  <2>. HIDE DEF on, credits
  <2>. QED
    BY <1>2, <1>3, <2>1, <2>2, <2>3 DEF Organization
<1>. QED
  BY <1>7, <1>8

LEMMA MarkInvoicePaidType ==
  ASSUME BillingAssumption, TypeOK, NEW p \in Procs, NEW s \in Snapshot, NEW n \in DOMAIN s.invs,
         NEW next \in Steps, MarkInvoicePaid(p, s, n, next)
  PROVE  /\ tx' \in [Procs -> Tx]
         /\ pc' \in [Procs -> Labels]
<1>. DEFINE inv == s.invs[n]
            org == IF Activates(inv) THEN Activated(s.orgs[inv.org], inv) ELSE s.orgs[inv.org]
            new == [orgs |-> [s.orgs EXCEPT ![inv.org] = [org EXCEPT !.pay = "PAID"]],
                    invs |-> [s.invs EXCEPT ![n].status = "PAID"]]
            num == IF Activates(inv) THEN n ELSE 0
<1>1. s.invs \in Seq(Invoice) /\ s.orgs \in [Orgs -> Organization] /\ n \in Nat
  BY DEF Snapshot
<1>2. inv \in Invoice /\ inv.org \in Orgs
  <2>1. n \in 1 .. Len(s.invs)
    BY <1>1
  <2>2. inv \in Invoice
    BY <1>1, <2>1, ElementOfSeq
  <2>. QED
    BY <2>2 DEF Invoice
<1>3. org \in Organization
  BY <1>1, <1>2, ActivatedType
<1>4. [org EXCEPT !.pay = "PAID"] \in Organization
  BY <1>3 DEF Organization
<1>5. [inv EXCEPT !.status = "PAID"] \in Invoice
  BY <1>2 DEF Invoice, Statuses
<1>6. [s.invs EXCEPT ![n].status = "PAID"] \in Seq(Invoice)
  BY <1>1, <1>5
<1>7. new \in Snapshot /\ Len(new.invs) = Len(s.invs)
  BY <1>1, <1>2, <1>4, <1>6 DEF Snapshot
<1>8. num \in Nat
  BY <1>1
<1>9. Begin(p, s, new, <<>>, next, next, num)
  BY DEF MarkInvoicePaid
<1>10. <<>> \in Seq(Invoice)
  OBVIOUS
<1>. HIDE DEF inv, org, new, num
<1>. QED
  BY <1>7, <1>8, <1>9, <1>10, BeginType

LEMMA InvoiceLoopType ==
  ASSUME BillingAssumption, TypeOK, NEW p \in Procs, NEW rest \in SUBSET Orgs, InvoiceLoop(p, rest)
  PROVE  /\ tx' \in [Procs -> Tx]
         /\ pc' \in [Procs -> Labels]
         /\ todo' \in [Procs -> SUBSET Orgs]
<1>. DEFINE s     == View(p)
            clear == {o \in rest : Skipped(s, o)}
<1>1. s \in Snapshot
  BY ViewType
<1>2. CASE /\ Hold(p, s) /\ GoTo(p, "reminders")
           /\ todo' = [todo EXCEPT ![p] = {}]
  BY <1>1, <1>2, HoldType, GoToType DEF TypeOK, Steps
<1>3. CASE \E o \in rest \ clear, skipped \in SUBSET clear :
             /\ Begin(p, s, s, <<GeneratedInvoice(s, o, "job")>>, "invoicing", "reminders", 0)
             /\ todo' = [todo EXCEPT ![p] = rest \ (skipped \cup {o})]
  <2>1. PICK o \in rest \ clear, skipped \in SUBSET clear :
          /\ Begin(p, s, s, <<GeneratedInvoice(s, o, "job")>>, "invoicing", "reminders", 0)
          /\ todo' = [todo EXCEPT ![p] = rest \ (skipped \cup {o})]
    BY <1>3
  <2>2. s.orgs[o].plan # NoPlan /\ o \in Orgs
    BY DEF clear, Skipped
  <2>. HIDE DEF s, clear
  <2>3. <<GeneratedInvoice(s, o, "job")>> \in Seq(Invoice)
    BY <1>1, <2>2, GeneratedInvoiceType DEF Kinds
  <2>. QED
    BY <1>1, <2>1, <2>3, BeginType DEF Labels, Steps, TypeOK
<1>. QED
  BY <1>2, <1>3 DEF InvoiceLoop

LEMMA TypeInit == BillingAssumption /\ Init => TypeOK
<1>. SUFFICES ASSUME BillingAssumption, Init PROVE TypeOK
  OBVIOUS
<1>1. orgs \in [Orgs -> Organization]
  <2>. DEFINE Fresh == [plan : InitPlans, expiry : InitExpiry, credits : {InitCredits},
                        pay : {"PENDING"}, status : {1}, deleted : {FALSE}]
  <2>1. orgs \in [Orgs -> Fresh]
    BY DEF Init
  <2>2. ASSUME NEW org \in Fresh PROVE org \in Organization
    <3>1. /\ org.plan \in Plans \cup {NoPlan} /\ org.expiry \in Int \cup {NoDate}
          /\ org.credits \in Nat
      <4>1. /\ InitPlans \subseteq Plans \cup {NoPlan} /\ InitExpiry \subseteq Int \cup {NoDate}
            /\ InitCredits \in Nat
        BY DEF BillingAssumption
      <4>2. org.plan \in InitPlans /\ org.expiry \in InitExpiry /\ org.credits = InitCredits
        OBVIOUS
      <4>. QED
        BY <4>1, <4>2
    <3>2. /\ org = [plan |-> org.plan, expiry |-> org.expiry, credits |-> org.credits,
                    pay |-> org.pay, status |-> org.status, deleted |-> org.deleted]
          /\ org.pay = "PENDING" /\ org.status = 1 /\ org.deleted = FALSE
      OBVIOUS
    <3>. HIDE DEF Fresh
    <3>. QED
      BY <3>1, <3>2 DEF Organization
  <2>. QED
    BY <2>1, <2>2
<1>2. invoices \in Seq(Invoice)
  BY DEF Init
<1>3. tx \in [Procs -> Tx]
  BY NoTxType DEF Init
<1>4. pc \in [Procs -> Labels]
  BY DEF Init, Labels, Steps
<1>. QED
  BY <1>1, <1>2, <1>3, <1>4 DEF Init, TypeOK, Links

LEMMA CommitType ==
  ASSUME TypeOK, NEW p \in Procs, Commit(p)
  PROVE  TypeOK'
<1>. DEFINE t == tx[p]
<1>1. t \in Tx
  BY DEF TypeOK
<1>2. t.old \in Snapshot /\ t.new \in Snapshot /\ t.insert \in Seq(Invoice)
      /\ t.next \in Steps /\ t.num \in Nat /\ Len(t.new.invs) = Len(t.old.invs)
  BY <1>1 DEF Tx, TxRecord
<1>. HIDE DEF t
<1>3. FlushOrgs(t) \in [Orgs -> Organization]
  BY <1>2, FlushOrgType DEF FlushOrgs, Snapshot, TypeOK
<1>4. FlushInvoices(t) \in Seq(Invoice)
  <2>1. ASSUME NEW n \in DOMAIN invoices PROVE FlushInvoices(t)[n] \in Invoice
    <3>1. invoices \in Seq(Invoice) /\ t.old.invs \in Seq(Invoice) /\ t.new.invs \in Seq(Invoice)
      BY <1>2 DEF Snapshot, TypeOK
    <3>2. invoices[n] \in Invoice
      BY <3>1
    <3>3. n \in DOMAIN t.old.invs => t.old.invs[n] \in Invoice /\ t.new.invs[n] \in Invoice
      BY <1>2, <3>1
    <3>. QED
      BY <3>2, <3>3, FlushInvoiceType DEF FlushInvoices
  <2>2. invoices \in Seq(Invoice)
    BY DEF TypeOK
  <2>3. FlushInvoices(t) = [n \in 1 .. Len(invoices) |-> FlushInvoices(t)[n]]
    BY <2>2 DEF FlushInvoices
  <2>. QED
    BY <2>1, <2>2, <2>3, IsASeq
<1>5. invoices' \in Seq(Invoice)
  BY <1>2, <1>4 DEF Commit, t
<1>6. tx' \in [Procs -> Tx]
  BY NoTxType DEF Commit, TypeOK
<1>7. activated' \subseteq Nat /\ reopened' \subseteq Nat
  BY <1>2 DEF Commit, TypeOK, t
<1>8. orgs' \in [Orgs -> Organization] /\ pc' \in [Procs -> Labels]
  BY <1>2, <1>3, GoToType DEF Commit, TypeOK, t
<1>. QED
  BY <1>5, <1>6, <1>7, <1>8 DEF Commit, TypeOK, env, work

LEMMA SweepOverdueType ==
  ASSUME TypeOK, NEW p \in Procs, SweepOverdue(p)
  PROVE  TypeOK'
<1>. DEFINE s   == View(p)
            new == [s EXCEPT !.invs = [n \in DOMAIN s.invs |-> Swept(s.invs[n])]]
<1>1. s \in Snapshot /\ s.invs \in Seq(Invoice)
  BY ViewType DEF Snapshot
<1>2. \A n \in 1 .. Len(s.invs) : Swept(s.invs[n]) \in Invoice
  BY <1>1, SweptType
<1>3. [n \in 1 .. Len(s.invs) |-> Swept(s.invs[n])] \in Seq(Invoice)
  BY <1>1, <1>2, IsASeq
<1>4. new \in Snapshot /\ Len(new.invs) = Len(s.invs)
  BY <1>1, <1>3 DEF Snapshot
<1>5. \/ Begin(p, s, new, <<>>, "suspend", "suspend", 0)
      \/ Hold(p, s) /\ GoTo(p, "suspend")
  BY DEF SweepOverdue
<1>6. "suspend" \in Steps /\ <<>> \in Seq(Invoice)
  BY DEF Labels, Steps
<1>. HIDE DEF s, new
<1>7. tx' \in [Procs -> Tx] /\ pc' \in [Procs -> Labels]
  BY <1>1, <1>4, <1>5, <1>6, BeginType, HoldType, GoToType DEF TypeOK
<1>. QED
  BY <1>7 DEF SweepOverdue, TypeOK, env, tables, work

LEMMA AutoSuspendType ==
  ASSUME TypeOK, NEW p \in Procs, AutoSuspend(p)
  PROVE  TypeOK'
<1>. DEFINE s   == View(p)
            new == [s EXCEPT !.orgs = [o \in Orgs |-> Suspended(s.orgs[o])]]
<1>1. s \in Snapshot
  BY ViewType
<1>2. new \in Snapshot /\ Len(new.invs) = Len(s.invs)
  BY <1>1, SuspendedType DEF Snapshot
<1>3. \/ Begin(p, s, new, <<>>, "idle", "idle", 0)
      \/ tx' = [tx EXCEPT ![p] = NoTx] /\ GoTo(p, "idle")
  BY DEF AutoSuspend
<1>4. "idle" \in Steps /\ <<>> \in Seq(Invoice)
  BY DEF Labels, Steps
<1>. HIDE DEF s, new
<1>5. tx' \in [Procs -> Tx] /\ pc' \in [Procs -> Labels]
  BY <1>1, <1>2, <1>3, <1>4, BeginType, NoTxType, GoToType DEF TypeOK
<1>. QED
  BY <1>5 DEF AutoSuspend, TypeOK, env, tables, work

\* Everything that gives up or ends the work of a process.
LEMMA DropType ==
  ASSUME TypeOK, NEW p \in Procs, Drop(p)
  PROVE  /\ tx' \in [Procs -> Tx]
         /\ todo' \in [Procs -> SUBSET Orgs]
         /\ picked' \in [Procs -> SUBSET Nat]
BY NoTxType DEF Drop, TypeOK

LEMMA CycleStepType ==
  ASSUME BillingAssumption, TypeOK, NEW p \in Procs, CycleStep(p)
  PROVE  TypeOK'
<1>1. CASE StartCycle(p)
  <2>1. DueForInvoice(Db) \in SUBSET Orgs
    BY DEF DueForInvoice
  <2>2. tx' \in [Procs -> Tx] /\ pc' \in [Procs -> Labels] /\ todo' \in [Procs -> SUBSET Orgs]
    BY <1>1, <2>1, InvoiceLoopType DEF StartCycle
  <2>. QED
    BY <1>1, <2>2 DEF StartCycle, TypeOK, tables
<1>2. CASE ContinueInvoicing(p)
  <2>1. todo[p] \in SUBSET Orgs
    BY DEF TypeOK
  <2>2. tx' \in [Procs -> Tx] /\ pc' \in [Procs -> Labels] /\ todo' \in [Procs -> SUBSET Orgs]
    BY <1>2, <2>1, InvoiceLoopType DEF ContinueInvoicing
  <2>. QED
    BY <1>2, <2>2 DEF ContinueInvoicing, TypeOK, env, tables
<1>3. CASE SendReminders(p)
  <2>1. tx' \in [Procs -> Tx] /\ pc' \in [Procs -> Labels]
    BY <1>3, ViewType, HoldType, GoToType DEF SendReminders, TypeOK, Labels, Steps
  <2>2. reminded' \in [Orgs -> Nat]
    BY <1>3 DEF SendReminders, TypeOK
  <2>. QED
    BY <1>3, <2>1, <2>2 DEF SendReminders, TypeOK, tables, work
<1>4. CASE CommitFails(p)
  <2>1. tx[p].fail \in Steps
    BY DEF TypeOK, Tx, TxRecord
  <2>. QED
    BY <1>4, <2>1, DropType, GoToType DEF CommitFails, TypeOK, env, tables
<1>. QED
  BY <1>1, <1>2, <1>3, <1>4, SweepOverdueType, AutoSuspendType, CommitType DEF CycleStep

LEMMA PurchaseInvoiceType ==
  ASSUME BillingAssumption, TypeOK, NEW o \in Orgs, NEW plan \in Plans,
         PlanChange(orgs[o], plan) \in SelfServe
  PROVE  <<PurchaseInvoice(Db, o, plan, PlanChange(orgs[o], plan))>> \in Seq(Invoice)
<1>. DEFINE kind == PlanChange(orgs[o], plan)
            end  == IF kind = "renew" THEN Midnight(orgs[o].expiry + CycleDays)
                                      ELSE Now + 2 * CycleDays
<1>1. orgs[o] \in Organization /\ Price[plan] \in Nat
  BY DEF TypeOK, BillingAssumption
<1>2. kind = "renew" => orgs[o].expiry \in Int
  BY <1>1 DEF PlanChange, Organization
<1>3. CycleDays \in Int /\ SelfServeDays \in Int /\ Now \in Int
  BY DEF BillingAssumption, TypeOK, Now
<1>4. end \in Int
  BY <1>2, <1>3 DEF Midnight
<1>5. PurchaseInvoice(Db, o, plan, kind) =
        [org |-> o, plan |-> plan, kind |-> kind, end |-> end,
         due |-> Now + 2 * SelfServeDays, status |-> "PENDING"]
  BY DEF PurchaseInvoice, Db
<1>6. kind \in Kinds
  BY DEF Kinds
<1>. HIDE DEF kind, end
<1>7. PurchaseInvoice(Db, o, plan, kind) \in Invoice
  BY <1>3, <1>4, <1>5, <1>6 DEF Invoice, Statuses
<1>. QED
  BY <1>7 DEF kind

LEMMA ChoosePlanType ==
  ASSUME BillingAssumption, TypeOK, NEW r \in Procs, NEW o \in Orgs, NEW plan \in Plans,
         ChoosePlan(r, o, plan)
  PROVE  TypeOK'
<1>. DEFINE kind   == PlanChange(orgs[o], plan)
            open   == {n \in DOMAIN invoices : IsOpenPurchase(invoices[n], o)}
            same   == {n \in open : invoices[n].plan = plan /\ invoices[n].kind = kind}
            cancelled == [n \in DOMAIN invoices |->
                            IF n \in open \ same THEN [invoices[n] EXCEPT !.status = "CANCELLED"]
                                                 ELSE invoices[n]]
            placed == [Db EXCEPT !.invs = cancelled]
<1>1. Db \in Snapshot /\ Db.invs = invoices /\ Db.orgs = orgs /\ invoices \in Seq(Invoice)
  BY DbType DEF Db, TypeOK
<1>2. ASSUME NEW n \in 1 .. Len(invoices)
      PROVE  (IF n \in open \ same THEN [invoices[n] EXCEPT !.status = "CANCELLED"]
                                   ELSE invoices[n]) \in Invoice
  <2>1. invoices[n] \in Invoice
    BY <1>1
  <2>2. [invoices[n] EXCEPT !.status = "CANCELLED"] \in Invoice
    BY <2>1 DEF Invoice, Statuses
  <2>. QED
    BY <2>1, <2>2
<1>3. cancelled \in Seq(Invoice)
  <2>1. DOMAIN invoices = 1 .. Len(invoices) /\ Len(invoices) \in Nat
    BY <1>1
  <2>. HIDE DEF open, same
  <2>. QED
    BY <1>2, <2>1, IsASeq
<1>4. Len(cancelled) = Len(invoices)
  BY <1>1
<1>. HIDE DEF cancelled
<1>5. placed \in Snapshot /\ Len(placed.invs) = Len(Db.invs)
  BY <1>1, <1>3, <1>4 DEF Snapshot
<1>6. "link" \in Steps /\ "idle" \in Steps /\ <<>> \in Seq(Invoice)
  BY DEF Labels, Steps
<1>7. NextInvoiceNumber(Db) \in Nat /\ open \subseteq Nat
  BY <1>1 DEF NextInvoiceNumber
<1>8. <<PurchaseInvoice(Db, o, plan, kind)>> \in Seq(Invoice)
  BY PurchaseInvoiceType DEF ChoosePlan
<1>9. \/ \E n \in same : /\ Begin(r, Db, placed, <<>>, "link", "idle", 0)
                         /\ picked' = [picked EXCEPT ![r] = {n}]
      \/ /\ Begin(r, Db, placed, <<PurchaseInvoice(Db, o, plan, kind)>>, "link", "idle", 0)
         /\ picked' = [picked EXCEPT ![r] = {NextInvoiceNumber(Db)}]
  BY DEF ChoosePlan, cancelled
<1>10. same \subseteq open
  OBVIOUS
<1>. HIDE DEF kind, open, same, placed
<1>11. tx' \in [Procs -> Tx] /\ pc' \in [Procs -> Labels]
  BY <1>1, <1>5, <1>6, <1>8, <1>9, BeginType
<1>12. picked' \in [Procs -> SUBSET Nat]
  <2>1. PICK n \in Nat : picked' = [picked EXCEPT ![r] = {n}]
    BY <1>7, <1>9, <1>10
  <2>. QED
    BY <2>1 DEF TypeOK
<1>. QED
  BY <1>11, <1>12 DEF ChoosePlan, TypeOK, env, tables

LEMMA OrgRequestType ==
  ASSUME BillingAssumption, TypeOK, NEW r \in Procs, NEW o \in Orgs, OrgRequest(r, o)
  PROVE  TypeOK'
<1>. USE DEF env, tables, work
<1>1. orgs[o] \in Organization
  BY DEF TypeOK
<1>2. {"idle", "prorate", "sync"} \subseteq Steps /\ <<>> \in Seq(Invoice)
  BY DEF Labels, Steps
<1>3. CASE StartSync(r, o)
  <2>1. tx' \in [Procs -> Tx] /\ pc' \in [Procs -> Labels]
    BY <1>2, <1>3, DbType, HoldType, GoToType DEF StartSync, TypeOK
  <2>2. picked' \in [Procs -> SUBSET Nat]
    BY <1>3 DEF StartSync, TypeOK
  <2>. QED
    BY <1>3, <2>1, <2>2 DEF StartSync, TypeOK
<1>4. CASE GenerateInvoice(r, o)
  <2>1. <<GeneratedInvoice(Db, o, "manual")>> \in Seq(Invoice)
    BY <1>4, DbType, GeneratedInvoiceType DEF GenerateInvoice, Db, Kinds
  <2>2. tx' \in [Procs -> Tx] /\ pc' \in [Procs -> Labels]
    BY <1>2, <1>4, <2>1, DbType, BeginType DEF GenerateInvoice
  <2>. QED
    BY <1>4, <2>2 DEF GenerateInvoice, TypeOK
<1>5. CASE Subscribe(r, o)
  <2>1. PICK plan \in Plans \cup {NoPlan}, expiry \in FormDays \cup {NoDate},
             credits \in {InitCredits, orgs[o].credits}, pay \in FormPayments,
             prorated \in BOOLEAN :
          /\ WriteOrg(r, o, [orgs[o] EXCEPT !.plan = plan, !.expiry = expiry,
                                            !.credits = credits, !.pay = pay],
                      IF prorated THEN "prorate" ELSE "idle")
          /\ todo' = [todo EXCEPT ![r] = IF prorated THEN {o} ELSE {}]
    BY <1>5 DEF Subscribe
  <2>2. expiry \in Int \cup {NoDate} /\ credits \in Nat /\ pay \in {"PENDING", "PAID", "OVERDUE"}
    BY <1>1 DEF BillingAssumption, Organization
  <2>3. [orgs[o] EXCEPT !.plan = plan, !.expiry = expiry, !.credits = credits, !.pay = pay]
          \in Organization
    BY <1>1, <2>2 DEF Organization
  <2>4. tx' \in [Procs -> Tx] /\ pc' \in [Procs -> Labels]
    BY <1>2, <2>1, <2>3, WriteOrgType
  <2>5. todo' \in [Procs -> SUBSET Orgs]
    BY <2>1 DEF TypeOK
  <2>. QED
    BY <1>5, <2>4, <2>5 DEF Subscribe, TypeOK
<1>6. CASE Suspend(r, o)
  <2>1. [orgs[o] EXCEPT !.status = 0] \in Organization
    BY <1>1 DEF Organization
  <2>. QED
    BY <1>2, <1>6, <2>1, WriteOrgType DEF Suspend, TypeOK
<1>7. CASE Activate(r, o)
  <2>1. [orgs[o] EXCEPT !.status = 1] \in Organization
    BY <1>1 DEF Organization
  <2>. QED
    BY <1>2, <1>7, <2>1, WriteOrgType DEF Activate, TypeOK
<1>8. CASE Delete(r, o)
  <2>1. [orgs[o] EXCEPT !.deleted = TRUE, !.status = 0] \in Organization
    BY <1>1 DEF Organization
  <2>. QED
    BY <1>2, <1>8, <2>1, WriteOrgType DEF Delete, TypeOK
<1>9. CASE Edit(r, o)
  <2>1. PICK status \in {0, 1} :
          WriteOrg(r, o, [orgs[o] EXCEPT !.plan = NoPlan, !.expiry = NoDate, !.credits = 0,
                                         !.pay = "NULL", !.status = status], "idle")
    BY <1>1, <1>9 DEF Edit, Organization
  <2>2. [orgs[o] EXCEPT !.plan = NoPlan, !.expiry = NoDate, !.credits = 0,
                        !.pay = "NULL", !.status = status] \in Organization
    BY <1>1 DEF Organization
  <2>. QED
    BY <1>2, <1>9, <2>1, <2>2, WriteOrgType DEF Edit, TypeOK
<1>. QED
  BY <1>3, <1>4, <1>5, <1>6, <1>7, <1>8, <1>9, ChoosePlanType DEF OrgRequest

LEMMA InvoiceRequestType ==
  ASSUME BillingAssumption, TypeOK, NEW r \in Procs, NEW n, InvoiceRequest(r, n)
  PROVE  TypeOK'
<1>. USE DEF env, tables, work
<1>1. Db \in Snapshot /\ Db.invs = invoices /\ {"idle", "link", "answer"} \subseteq Steps
  BY DbType DEF Db, Labels, Steps
<1>2. CASE Webhook(r, n)
  <2>1. n \in Nat /\ picked' = [picked EXCEPT ![r] = {n}]
    BY <1>2 DEF Webhook, TypeOK
  <2>2. picked' \in [Procs -> SUBSET Nat]
    BY <2>1 DEF TypeOK
  <2>3. CASE Unrecorded(invoices[n])
    BY <1>1, <1>2, <2>2, <2>3, MarkInvoicePaidType DEF Webhook, TypeOK
  <2>4. CASE ~Unrecorded(invoices[n])
    BY <1>1, <1>2, <2>2, <2>4, GoToType DEF Webhook, TypeOK
  <2>. QED
    BY <2>3, <2>4
<1>3. CASE MarkPaid(r, n)
  BY <1>1, <1>3, MarkInvoicePaidType DEF MarkPaid, TypeOK
<1>4. CASE PayInvoice(r, n)
  <2>1. n \in Nat
    BY <1>4 DEF PayInvoice, TypeOK
  <2>. QED
    BY <1>1, <1>4, <2>1, GoToType DEF PayInvoice, TypeOK
<1>. QED
  BY <1>2, <1>3, <1>4 DEF InvoiceRequest

LEMMA RequestStepType ==
  ASSUME BillingAssumption, TypeOK, NEW r \in Procs, RequestStep(r)
  PROVE  TypeOK'
<1>. USE DEF env, tables, work
<1>1. {"idle", "sync", "prorate", "link"} \subseteq Steps /\ <<>> \in Seq(Invoice)
  BY DEF Labels, Steps
<1>2. CASE SyncInvoice(r)
  <2>1. PICK n \in picked[r] \cap DOMAIN View(r).invs :
          /\ MarkInvoicePaid(r, View(r), n, "sync")
          /\ picked' = [picked EXCEPT ![r] = @ \ {n}]
    BY <1>2 DEF SyncInvoice
  <2>2. tx' \in [Procs -> Tx] /\ pc' \in [Procs -> Labels]
    BY <1>1, <2>1, ViewType, MarkInvoicePaidType
  <2>3. picked' \in [Procs -> SUBSET Nat]
    BY <2>1 DEF TypeOK
  <2>. QED
    BY <1>2, <2>2, <2>3 DEF SyncInvoice, TypeOK
<1>3. CASE EndSync(r)
  BY <1>1, <1>3, DropType, GoToType DEF EndSync, TypeOK
<1>4. CASE OpenLink(r)
  <2>1. gateway' \in [1 .. MaxInvoices -> Links]
    BY <1>4 DEF OpenLink, TypeOK, Links
  <2>. QED
    BY <1>1, <1>4, <2>1, DropType, GoToType DEF OpenLink, TypeOK
<1>5. CASE Prorate(r)
  <2>1. todo' \in [Procs -> SUBSET Orgs]
    BY <1>5 DEF Prorate, TypeOK
  <2>2. PICK o \in Orgs :
          \/ GoTo(r, "idle") /\ UNCHANGED tx
          \/ /\ orgs[o].plan # NoPlan
             /\ Begin(r, Db, Db, <<GeneratedInvoice(Db, o, "proration")>>, "idle", "idle", 0)
    BY <1>5 DEF Prorate, TypeOK
  <2>3. CASE GoTo(r, "idle") /\ UNCHANGED tx
    BY <1>1, <1>5, <2>1, <2>3, GoToType DEF Prorate, TypeOK
  <2>4. CASE /\ orgs[o].plan # NoPlan
             /\ Begin(r, Db, Db, <<GeneratedInvoice(Db, o, "proration")>>, "idle", "idle", 0)
    <3>1. <<GeneratedInvoice(Db, o, "proration")>> \in Seq(Invoice)
      BY <2>4, DbType, GeneratedInvoiceType DEF Db, Kinds
    <3>2. tx' \in [Procs -> Tx] /\ pc' \in [Procs -> Labels]
      BY <1>1, <2>4, <3>1, DbType, BeginType
    <3>. QED
      BY <1>5, <2>1, <3>2 DEF Prorate, TypeOK
  <2>. QED
    BY <2>2, <2>3, <2>4
<1>6. CASE Extend(r)
  <2>1. PICK chosen \in SUBSET Orgs \ {{}}, days \in FormDays \ {0} :
          Begin(r, Db, [Db EXCEPT !.orgs = [o \in Orgs |->
                  IF o \in chosen THEN [orgs[o] EXCEPT !.expiry = ExtendedFrom(@) + days]
                                  ELSE orgs[o]]], <<>>, "idle", "idle", 0)
    BY <1>6, Zenon DEF Extend
  <2>. DEFINE extended == [o \in Orgs |->
                IF o \in chosen THEN [orgs[o] EXCEPT !.expiry = ExtendedFrom(@) + days]
                                ELSE orgs[o]]
  <2>2. ASSUME NEW o \in Orgs PROVE extended[o] \in Organization
    <3>1. orgs[o] \in Organization
      BY DEF TypeOK
    <3>2. ExtendedFrom(orgs[o].expiry) + days \in Int
      <4>1. orgs[o].expiry \in Int \cup {NoDate} /\ today \in Int
        BY <3>1 DEF TypeOK, Organization
      <4>2. days \in Int
        BY DEF BillingAssumption
      <4>. QED
        BY <4>1, <4>2 DEF ExtendedFrom
    <3>. QED
      BY <3>1, <3>2 DEF Organization
  <2>3. extended \in [Orgs -> Organization]
    BY <2>2
  <2>. HIDE DEF extended
  <2>4. [Db EXCEPT !.orgs = extended] \in Snapshot
        /\ Len([Db EXCEPT !.orgs = extended].invs) = Len(Db.invs)
    BY <2>3, DbType DEF Snapshot
  <2>5. Begin(r, Db, [Db EXCEPT !.orgs = extended], <<>>, "idle", "idle", 0)
    BY <2>1 DEF extended
  <2>6. tx' \in [Procs -> Tx] /\ pc' \in [Procs -> Labels]
    BY <1>1, <2>4, <2>5, DbType, BeginType
  <2>. QED
    BY <1>6, <2>6 DEF Extend, TypeOK
<1>7. CASE Answer(r)
  <2>1. gateway' \in [1 .. MaxInvoices -> Links]
    BY <1>7 DEF Answer, TypeOK, Links
  <2>. QED
    BY <1>1, <1>7, <2>1, DropType, GoToType DEF Answer, TypeOK
<1>. QED
  BY <1>2, <1>3, <1>4, <1>5, <1>6, <1>7 DEF RequestStep

LEMMA TypeStep ==
  ASSUME BillingAssumption, TypeOK, [Next]_vars
  PROVE  TypeOK'
<1>. USE DEF env, tables, work
<1>1. ASSUME NEW p \in Procs, CycleStep(p) PROVE TypeOK'
  BY <1>1, CycleStepType
<1>2. ASSUME NEW p \in Procs, Crash(p) PROVE TypeOK'
  BY <1>2, DropType, GoToType DEF Crash, TypeOK, Labels, Steps
<1>3. ASSUME NEW r \in Requests,
             \/ RequestStep(r)
             \/ \E o \in Orgs : OrgRequest(r, o)
             \/ \E n \in 1 .. MaxInvoices : InvoiceRequest(r, n)
      PROVE  TypeOK'
  BY <1>3, RequestStepType, OrgRequestType, InvoiceRequestType DEF Procs
<1>4. ASSUME NEW n \in 1 .. MaxInvoices, CustomerPays(n) PROVE TypeOK'
  BY <1>4 DEF CustomerPays, TypeOK, Links
<1>5. CASE NextDay
  BY <1>5 DEF NextDay, TypeOK
<1>6. CASE UNCHANGED vars
  BY <1>6 DEF vars, TypeOK
<1>. QED
  BY <1>1, <1>2, <1>3, <1>4, <1>5, <1>6 DEF Next

\* Tables, snapshots and units of work stay well formed: a commit merges rows
\* column by column and never leaves a row that is no organization or invoice.
THEOREM TypeCorrect == Spec => []TypeOK
<1>1. Init => TypeOK
  BY TypeInit, BillingAssumption
<1>2. TypeOK /\ [Next]_vars => TypeOK'
  BY TypeStep, BillingAssumption
<1>. QED
  BY <1>1, <1>2, PTL DEF Spec
==============================================================================
