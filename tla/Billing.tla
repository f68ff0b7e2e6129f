------------------------------- MODULE Billing -------------------------------
(***************************************************************************)
(* Subscriptions, invoices, payments and suspension: the billing cycle of  *)
(* app/services/billing.py, the payment confirmation of                    *)
(* app/services/payment_gateway.py and the routes of                       *)
(* app/routes/frontend.py that change an organization's subscription.      *)
(*                                                                         *)
(* Every handler is a unit of work of the ORM: it reads the database in    *)
(* one snapshot (MySQL REPEATABLE READ), computes new attribute values in  *)
(* Python, and its commit writes, by primary key, the attributes it        *)
(* changed and nothing else.  Begin takes the snapshot, Commit writes, and *)
(* the other processes run in between.                                     *)
(*                                                                         *)
(* Time is counted in days.  A DATETIME is an integer, two to the day:     *)
(* Midnight(d) is the start of day d, Now the moment at which everything   *)
(* of the current day happens.                                             *)
(***************************************************************************)
EXTENDS Integers, Sequences, FiniteSets, Functions

CONSTANTS
  Orgs,            \* organizations
  Plans,           \* subscription plans
  NoPlan, NoDate,  \* NULL of subscription_plan_id, subscription_expiry_date
  Price,           \* Price[p]: the plan's price
  PlanCredits,     \* PlanCredits[p]: the messages the plan includes
  Schedulers,      \* processes whose BackgroundScheduler runs the daily cycle: with DEBUG
                   \* off every worker, with it on none under gunicorn (init_scheduler)
  Requests,        \* web worker slots: each serves one HTTP request at a time
  GraceDays,       \* AUTO_SUSPEND_GRACE_DAYS
  CycleDays,       \* _CYCLE_DAYS of the one billing cycle modelled
  RenewWindow,     \* a renewal is offered in the last RenewWindow days
  SelfServeDays,   \* days until a self-serve invoice is due
  ReminderDays,    \* REMINDER_DAYS_BEFORE_EXPIRY
  Ops,             \* the requests the environment makes
  InitPlans, InitExpiry, InitCredits, \* what organizations start with
  FormDays,        \* expiry dates and extensions typed into admin forms
  FormPayments,    \* payment statuses chosen in the subscription form
  MaxDay,          \* bound on today
  MaxExpiry,       \* bound on the dates extensions reach
  MaxInvoices      \* bound on the invoices issued

ASSUME BillingAssumption ==
  /\ NoPlan \notin Plans /\ NoDate \notin Int
  /\ Price \in [Plans -> Nat] /\ PlanCredits \in [Plans -> Nat]
  /\ GraceDays \in Nat /\ CycleDays \in Nat \ {0}
  /\ RenewWindow \in Nat /\ SelfServeDays \in Nat
  /\ ReminderDays \subseteq Nat
  /\ InitPlans \subseteq Plans \cup {NoPlan}
  /\ InitExpiry \subseteq Nat \cup {NoDate}
  /\ InitCredits \in Nat /\ FormDays \subseteq Nat
  /\ FormPayments \subseteq {"PENDING", "PAID", "OVERDUE"}
  /\ MaxDay \in Nat /\ MaxExpiry \in Nat /\ MaxInvoices \in Nat

Procs == Schedulers \cup Requests

VARIABLES
  today,      \* the current date
  orgs,       \* organizations table
  invoices,   \* invoices table; the position is the invoice number
  gateway,    \* gateway[n]: the payment link of invoice n at the provider
  pc,         \* what each process is doing
  todo,       \* organizations a process still has to visit in its loop
  picked,     \* invoice numbers a request still has to visit
  tx,         \* the unit of work each process has open
  lastRun,    \* the day on which each process last started a billing cycle
  reminded,   \* reminded[o]: renewal reminders emailed to o today
  activated,  \* history: numbers of the invoices whose purchase was applied
  reopened    \* history: numbers of those that turned OVERDUE afterwards

env  == <<today, gateway, lastRun, reminded>>
tables == <<orgs, invoices, activated, reopened>>
work == <<todo, picked>>
vars == <<env, tables, work, pc, tx>>

SelfServe == {"new", "renew", "upgrade"}   \* SELF_SERVE_MARKER kinds
Kinds     == SelfServe \cup {"job", "manual", "proration"}
Statuses  == {"PENDING", "PAID", "OVERDUE", "CANCELLED"}

Organization ==
  [plan : Plans \cup {NoPlan}, expiry : Int \cup {NoDate}, credits : Nat,
   pay : {"PENDING", "PAID", "OVERDUE", "NULL"}, status : {0, 1},
   deleted : BOOLEAN]

Invoice == [org : Orgs, plan : Plans, kind : Kinds, end : Int, due : Int,
            status : Statuses]

Midnight(d) == 2 * d
Now         == 2 * today + 1
DateOf(t)   == t \div 2
IsMidnight(t) == t % 2 = 0

Db == [orgs |-> orgs, invs |-> invoices]

NoOrg == [plan |-> NoPlan, expiry |-> NoDate, credits |-> 0, pay |-> "NULL",
          status |-> 0, deleted |-> FALSE]
Empty == [orgs |-> [o \in Orgs |-> NoOrg], invs |-> <<>>]
NoTx  == [open |-> FALSE, old |-> Empty, new |-> Empty, insert |-> <<>>,
          next |-> "idle", fail |-> "idle", num |-> 0]

Snapshot == [orgs : [Orgs -> Organization], invs : Seq(Invoice)]
Steps    == {"idle", "invoicing", "reminders", "sweep", "suspend", "sync", "link", "prorate",
             "answer"}
Links    == {"none", "open", "paid", "acknowledged"}
Labels   == Steps \cup {"commit"}
TxRecord == [open : BOOLEAN, old : Snapshot, new : Snapshot, insert : Seq(Invoice),
             next : Steps, fail : Steps, num : Nat]
Tx       == {t \in TxRecord : Len(t.new.invs) = Len(t.old.invs)}

TypeOK ==
  /\ today \in Nat
  /\ orgs \in [Orgs -> Organization]
  /\ invoices \in Seq(Invoice)
  /\ gateway \in [1 .. MaxInvoices -> Links]
  /\ pc \in [Procs -> Labels]
  /\ todo \in [Procs -> SUBSET Orgs]
  /\ picked \in [Procs -> SUBSET Nat]
  /\ tx \in [Procs -> Tx]
  /\ lastRun \in [Procs -> Nat]
  /\ reminded \in [Orgs -> Nat]
  /\ activated \subseteq Nat /\ reopened \subseteq Nat

Init ==
  /\ today = 1
  /\ orgs \in [Orgs -> [plan : InitPlans, expiry : InitExpiry, credits : {InitCredits},
                        pay : {"PENDING"}, status : {1}, deleted : {FALSE}]]
  /\ invoices = <<>>
  /\ gateway = [n \in 1 .. MaxInvoices |-> "none"]
  /\ pc = [p \in Procs |-> "idle"]
  /\ todo = [p \in Procs |-> {}] /\ picked = [p \in Procs |-> {}]
  /\ tx = [p \in Procs |-> NoTx]
  /\ lastRun = [p \in Procs |-> 0]
  /\ reminded = [o \in Orgs |-> 0]
  /\ activated = {} /\ reopened = {}

------------------------------------------------------------------------------
(* The unit of work                                                         *)

\* A consistent read sees the snapshot of the open transaction; without one it
\* takes a new snapshot, which the transaction keeps until it ends.
View(p) == IF tx[p].open THEN tx[p].old ELSE Db

Hold(p, s) == tx' = [tx EXCEPT ![p] = [NoTx EXCEPT !.open = TRUE, !.old = s, !.new = s]]

GoTo(p, label) == pc' = [pc EXCEPT ![p] = label]

\* Process p, which read s, is about to write new (and insert one invoice);
\* after the commit it continues at next, after a failed one at fail.
Begin(p, s, new, insert, next, fail, num) ==
  /\ tx' = [tx EXCEPT ![p] = [open |-> TRUE, old |-> s, new |-> new, insert |-> insert,
                              next |-> next, fail |-> fail, num |-> num]]
  /\ GoTo(p, "commit")

\* Mutant: the UPDATE writes the whole row, so a stale read undoes other commits.
FlushWholeRow(cur, old, new) == new

\* An UPDATE by primary key sets the columns whose attribute changed since it
\* was loaded; the other columns keep what other transactions committed.
Flush(cur, old, new) ==
  [f \in DOMAIN cur |-> IF new[f] # old[f] THEN new[f] ELSE cur[f]]

FlushOrgs(t)     == [o \in Orgs |-> Flush(orgs[o], t.old.orgs[o], t.new.orgs[o])]
FlushInvoices(t) ==
  [n \in DOMAIN invoices |->
     IF n \in DOMAIN t.old.invs
     THEN Flush(invoices[n], t.old.invs[n], t.new.invs[n])
     ELSE invoices[n]]

\* _next_invoice_number counts the invoices the snapshot sees
NextInvoiceNumber(s) == Len(s.invs) + 1

\* Mutant: the column has no UNIQUE constraint.
NumberNeverTaken(t) == t.insert # t.insert

\* invoices.invoice_number is UNIQUE: the INSERT fails when it is taken
NumberTaken(t) == t.insert # <<>> /\ NextInvoiceNumber(t.old) \in DOMAIN invoices

Commit(p) ==
  /\ pc[p] = "commit"
  /\ ~NumberTaken(tx[p])
  /\ orgs' = FlushOrgs(tx[p])
  /\ invoices' = FlushInvoices(tx[p]) \o tx[p].insert
  /\ activated' = activated \cup ({tx[p].num} \ {0})
  /\ reopened' = reopened \cup {n \in activated : invoices'[n].status = "OVERDUE"}
  /\ GoTo(p, tx[p].next)
  /\ tx' = [tx EXCEPT ![p] = NoTx]
  /\ UNCHANGED <<env, work>>

Drop(p) == /\ todo' = [todo EXCEPT ![p] = {}]
           /\ picked' = [picked EXCEPT ![p] = {}]
           /\ tx' = [tx EXCEPT ![p] = NoTx]

\* IntegrityError: the session is rolled back and the rest of the step, or of
\* the request, is abandoned
CommitFails(p) ==
  /\ pc[p] = "commit"
  /\ NumberTaken(tx[p])
  /\ GoTo(p, tx[p].fail)
  /\ Drop(p)
  /\ UNCHANGED <<env, tables>>

\* The worker process dies; the server rolls its transaction back
Crash(p) ==
  /\ "crash" \in Ops /\ pc[p] # "idle"
  /\ GoTo(p, "idle")
  /\ Drop(p)
  /\ UNCHANGED <<env, tables>>

Request(r, op) == r \in Requests /\ pc[r] = "idle" /\ op \in Ops

------------------------------------------------------------------------------
(* app/services/billing.py                                                  *)

IsActive(org) == ~org.deleted /\ org.status = 1

DueForInvoice(s) ==
  {o \in Orgs : /\ IsActive(s.orgs[o]) /\ s.orgs[o].plan # NoPlan
                /\ s.orgs[o].expiry # NoDate /\ s.orgs[o].expiry <= today + 1}

\* Mutant: the period is looked up by the day of the run, not by the expiry date.
HasInvoiceOfTomorrow(s, o) ==
  \E n \in DOMAIN s.invs : /\ s.invs[n].org = o /\ s.invs[n].status = "PENDING"
                           /\ s.invs[n].end = Midnight(today + 1)

HasOpenInvoice(s, o) ==
  /\ s.orgs[o].expiry # NoDate
  /\ \E n \in DOMAIN s.invs : /\ s.invs[n].org = o /\ s.invs[n].status = "PENDING"
                              /\ s.invs[n].end = Midnight(s.orgs[o].expiry)

\* Mutant: the plan is trusted to be the one the loop's query saw.
SkippedIfOpen(s, o) == HasOpenInvoice(s, o)

\* Organizations the loop does not invoice after all
Skipped(s, o) == HasOpenInvoice(s, o) \/ s.orgs[o].plan = NoPlan

\* generate_invoice_for_organization: an organization without an expiry date
\* is billed for the cycle that starts now
GeneratedInvoice(s, o, kind) ==
  LET end == IF s.orgs[o].expiry = NoDate THEN Now + 2 * CycleDays
                                          ELSE Midnight(s.orgs[o].expiry)
  IN  [org |-> o, plan |-> s.orgs[o].plan, kind |-> kind, end |-> end, due |-> end,
       status |-> "PENDING"]

\* The generation loop, over the organizations in rest, up to the next invoice
\* it inserts: the organizations before that one are not billed.
InvoiceLoop(p, rest) ==
  LET s     == View(p)
      clear == {o \in rest : Skipped(s, o)}
  IN
  \/ /\ rest = clear
     /\ Hold(p, s) /\ GoTo(p, "reminders")
     /\ todo' = [todo EXCEPT ![p] = {}]
  \/ \E o \in rest \ clear, skipped \in SUBSET clear :
     /\ Len(s.invs) < MaxInvoices
     /\ Begin(p, s, s, <<GeneratedInvoice(s, o, "job")>>, "invoicing", "reminders", 0)
     /\ todo' = [todo EXCEPT ![p] = rest \ (skipped \cup {o})]

\* run_billing_cycle starts: the daily job, or a super admin's button
StartCycle(p) ==
  /\ pc[p] = "idle" /\ lastRun[p] < today
  /\ p \in Schedulers \/ "cycle" \in Ops
  /\ lastRun' = [lastRun EXCEPT ![p] = today]
  /\ InvoiceLoop(p, DueForInvoice(Db))
  /\ UNCHANGED <<today, gateway, reminded, tables, picked>>

ContinueInvoicing(p) ==
  /\ pc[p] = "invoicing"
  /\ InvoiceLoop(p, todo[p])
  /\ UNCHANGED <<env, tables, picked>>

\* run_renewal_reminders: one mail to each organization whose expiry is
\* exactly a reminder distance away; a failed send is logged and skipped
DueForReminder(s) ==
  {o \in Orgs : /\ IsActive(s.orgs[o]) /\ s.orgs[o].expiry # NoDate
                /\ s.orgs[o].expiry - today \in ReminderDays}

SendReminders(p) ==
  /\ pc[p] = "reminders"
  /\ \E sent \in SUBSET DueForReminder(View(p)) :
       reminded' = [o \in Orgs |-> IF o \in sent THEN reminded[o] + 1 ELSE reminded[o]]
  /\ Hold(p, View(p)) /\ GoTo(p, "sweep")
  /\ UNCHANGED <<today, gateway, lastRun, tables, work>>

\* run_overdue_invoice_sweep; it commits only when it changed something
Swept(inv) == IF inv.status = "PENDING" /\ inv.due < Now
              THEN [inv EXCEPT !.status = "OVERDUE"] ELSE inv

SweepOverdue(p) ==
  LET s   == View(p)
      new == [s EXCEPT !.invs = [n \in DOMAIN s.invs |-> Swept(s.invs[n])]]
  IN
  /\ pc[p] = "sweep"
  /\ IF new # s THEN Begin(p, s, new, <<>>, "suspend", "suspend", 0)
                ELSE Hold(p, s) /\ GoTo(p, "suspend")
  /\ UNCHANGED <<env, tables, work>>

\* run_auto_suspend; it commits only when it changed something
Lapsed(org) == /\ IsActive(org) /\ org.expiry # NoDate
               /\ org.expiry < today - GraceDays

\* Mutant: the lapse is noted but access is left on.
SuspendedInNameOnly(org) == IF Lapsed(org) THEN [org EXCEPT !.pay = "OVERDUE"] ELSE org

Suspended(org) ==
  IF Lapsed(org) THEN [org EXCEPT !.status = 0, !.pay = "OVERDUE"] ELSE org

AutoSuspend(p) ==
  LET s   == View(p)
      new == [s EXCEPT !.orgs = [o \in Orgs |-> Suspended(s.orgs[o])]]
  IN
  /\ \/ pc[p] = "suspend"
     \/ Request(p, "dashboard")  \* the super admin dashboard runs it as well
  /\ IF new # s THEN Begin(p, s, new, <<>>, "idle", "idle", 0)
                ELSE tx' = [tx EXCEPT ![p] = NoTx] /\ GoTo(p, "idle")
  /\ UNCHANGED <<env, tables, work>>

------------------------------------------------------------------------------
(* app/services/payment_gateway.py                                          *)

IncludedCredits(plan) == IF plan = NoPlan THEN 0 ELSE PlanCredits[plan]

Extra(new, old) == IF new > old THEN new - old ELSE 0

\* A suspension whose payment is OVERDUE counts as an automatic one
SwitchedOn(org) ==
  IF org.status = 0 /\ org.pay = "OVERDUE"
  THEN [org EXCEPT !.status = 1] ELSE org

\* activate_self_serve_purchase
Activated(org, inv) ==
  IF inv.kind = "upgrade"
  THEN [org EXCEPT !.plan = inv.plan,
                   !.credits = @ + Extra(PlanCredits[inv.plan], IncludedCredits(org.plan)),
                   !.expiry = IF DateOf(inv.end) <= today THEN today + CycleDays
                                                          ELSE DateOf(inv.end)]
  ELSE [SwitchedOn(org) EXCEPT !.plan = inv.plan, !.credits = @ + PlanCredits[inv.plan],
                               !.expiry = DateOf(inv.end)]

\* Mutant: a repeated confirmation applies the purchase again.
ActivatesAgain(inv) == inv.kind \in SelfServe

Activates(inv) == inv.kind \in SelfServe /\ inv.status \notin {"PAID", "CANCELLED"}

\* mark_invoice_paid(n) in a process that read s and continues at next
MarkInvoicePaid(p, s, n, next) ==
  LET inv == s.invs[n]
      org == IF Activates(inv) THEN Activated(s.orgs[inv.org], inv) ELSE s.orgs[inv.org]
      new == [orgs |-> [s.orgs EXCEPT ![inv.org] = [org EXCEPT !.pay = "PAID"]],
              invs |-> [s.invs EXCEPT ![n].status = "PAID"]]
  IN  Begin(p, s, new, <<>>, next, next, IF Activates(inv) THEN n ELSE 0)

\* Mutant: only the payment of a PENDING invoice is recorded.
OnlyPending(inv) == inv.status = "PENDING"

\* A confirmation is recorded once, whatever happened to the invoice meanwhile
Unrecorded(inv) == inv.status # "PAID"

PaidAtProvider(n) == gateway[n] \in {"paid", "acknowledged"}

\* webhook_razorpay, webhook_cashfree, webhook_stripe: the provider delivers
\* "invoice n was paid".  The handler answers 200 whether it recorded the payment
\* or found it recorded.
Webhook(r, n) ==
  /\ Request(r, "webhook")
  /\ n \in DOMAIN invoices /\ PaidAtProvider(n)
  /\ picked' = [picked EXCEPT ![r] = {n}]
  /\ IF Unrecorded(invoices[n]) THEN MarkInvoicePaid(r, Db, n, "answer")
                                ELSE GoTo(r, "answer") /\ UNCHANGED tx
  /\ UNCHANGED <<env, tables, todo>>

\* The provider gets the answer, and has no reason to deliver again what it
\* delivered (late duplicates apart); or the answer is lost, and it will.
Answer(r) ==
  /\ pc[r] = "answer"
  /\ \E heard \in SUBSET picked[r] :
       gateway' = [n \in DOMAIN gateway |-> IF n \in heard THEN "acknowledged" ELSE gateway[n]]
  /\ GoTo(r, "idle") /\ Drop(r)
  /\ UNCHANGED <<today, lastRun, reminded, tables>>

\* The billing pages ask the provider about every PENDING invoice with a link
StartSync(r, o) ==
  /\ Request(r, "sync")
  /\ LET pending == {n \in DOMAIN invoices : /\ invoices[n].org = o
                                              /\ invoices[n].status = "PENDING"
                                              /\ gateway[n] # "none"}
     IN  pending # {} /\ picked' = [picked EXCEPT ![r] = pending]
  /\ Hold(r, Db) /\ GoTo(r, "sync")
  /\ UNCHANGED <<env, tables, todo>>

SyncInvoice(r) ==
  LET s == View(r) IN
  /\ pc[r] = "sync"
  /\ \E n \in picked[r] \cap DOMAIN s.invs :
       /\ PaidAtProvider(n) /\ Unrecorded(s.invs[n])
       /\ MarkInvoicePaid(r, s, n, "sync")
       /\ picked' = [picked EXCEPT ![r] = @ \ {n}]
  /\ UNCHANGED <<env, tables, todo>>

\* The other invoices were unpaid at the time the provider was asked
EndSync(r) ==
  /\ pc[r] = "sync"
  /\ GoTo(r, "idle") /\ Drop(r)
  /\ UNCHANGED <<env, tables>>

\* super_admin_mark_invoice_paid looks at no status
MarkPaid(r, n) ==
  /\ Request(r, "markPaid")
  /\ n \in DOMAIN invoices
  /\ MarkInvoicePaid(r, Db, n, "idle")
  /\ UNCHANGED <<env, tables, work>>

\* create_payment_link for the picked invoice; an existing link is reused
OpenLink(r) ==
  /\ pc[r] = "link"
  /\ gateway' = [n \in DOMAIN gateway |->
                   IF n \in picked[r] /\ gateway[n] = "none" THEN "open" ELSE gateway[n]]
  /\ GoTo(r, "idle") /\ Drop(r)
  /\ UNCHANGED <<today, lastRun, reminded, tables>>

\* Mutant: purchases that still await payment are overlooked.
IsOverdue(inv) == inv.status = "OVERDUE"

IsOpen(inv) == inv.status \in {"PENDING", "OVERDUE"}

\* organization_billing_pay_invoice, and super_admin_generate_payment_link, which
\* looks at no status
PayInvoice(r, n) ==
  /\ n \in DOMAIN invoices
  /\ \/ Request(r, "pay") /\ IsOpen(invoices[n])
     \/ Request(r, "payOnline")
  /\ GoTo(r, "link")
  /\ picked' = [picked EXCEPT ![r] = {n}]
  /\ UNCHANGED <<env, tables, todo, tx>>

\* The customer pays on the provider's page
CustomerPays(n) ==
  /\ n \in DOMAIN gateway /\ gateway[n] = "open"
  /\ gateway' = [gateway EXCEPT ![n] = "paid"]
  /\ UNCHANGED <<today, lastRun, reminded, tables, work, pc, tx>>

------------------------------------------------------------------------------
(* The organization's own Plan & Billing page                               *)

\* (expiry_dt - now).days
DaysLeft(expiry) == expiry - today - 1

\* calculate_prorated_amount, times CycleDays
ProratedAmount(old, new, expiry) ==
  LET left == IF expiry = NoDate THEN CycleDays
              ELSE IF DaysLeft(expiry) > CycleDays THEN CycleDays
              ELSE Extra(DaysLeft(expiry), 0)
  IN  Extra(Price[new] * CycleDays, Price[old] * left)

\* _org_plan_change
PlanChange(org, plan) ==
  LET active == org.plan # NoPlan /\ org.expiry # NoDate /\ org.expiry > today IN
  CASE Price[plan] = 0                            -> "contact"
    [] Price[plan] # 0 /\ ~active                 -> "new"
    [] Price[plan] # 0 /\ active /\ org.plan = plan ->
         IF DaysLeft(org.expiry) > RenewWindow THEN "current" ELSE "renew"
    [] Price[plan] # 0 /\ active /\ org.plan # plan ->
         IF /\ Price[plan] > Price[org.plan]
            /\ ProratedAmount(org.plan, plan, org.expiry) > 0
         THEN "upgrade" ELSE "contact"

PurchaseInvoice(s, o, plan, kind) ==
  [org |-> o, plan |-> plan, kind |-> kind,
   end |-> IF kind = "renew" THEN Midnight(s.orgs[o].expiry + CycleDays)
                             ELSE Now + 2 * CycleDays,
   due |-> Now + 2 * SelfServeDays, status |-> "PENDING"]

IsOpenPurchase(inv, o) == inv.org = o /\ inv.kind \in SelfServe /\ IsOpen(inv)

\* organization_billing_choose_plan: open purchases of something else are
\* cancelled, one of the same is paid again instead of inserting a new one
ChoosePlan(r, o, plan) ==
  LET kind   == PlanChange(orgs[o], plan)
      open   == {n \in DOMAIN invoices : IsOpenPurchase(invoices[n], o)}
      same   == {n \in open : invoices[n].plan = plan /\ invoices[n].kind = kind}
      placed == [Db EXCEPT !.invs = [n \in DOMAIN invoices |->
                   IF n \in open \ same THEN [invoices[n] EXCEPT !.status = "CANCELLED"]
                                        ELSE invoices[n]]]
  IN
  /\ Request(r, "choose")
  /\ kind \in SelfServe
  /\ \/ \E n \in same :
        /\ Begin(r, Db, placed, <<>>, "link", "idle", 0)
        /\ picked' = [picked EXCEPT ![r] = {n}]
     \/ /\ same = {} /\ Len(invoices) < MaxInvoices
        /\ Begin(r, Db, placed, <<PurchaseInvoice(Db, o, plan, kind)>>, "link", "idle", 0)
        /\ picked' = [picked EXCEPT ![r] = {NextInvoiceNumber(Db)}]
  /\ UNCHANGED <<env, tables, todo>>

------------------------------------------------------------------------------
(* The super admin's pages                                                  *)

WriteOrg(r, o, org, next) ==
  Begin(r, Db, [Db EXCEPT !.orgs[o] = org], <<>>, next, "idle", 0)

\* super_admin_generate_invoice
GenerateInvoice(r, o) ==
  /\ Request(r, "generate")
  /\ orgs[o].plan # NoPlan /\ Len(invoices) < MaxInvoices
  /\ Begin(r, Db, Db, <<GeneratedInvoice(Db, o, "manual")>>, "idle", "idle", 0)
  /\ UNCHANGED <<env, tables, work>>

\* super_admin_subscription: the form overwrites what it shows, then a change
\* of plan is invoiced in a second unit of work
Subscribe(r, o) ==
  /\ Request(r, "subscribe")
  /\ \E plan \in Plans \cup {NoPlan}, expiry \in FormDays \cup {NoDate},
        credits \in {InitCredits, orgs[o].credits}, pay \in FormPayments :
       LET old       == orgs[o]
           prorated  == /\ NoPlan \notin {old.plan, plan} /\ plan # old.plan
                        /\ ProratedAmount(old.plan, plan, old.expiry) > 0
       IN /\ WriteOrg(r, o, [old EXCEPT !.plan = plan, !.expiry = expiry,
                                        !.credits = credits, !.pay = pay],
                      IF prorated THEN "prorate" ELSE "idle")
          /\ todo' = [todo EXCEPT ![r] = IF prorated THEN {o} ELSE {}]
  /\ UNCHANGED <<env, tables, picked>>

Prorate(r) ==
  /\ pc[r] = "prorate"
  /\ \E o \in todo[r] :
       IF orgs[o].plan = NoPlan
       THEN GoTo(r, "idle") /\ UNCHANGED tx
       ELSE /\ Len(invoices) < MaxInvoices
            /\ Begin(r, Db, Db, <<GeneratedInvoice(Db, o, "proration")>>, "idle", "idle", 0)
  /\ todo' = [todo EXCEPT ![r] = {}]
  /\ UNCHANGED <<env, tables, picked>>

\* super_admin_organizations_bulk_topup, extend_subscription
ExtendedFrom(expiry) == IF expiry # NoDate /\ expiry >= today THEN expiry ELSE today

Extend(r) ==
  /\ Request(r, "extend")
  /\ \E chosen \in SUBSET Orgs \ {{}}, days \in FormDays \ {0} :
       /\ \A o \in chosen : ExtendedFrom(orgs[o].expiry) + days <= MaxExpiry
       /\ Begin(r, Db, [Db EXCEPT !.orgs = [o \in Orgs |->
               IF o \in chosen
               THEN [orgs[o] EXCEPT !.expiry = ExtendedFrom(@) + days]
               ELSE orgs[o]]], <<>>, "idle", "idle", 0)
  /\ UNCHANGED <<env, tables, work>>

\* super_admin_suspend_organization
Suspend(r, o) ==
  /\ Request(r, "suspend")
  /\ orgs[o].status = 1
  /\ WriteOrg(r, o, [orgs[o] EXCEPT !.status = 0], "idle")
  /\ UNCHANGED <<env, tables, work>>

\* super_admin_activate_organization
Activate(r, o) ==
  /\ Request(r, "activate")
  /\ orgs[o].status = 0
  /\ WriteOrg(r, o, [orgs[o] EXCEPT !.status = 1], "idle")
  /\ UNCHANGED <<env, tables, work>>

\* super_admin_delete_organization
Delete(r, o) ==
  /\ Request(r, "delete")
  /\ WriteOrg(r, o, [orgs[o] EXCEPT !.deleted = TRUE, !.status = 0], "idle")
  /\ UNCHANGED <<env, tables, work>>

\* super_admin_edit_organization reads subscription fields that its form does
\* not contain, so saving the contact details clears them
Edit(r, o) ==
  /\ Request(r, "edit")
  /\ \E status \in {0, 1} :
       WriteOrg(r, o, [orgs[o] EXCEPT !.plan = NoPlan, !.expiry = NoDate, !.credits = 0,
                                      !.pay = "NULL", !.status = status],
                "idle")
  /\ UNCHANGED <<env, tables, work>>

------------------------------------------------------------------------------

\* The job of each running scheduler is over well before the day is
NextDay ==
  /\ today < MaxDay
  /\ \A j \in Schedulers : lastRun[j] = today /\ pc[j] = "idle"
  /\ today' = today + 1
  /\ reminded' = [o \in Orgs |-> 0]
  /\ UNCHANGED <<gateway, lastRun, tables, work, pc, tx>>

CycleStep(p) == \/ StartCycle(p) \/ ContinueInvoicing(p) \/ SendReminders(p)
                \/ SweepOverdue(p) \/ AutoSuspend(p) \/ Commit(p) \/ CommitFails(p)

OrgRequest(r, o) == \/ StartSync(r, o) \/ GenerateInvoice(r, o) \/ Subscribe(r, o)
                    \/ Suspend(r, o) \/ Activate(r, o) \/ Delete(r, o) \/ Edit(r, o)
                    \/ \E plan \in Plans : ChoosePlan(r, o, plan)

InvoiceRequest(r, n) == Webhook(r, n) \/ MarkPaid(r, n) \/ PayInvoice(r, n)

RequestStep(r) == \/ SyncInvoice(r) \/ EndSync(r) \/ OpenLink(r) \/ Prorate(r) \/ Extend(r)
                  \/ Answer(r)

Next ==
  \/ \E p \in Procs : CycleStep(p) \/ Crash(p)
  \/ \E r \in Requests :
       \/ RequestStep(r)
       \/ \E o \in Orgs : OrgRequest(r, o)
       \/ \E n \in 1 .. MaxInvoices : InvoiceRequest(r, n)
  \/ \E n \in 1 .. MaxInvoices : CustomerPays(n)
  \/ NextDay

Spec == Init /\ [][Next]_vars

\* Days pass, a started job or request runs to its end, and a provider repeats
\* its webhook until one delivery is answered, not longer; nobody is obliged to
\* ask or to pay.
RequestEnds(r) == \/ Commit(r) \/ CommitFails(r) \/ OpenLink(r) \/ EndSync(r) \/ Prorate(r)
                  \/ Answer(r)

Delivery(n) == gateway[n] = "paid" /\ \E r \in Requests : Webhook(r, n)

Fairness ==
  /\ WF_vars(NextDay)
  /\ \A j \in Schedulers : WF_vars(CycleStep(j))
  /\ \A r \in Requests : WF_vars(RequestEnds(r))
  /\ \A n \in 1 .. MaxInvoices : SF_vars(Delivery(n))

FairSpec == Spec /\ Fairness

------------------------------------------------------------------------------
(* Safety                                                                   *)

\* The billing job never bills the period of an expiry date twice: when it issued
\* invoice n, no earlier invoice of the organization for that period was still
\* PENDING, however many schedulers and requests issued invoices at the same time.
\* (An organization that loses its date while the loop runs is billed from Now.)
OneOpenJobInvoice ==
  \A m, n \in DOMAIN invoices :
    /\ m < n /\ invoices[n].kind = "job" /\ IsMidnight(invoices[n].end)
    /\ invoices[m].org = invoices[n].org /\ invoices[m].end = invoices[n].end
    => {invoices[m].status, invoices[n].status} # {"PENDING"}

\* However often the customer presses the button, at most one plan purchase of
\* an organization awaits payment (choose-plan cancels or reuses the others).
OnePendingPurchase ==
  \A m, n \in DOMAIN invoices :
    /\ m < n /\ invoices[m].org = invoices[n].org
    /\ {invoices[m].kind, invoices[n].kind} \subseteq SelfServe
    => {invoices[m].status, invoices[n].status} # {"PENDING"}

\* An invoice only evolves: its status changes, and never back to PENDING.
Evolved(i, j)   == /\ j = [i EXCEPT !.status = j.status]
                   /\ j.status = "PENDING" => i.status = "PENDING"
Later(old, now) == /\ Len(old) <= Len(now)
                   /\ \A n \in 1 .. Len(old) : Evolved(old[n], now[n])

Unrivalled(inv, rivals, kinds) ==
  ~ \E n \in DOMAIN rivals : /\ rivals[n].status = "PENDING" /\ rivals[n].org = inv.org
                             /\ rivals[n].kind \in kinds
                             /\ inv.kind = "job" => rivals[n].end = inv.end

Consistent(t) ==
  /\ t.open => Later(t.old.invs, invoices) /\ Later(t.old.invs, t.new.invs)
  /\ t.insert # <<>> =>
       /\ Len(t.insert) = 1 /\ t.insert[1].status = "PENDING"
       /\ t.insert[1].kind = "job" /\ IsMidnight(t.insert[1].end) =>
            Unrivalled(t.insert[1], t.old.invs, Kinds)
       /\ t.insert[1].kind \in SelfServe => Unrivalled(t.insert[1], t.new.invs, SelfServe)

\* However stale the snapshot of a unit of work is, the table has only evolved
\* since, the unit itself only makes invoices evolve, and the invoice it is about
\* to insert has no pending rival in what it read (or is about to write): what
\* the optimistic numbering relies on when it lets the commit through.
UnitsOfWorkConsistent ==
  \A p \in Procs : Consistent(tx[p]) /\ (pc[p] = "commit" => tx[p].open)

\* A deletion is permanent: no unit of work that read the organization before it
\* was deleted brings it back by writing what it read.
DeletedStaysDeleted ==
  [][\A o \in Orgs : orgs[o].deleted => orgs'[o].deleted]_vars

Bought(o) == {n \in activated : invoices[n].org = o}

\* The credits of the plan that each invoice is for
Worth == [n \in DOMAIN invoices |-> PlanCredits[invoices[n].plan]]

\* Paying for a plan grants its credits once, whichever of the webhook, the
\* billing pages and the Mark as Paid button confirm the payment and however
\* they interleave - as long as no applied invoice turned OVERDUE again.
GrantedOnce ==
  \A o \in Orgs : Bought(o) \cap reopened = {} =>
    orgs[o].credits <= InitCredits + SumFunctionOnSet(Worth, Bought(o))

\* The invoices table keeps the promises of InvoiceRegister.
Register == INSTANCE InvoiceRegister WITH register <- invoices
RegisterSpec == Register!RegSpec
------------------------------------------------------------------------------
(* Liveness                                                                 *)

\* An organization whose grace period is over does not keep its access: within
\* the next daily cycle it is suspended, unless someone extended or renewed it.
LapsedLosesAccess ==
  \A o \in Orgs : (Lapsed(orgs[o]) /\ today < MaxDay) ~> ~Lapsed(orgs[o])

\* A payment that the provider has and for which no delivery awaits its answer is
\* recorded: the invoice becomes PAID although other requests keep writing the same
\* rows.  It need not remain so: a sweep that read the invoice before then writes
\* OVERDUE over PAID, and once the delivery is answered nobody records it again.
PaymentIsRecorded ==
  \A n \in 1 .. MaxInvoices :
    gateway[n] = "paid" /\ (\A r \in Requests : pc[r] = "answer" => n \notin picked[r])
      ~> n \in DOMAIN invoices /\ invoices[n].status = "PAID"
=============================================================================
