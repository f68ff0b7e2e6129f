--------------------------- MODULE InvoiceRegister ---------------------------
(***************************************************************************)
(* What the invoices table promises to the rest of the system: invoices    *)
(* are numbered consecutively, an issued invoice never changes except in   *)
(* its status, a status never returns to PENDING, and the billing job      *)
(* issues an invoice that ends at an expiry date only when the period has  *)
(* none pending (dates are midnights, the even moments).  Each promise is  *)
(* one atomic step here; Billing shows that the snapshots and optimistic   *)
(* numbering of the program keep them.                                     *)
(***************************************************************************)
EXTENDS Integers, Sequences

CONSTANTS Orgs, Plans, Kinds, Statuses

VARIABLE register   \* the invoices in the order of their numbers

Invoice == [org : Orgs, plan : Plans, kind : Kinds, end : Int, due : Int,
            status : Statuses]

RegInit == register = <<>>

Pending(n) == register[n].status = "PENDING"

\* s is the register after some statuses changed
Restated(s) ==
  /\ DOMAIN s = DOMAIN register
  /\ \A n \in DOMAIN register :
       /\ s[n] = [register[n] EXCEPT !.status = s[n].status]
       /\ s[n].status \in Statuses
       /\ s[n].status = "PENDING" => Pending(n)

MayIssue(inv) ==
  /\ inv.status = "PENDING"
  /\ inv.kind = "job" /\ inv.end % 2 = 0 =>
       ~ \E n \in DOMAIN register :
           Pending(n) /\ register[n].org = inv.org /\ register[n].end = inv.end

Restate == Restated(register')

Issue == /\ Len(register') = Len(register) + 1
         /\ register'[Len(register')] \in Invoice
         /\ MayIssue(register'[Len(register')])
         /\ Restated(SubSeq(register', 1, Len(register)))

RegNext == Restate \/ Issue

RegSpec == RegInit /\ [][RegNext]_register
==============================================================================
