------------------------------ MODULE MCBilling ------------------------------
(* Billing on small instances: two plans, a three-day billing cycle; the     *)
(* properties that need fairness or quote the repository's documents.        *)
EXTENDS Billing, TLC

CONSTANTS basic, pro

MCPlans       == {basic, pro}
MCPrice       == basic :> 1 @@ pro :> 2
MCPlanCredits == basic :> 1 @@ pro :> 3

------------------------------------------------------------------------------
(* What a docstring of the repository says, and TLC refutes.                 *)

\* run_billing_cycle.py: safe to run more than once a day, each step idempotent.
\* A period is invoiced by the job once.
BilledOnce ==
  \A m, n \in DOMAIN invoices :
    /\ m # n /\ {invoices[m].kind, invoices[n].kind} = {"job"}
    /\ invoices[m].org = invoices[n].org
    => invoices[m].end # invoices[n].end
==============================================================================
