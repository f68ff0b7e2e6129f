---------------------------- MODULE MCMessaging ----------------------------
(* Messaging on small instances, and what a comment of the repository says. *)
EXTENDS Messaging

\* init_scheduler: with DEBUG off there is only one process, nothing fires twice.  A
\* queued message that a retry has delivered is not delivered again.
AcceptedOnce == \A i \in DOMAIN accepted : accepted[i] <= 1
=============================================================================
