------------------------------ MODULE Messaging ------------------------------
(***************************************************************************)
(* Sending e-mail and WhatsApp messages on an organization's credits:      *)
(* app/services/messaging_service.py with its retry queue, and the forms   *)
(* that top credits up.                                                    *)
(*                                                                         *)
(* A credit is reserved by one UPDATE before the provider is called and    *)
(* refunded by another when the call fails.  The ledger row, the log row,  *)
(* the retry item and its settlement are commits of their own, so other    *)
(* processes run, and a worker may die, between any two of them.  The      *)
(* clock is abstract: an item in the queue becomes due some time after it  *)
(* was scheduled.                                                          *)
(***************************************************************************)
EXTENDS Integers, Sequences, FiniteSets

CONSTANTS
  Emails, WhatsApps,  \* accounts: organizations' email_credits, whatsapp_credits
  Senders,            \* request slots and notification jobs that send or top up
  Retriers,           \* processes whose scheduler runs run_notification_retries: with
                      \* DEBUG off, every worker
  InitCredits,        \* credits of an account at the start
  MaxRetries,         \* Len(RETRY_DELAYS_MINUTES) + 1
  Amounts,            \* credits added by one top-up
  Ops,                \* what else happens: "topup", "settings", "crash"
  MaxRequests,        \* bound on the messages sent and top-ups made
  MaxCredits          \* bound on the balance a top-up leaves

ASSUME MessagingAssumption ==
  /\ Emails \cup WhatsApps # {} /\ Emails \cap WhatsApps = {}
  /\ Senders \cap Retriers = {}
  /\ IsFiniteSet(Senders) /\ IsFiniteSet(Retriers)
  /\ InitCredits \in Nat /\ MaxRetries \in Nat \ {0}
  /\ Amounts \subseteq Nat \ {0} /\ MaxRequests \in Nat /\ MaxCredits \in Nat

Accounts == Emails \cup WhatsApps
Procs    == Senders \cup Retriers

VARIABLES
  balance,   \* credits of an account
  ledger,    \* the last row of communication_transactions of an account
  queue,     \* notification_retries
  own,       \* the organization saved its own server or number for this channel
  pc, job,   \* what each process is doing, and for which message
  todo,      \* items a retry run still has to visit
  form,      \* the balances a top-up has read
  requests,  \* messages sent and top-ups made so far
  spent,     \* history: credits that paid for an accepted message
  added,     \* history: what top-ups and crashes changed in the sum of credits
  tries,     \* history: tries[i]: how often item i was retried, up to MaxRetries
  accepted   \* history: accepted[i]: how often a retry of i was accepted, up to 2

tables  == <<balance, ledger, queue>>
history == <<spent, added, tries, accepted>>
work    == <<todo, form>>
vars    == <<tables, own, pc, job, work, requests, history>>

Item == [acct : Accounts, attempts : Nat, status : {"pending", "sent", "failed"},
         due : BOOLEAN]

Labels == {"idle", "debit", "debitRow", "send", "sent", "refund", "credit", "creditRow",
           "failed", "count", "retrying", "topup"}

\* charged: it holds a credit; retry: a failure is queued; item: the queue item
\* retried, 0 for a new message; seen: what it read for the row it writes next
Job == [acct : Accounts, charged : BOOLEAN, retry : BOOLEAN, item : Nat, seen : Nat]

NoJob == [acct |-> CHOOSE a \in Accounts : TRUE, charged |-> FALSE, retry |-> FALSE,
          item |-> 0, seen |-> 0]

TypeOK ==
  /\ balance \in [Accounts -> Nat]
  /\ ledger \in [Accounts -> [change : {-1, 0, 1}, after : Nat]]
  /\ queue \in Seq(Item)
  /\ own \in [Accounts -> BOOLEAN]
  /\ pc \in [Procs -> Labels]
  /\ job \in [Procs -> Job]
  /\ todo \in [Procs -> SUBSET Nat]
  /\ form \in [Procs -> [Accounts -> Nat]]
  /\ requests \in Nat
  /\ spent \in [Accounts -> Nat] /\ added \in [Accounts -> Int]
  /\ tries \in Seq(Nat) /\ Len(tries) = Len(queue)
  /\ accepted \in Seq(Nat) /\ Len(accepted) = Len(queue)

Init ==
  /\ balance = [a \in Accounts |-> InitCredits]
  /\ ledger = [a \in Accounts |-> [change |-> 0, after |-> InitCredits]]
  /\ queue = <<>>
  /\ own \in [Accounts -> BOOLEAN]
  /\ pc = [p \in Procs |-> "idle"]
  /\ job = [p \in Procs |-> NoJob]
  /\ todo = [p \in Procs |-> {}]
  /\ form = [p \in Procs |-> [a \in Accounts |-> 0]]
  /\ requests = 0
  /\ spent = [a \in Accounts |-> 0] /\ added = [a \in Accounts |-> 0]
  /\ tries = <<>> /\ accepted = <<>>

------------------------------------------------------------------------------
(* Credits                                                                  *)

UpTo(bound, n) == IF n > bound THEN bound ELSE n

GoTo(p, label)   == pc' = [pc EXCEPT ![p] = label]
Finish(p, label) == GoTo(p, label) /\ job' = [job EXCEPT ![p] = NoJob]

\* Mutant: the balance is not part of the UPDATE's condition.
AnyBalance(a) == balance[a] >= 0

HasCredit(a) == balance[a] > 0

Picked(a, i, charged) ==
  [acct |-> a, charged |-> charged, retry |-> a \in Emails, item |-> i,
   seen |-> IF i = 0 THEN 0 ELSE queue[i].attempts]

Pick(p, a, i, charged, label) ==
  GoTo(p, label) /\ job' = [job EXCEPT ![p] = Picked(a, i, charged)]

\* _reserve_email_credit, _reserve_whatsapp_credit for message or item i of
\* account a: an organization on its own server does not pay; the UPDATE takes a
\* credit only where there is one, and is committed before the provider is called
Reserve(p, a, i) ==
  \/ own[a] /\ Pick(p, a, i, FALSE, "send") /\ UNCHANGED balance
  \/ /\ ~own[a] /\ HasCredit(a)
     /\ balance' = [balance EXCEPT ![a] = @ - 1]
     /\ Pick(p, a, i, TRUE, "debit")
  \/ /\ i = 0 /\ Finish(p, "idle")  \* no credit left, channel off or not configured
     /\ UNCHANGED balance
  \/ /\ i # 0 /\ ~own[a] /\ ~HasCredit(a)
     /\ Pick(p, a, i, FALSE, "failed")
     /\ UNCHANGED balance
  \/ /\ i # 0 /\ a \in WhatsApps  \* not configured
     /\ Pick(p, a, i, FALSE, "count")
     /\ UNCHANGED balance

\* _credit_tx: the balance is read again, then the row is written; when that
\* fails the row is missing and the caller goes on
ReadBalance(p) ==
  /\ pc[p] \in {"debit", "credit"}
  /\ job' = [job EXCEPT ![p].seen = balance[job[p].acct]]
  /\ GoTo(p, IF pc[p] = "debit" THEN "debitRow" ELSE "creditRow")
  /\ UNCHANGED <<tables, own, work, requests, history>>

WriteRow(p) ==
  /\ pc[p] \in {"debitRow", "creditRow"}
  /\ LET row == [change |-> IF pc[p] = "debitRow" THEN -1 ELSE 1, after |-> job[p].seen]
     IN  \/ ledger' = [ledger EXCEPT ![job[p].acct] = row]
         \/ "crash" \in Ops /\ ledger' = ledger
  /\ GoTo(p, IF pc[p] = "debitRow" THEN "send" ELSE "failed")
  /\ UNCHANGED <<balance, queue, own, job, work, requests, history>>

\* Mutant: whether a credit is owed is looked up again after the call.
OwedByNow(p) == ~own[job[p].acct]

\* charge_credit: decided when the credit was reserved
Owed(p) == job[p].charged

\* _refund_email_credit, _refund_whatsapp_credit
Refund(p) ==
  /\ pc[p] = "refund"
  /\ balance' = [balance EXCEPT ![job[p].acct] = @ + 1]
  /\ job' = [job EXCEPT ![p].charged = FALSE]
  /\ GoTo(p, "credit")
  /\ UNCHANGED <<ledger, queue, own, work, requests, history>>

------------------------------------------------------------------------------
(* send_email, send_whatsapp                                                *)

Send(p, a) ==
  /\ p \in Senders /\ pc[p] = "idle" /\ requests < MaxRequests
  /\ requests' = requests + 1
  /\ Reserve(p, a, 0)
  /\ UNCHANGED <<ledger, queue, own, work, history>>

\* The provider takes the message (or the e-mail gateway's answer times out,
\* which counts as sent)
Accept(p) ==
  /\ pc[p] = "send"
  /\ spent' = [spent EXCEPT ![job[p].acct] = @ + IF job[p].charged THEN 1 ELSE 0]
  /\ accepted' = IF job[p].item = 0 THEN accepted
                 ELSE [accepted EXCEPT ![job[p].item] = UpTo(2, @ + 1)]
  /\ IF job[p].item = 0
     THEN Finish(p, "idle")
     ELSE GoTo(p, "sent") /\ job' = [job EXCEPT ![p].charged = FALSE]
  /\ UNCHANGED <<tables, own, work, requests, added, tries>>

\* The call raises: refused, unreachable, timed out, or the log row after it
\* failed.  WhatsApp queues a new message for a network error, not for a refusal.
Reject(p) ==
  /\ pc[p] = "send"
  /\ \E retry \in IF job[p].acct \in Emails THEN {TRUE} ELSE BOOLEAN :
       job' = [job EXCEPT ![p].retry = retry]
  /\ GoTo(p, IF Owed(p) THEN "refund"
             ELSE IF job[p].item # 0 /\ job[p].acct \in WhatsApps THEN "count"
             ELSE "failed")
  /\ UNCHANGED <<tables, own, work, requests, history>>

\* _log(failed), then _queue_retry
Queue(p) ==
  /\ pc[p] = "failed" /\ job[p].item = 0
  /\ \/ /\ job[p].retry
        /\ queue' = Append(queue, [acct |-> job[p].acct, attempts |-> 1,
                                   status |-> "pending", due |-> FALSE])
        /\ tries' = Append(tries, 0) /\ accepted' = Append(accepted, 0)
     \/ /\ ~job[p].retry
        /\ UNCHANGED <<queue, tries, accepted>>
  /\ Finish(p, "idle")
  /\ UNCHANGED <<balance, ledger, own, work, requests, spent, added>>

------------------------------------------------------------------------------
(* run_notification_retries                                                 *)

\* next_attempt_at comes
Elapse(i) ==
  /\ i \in DOMAIN queue /\ queue[i].status = "pending" /\ ~queue[i].due
  /\ queue' = [queue EXCEPT ![i].due = TRUE]
  /\ UNCHANGED <<balance, ledger, own, pc, job, work, requests, history>>

Due == {i \in DOMAIN queue : queue[i].status = "pending" /\ queue[i].due}

StartRetries(r) ==
  /\ r \in Retriers /\ pc[r] = "idle" /\ Due # {}
  /\ todo' = [todo EXCEPT ![r] = Due]
  /\ GoTo(r, "retrying")
  /\ UNCHANGED <<tables, own, job, form, requests, history>>

\* The next item of the list, whatever became of it since the list was read
RetryItem(r) ==
  /\ pc[r] = "retrying"
  /\ \E i \in todo[r] \cap DOMAIN queue :
       /\ todo' = [todo EXCEPT ![r] = @ \ {i}]
       /\ tries' = [tries EXCEPT ![i] = UpTo(MaxRetries, @ + 1)]
       /\ Reserve(r, queue[i].acct, i)
  /\ UNCHANGED <<ledger, queue, own, form, requests, spent, added, accepted>>

EndRetries(r) ==
  /\ pc[r] = "retrying" /\ todo[r] = {}
  /\ GoTo(r, "idle")
  /\ UNCHANGED <<tables, own, job, work, requests, history>>

SettleSent(r) ==
  /\ pc[r] = "sent"
  /\ queue' = [queue EXCEPT ![job[r].item].status = "sent"]
  /\ Finish(r, "retrying")
  /\ UNCHANGED <<balance, ledger, own, work, requests, history>>

\* item.attempts is read afresh: the refund's commit has expired the object
ReadAttempts(r) ==
  /\ pc[r] = "failed" /\ job[r].item # 0
  /\ job' = [job EXCEPT ![r].seen = queue[job[r].item].attempts]
  /\ GoTo(r, "count")
  /\ UNCHANGED <<tables, own, work, requests, history>>

\* Mutant: a retry that fails is not counted.
NotCounted(r) == job[r].seen

\* item.attempts += 1, from the value in the session
Counted(r) == job[r].seen + 1

\* Mutant: the last delay is never waited for.
OverEarly(attempts) == attempts > MaxRetries - 1

\* attempts > len(RETRY_DELAYS_MINUTES) + 1
IsOver(attempts) == attempts > MaxRetries

CountAttempt(r) ==
  LET attempts == Counted(r)
      i        == job[r].item
  IN
  /\ pc[r] = "count"
  /\ queue' = [queue EXCEPT ![i] =
                 IF IsOver(attempts)
                 THEN [@ EXCEPT !.attempts = attempts, !.status = "failed"]
                 ELSE [@ EXCEPT !.attempts = attempts, !.due = FALSE]]
  /\ Finish(r, "retrying")
  /\ UNCHANGED <<balance, ledger, own, work, requests, history>>

------------------------------------------------------------------------------
(* What happens around it                                                   *)

\* super_admin_organizations_bulk_topup adds to the balances it read, for the
\* selected organizations; activate_self_serve_purchase adds a plan's credits the
\* same way; the subscription and edit forms set new balances.  A value equal to
\* the one read is not written.
ReadForTopUp(p) ==
  /\ "topup" \in Ops /\ p \in Senders /\ pc[p] = "idle" /\ requests < MaxRequests
  /\ requests' = requests + 1
  /\ form' = [form EXCEPT ![p] = balance]
  /\ GoTo(p, "topup")
  /\ UNCHANGED <<tables, own, job, todo, history>>

Filled(p, chosen, base, m, n) ==
  LET value(a) == base[a] + IF a \in Emails THEN m ELSE n
  IN  [a \in Accounts |-> IF a \in chosen /\ value(a) # form[p][a]
                           THEN value(a) ELSE balance[a]]

TopUp(p) ==
  /\ pc[p] = "topup"
  /\ \E chosen \in SUBSET Accounts, m, n \in Amounts \cup {0},
        base \in {form[p], [a \in Accounts |-> 0]} :
          balance' = Filled(p, chosen, base, m, n)
  /\ \A a \in Accounts : balance'[a] # balance[a] => balance'[a] <= MaxCredits
  /\ added' = [a \in Accounts |-> added[a] + balance'[a] - balance[a]]
  /\ form' = [form EXCEPT ![p] = [a \in Accounts |-> 0]]
  /\ GoTo(p, "idle")
  /\ UNCHANGED <<ledger, queue, own, job, todo, requests, spent, tries, accepted>>

\* The channel settings pages: own server or number saved or cleared
ChangeSettings(a) ==
  /\ "settings" \in Ops
  /\ own' = [own EXCEPT ![a] = ~@]
  /\ UNCHANGED <<tables, pc, job, work, requests, history>>

\* A commit fails while an item is retried: rolled back, next item
ItemCrashes(r) ==
  /\ "crash" \in Ops /\ job[r].item # 0 /\ pc[r] \in {"refund", "sent", "failed", "count"}
  /\ added' = [added EXCEPT ![job[r].acct] = @ - IF job[r].charged THEN 1 ELSE 0]
  /\ Finish(r, "retrying")
  /\ UNCHANGED <<tables, own, work, requests, spent, tries, accepted>>

\* The worker dies; a credit it held is gone
Crash(p) ==
  /\ "crash" \in Ops /\ pc[p] # "idle"
  /\ added' = [added EXCEPT ![job[p].acct] = @ - IF job[p].charged THEN 1 ELSE 0]
  /\ todo' = [todo EXCEPT ![p] = {}]
  /\ form' = [form EXCEPT ![p] = [a \in Accounts |-> 0]]
  /\ Finish(p, "idle")
  /\ UNCHANGED <<tables, own, requests, spent, tries, accepted>>

SendStep(p) == \/ ReadBalance(p) \/ WriteRow(p) \/ Refund(p)
               \/ Accept(p) \/ Reject(p) \/ Queue(p)

RetryStep(r) == \/ StartRetries(r) \/ RetryItem(r) \/ EndRetries(r)
                \/ SettleSent(r) \/ ReadAttempts(r) \/ CountAttempt(r)

Next ==
  \/ \E p \in Procs : SendStep(p) \/ RetryStep(p) \/ ItemCrashes(p)
                       \/ Crash(p) \/ ReadForTopUp(p) \/ TopUp(p)
  \/ \E p \in Procs, a \in Accounts : Send(p, a)
  \/ \E i \in 1 .. MaxRequests : Elapse(i)
  \/ \E a \in Accounts : ChangeSettings(a)

Spec == Init /\ [][Next]_vars

\* Threads run, delays pass; nobody is obliged to send or to change settings,
\* and a provider may refuse every message.
Fairness ==
  /\ \A p \in Procs : WF_vars(SendStep(p) \/ RetryStep(p))
  /\ \A i \in 1 .. MaxRequests : WF_vars(Elapse(i))

FairSpec == Spec /\ Fairness

------------------------------------------------------------------------------
(* Properties                                                               *)

\* Processes with a credit of account a in hand
Holding == {"debit", "debitRow", "send", "refund"}

Holds(p, a) == pc[p] \in Holding /\ job[p].charged /\ job[p].acct = a

Holders(a) == {p \in Procs : Holds(p, a)}

Held == [a \in Accounts |-> Cardinality(Holders(a))]

\* No credit is spent twice, refunded twice or leaks: every credit an account had
\* or was given is in its balance, in the hand of a process that is sending, or
\* paid for an accepted message, even when the organization changes between its
\* own server and the platform's while a message is under way.
CreditsConserved ==
  \A a \in Accounts :
    balance[a] + Held[a] + spent[a] = InitCredits + added[a]

\* A message is given up only after all its retries, also when two schedulers
\* count the attempts of one item at the same time and lose updates.
GivenUpLate ==
  \A i \in DOMAIN queue : queue[i].status = "failed" => tries[i] >= MaxRetries

\* The messaging service keeps the promises of CreditAccount.
Credits == INSTANCE CreditAccount WITH avail <- balance, held <- Held
CreditSpec == Credits!AccountSpec

\* Whatever the provider answers, a queued message is sent or given up in the end:
\* two schedulers that overwrite each other's attempts cannot retry it for ever.
RetriesEnd ==
  \A i \in 1 .. MaxRequests : i \in DOMAIN queue ~> (i \in DOMAIN queue /\ queue[i].status # "pending")
=============================================================================
