---------------------------- MODULE BreachNotices ----------------------------
(***************************************************************************)
(* The notice of a data breach: one e-mail to each affected candidate, in  *)
(* the request that records the breach.  An e-mail goes to the gateway     *)
(* first and to the SMTP server when the gateway failed (utils/email.py,   *)
(* _dispatch); the notice counts what was sent and what failed, and says   *)
(* so at the end.                                                          *)
(***************************************************************************)
EXTENDS Integers, Sequences, FiniteSets

CONSTANTS
  Cands,
  Organization,           \* of each candidate
  Requests,
  _BREACH_MAX_RECIPIENTS,
  MaxNotices              \* bound

BreachNoticesAssumption ==
  /\ IsFiniteSet(Cands) /\ _BREACH_MAX_RECIPIENTS \in Nat /\ MaxNotices \in Nat

VARIABLES
  reachable,   \* candidates that are not deleted and have an address
  notices,     \* data_breaches
  work,        \* the notice that each request sends, and the candidates it has left
  email_logs,  \* what is logged for a notice and a candidate
  delivered,   \* history: copies of each e-mail that went out
  broken,      \* history: the gateway took it and answered with an error
  unlogged     \* history: rows of the log that were not saved

vars == <<reachable, notices, work, email_logs, delivered, broken, unlogged>>

Notice == [recipients : SUBSET Cands, total : Nat, failed : Nat, notified : BOOLEAN]

Ids == 1 .. Len(notices)

Work == [notice : Ids, left : SUBSET Cands, sent : Nat, failed : Nat]

TypeOK ==
  /\ reachable \subseteq Cands /\ notices \in Seq(Notice)
  /\ DOMAIN work \subseteq Requests /\ work \in [DOMAIN work -> Work]
  /\ email_logs \subseteq (Ids \X Cands \X {"sent", "failed"})
  /\ unlogged \subseteq (Ids \X Cands \X {"sent", "failed"})
  /\ delivered \in Seq([Cands -> 0 .. 2]) /\ Len(delivered) = Len(notices)
  /\ broken \subseteq (Ids \X Cands)

Init ==
  /\ reachable = Cands /\ notices = <<>> /\ work = [r \in {} |-> {}]
  /\ email_logs = {} /\ delivered = <<>> /\ broken = {} /\ unlogged = {}

------------------------------------------------------------------------------

\* Of one organization, or everybody
_breach_recipients(org) == {c \in reachable : org \in {"all", Organization[c]}}

super_admin_data_breaches(r, org) ==
  LET recipients == _breach_recipients(org)
      new == [notice |-> Len(notices) + 1, left |-> recipients, sent |-> 0, failed |-> 0]
  IN
  /\ r \in Requests \ DOMAIN work /\ Len(notices) < MaxNotices
  /\ recipients # {} /\ Cardinality(recipients) <= _BREACH_MAX_RECIPIENTS
  /\ notices' = Append(notices, [recipients |-> recipients, total |-> 0, failed |-> 0, notified |-> FALSE])
  /\ work' = [q \in {r} \cup DOMAIN work |-> IF q = r THEN new ELSE work[q]]
  /\ delivered' = Append(delivered, [c \in Cands |-> 0])
  /\ UNCHANGED <<reachable, email_logs, broken, unlogged>>

\* What the gateway did and what the request saw: it was not tried ("off"), it
\* answered, it did not in time, or it failed
Gateway == [took : BOOLEAN, reply : {"off", "ok", "timeout", "error"}]

Possible(g) == (g.reply = "ok" => g.took) /\ (g.reply = "off" => ~g.took)

\* Mutant: no answer is a failure.
AnsweredOnly(g) == g.reply = "ok"

\* "The mail is probably sent already"
sent_via_gateway(g) == g.reply \in {"ok", "timeout"}

\* Mutant: what failed is not counted.
SentOnly(w, ok) == [w EXCEPT !.sent = @ + IF ok THEN 1 ELSE 0]

Counted(w, ok) == IF ok THEN [w EXCEPT !.sent = @ + 1] ELSE [w EXCEPT !.failed = @ + 1]

\* _log_email never raises: a row that cannot be saved is dropped
_log_email(row, saved) ==
  /\ email_logs' = IF saved THEN email_logs \cup {row} ELSE email_logs
  /\ unlogged' = IF saved THEN unlogged ELSE unlogged \cup {row}

\* _dispatch, and the counters of the loop; smtp: the SMTP server takes it.  With the
\* channel switched off neither is tried
Send(r, c, g, smtp, saved) ==
  LET n  == work[r].notice
      ok == sent_via_gateway(g) \/ smtp
      w  == Counted(work[r], ok)
  IN
  /\ r \in DOMAIN work /\ c \in work[r].left /\ Possible(g)
  /\ delivered' = [delivered EXCEPT ![n][c] =
       @ + (IF g.took THEN 1 ELSE 0) + (IF ~sent_via_gateway(g) /\ smtp THEN 1 ELSE 0)]
  /\ _log_email(<<n, c, IF ok THEN "sent" ELSE "failed">>, saved)
  /\ broken' = IF g.took /\ g.reply = "error" THEN broken \cup {<<n, c>>} ELSE broken
  /\ work' = [work EXCEPT ![r] = [w EXCEPT !.left = @ \ {c}]]
  /\ UNCHANGED <<reachable, notices>>

Drop(r) == work' = [q \in DOMAIN work \ {r} |-> work[q]]

Finish(r) ==
  LET w == work[r] IN
  /\ r \in DOMAIN work /\ w.left = {} /\ Drop(r)
  /\ notices' = [notices EXCEPT ![w.notice].total = w.sent, ![w.notice].failed = w.failed,
                                ![w.notice].notified = TRUE]
  /\ UNCHANGED <<reachable, email_logs, delivered, broken, unlogged>>

\* The worker is killed: the notice stays as it was recorded
Crash(r) ==
  /\ r \in DOMAIN work /\ Drop(r)
  /\ UNCHANGED <<reachable, notices, email_logs, delivered, broken, unlogged>>

\* A candidate is deleted or restored: a notice goes to those it found at first
Change(c) ==
  /\ reachable' = IF c \in reachable THEN reachable \ {c} ELSE reachable \cup {c}
  /\ UNCHANGED <<notices, work, email_logs, delivered, broken, unlogged>>

Next ==
  \/ \E r \in Requests, org \in {"all"} \cup {Organization[c] : c \in Cands} :
       super_admin_data_breaches(r, org)
  \/ \E r \in Requests, c \in Cands, g \in Gateway, smtp, saved \in BOOLEAN :
       Send(r, c, g, smtp, saved)
  \/ \E r \in Requests : Finish(r) \/ Crash(r)
  \/ \E c \in Cands : Change(c)

Spec == Init /\ [][Next]_vars

------------------------------------------------------------------------------
(* Properties                                                               *)

\* A candidate gets a notice once and only a recipient gets it, although there are
\* two ways to send it ("Do NOT resend via SMTP (duplicates)"), unless the gateway
\* took the e-mail and then answered with an error.
SentOnce ==
  \A n \in Ids, c \in Cands :
    /\ delivered[n][c] > 1 => <<n, c>> \in broken
    /\ delivered[n][c] > 0 => c \in notices[n].recipients

\* What the loop saw of a notice, in the log or lost on the way there
Seen(n, status) == {c \in Cands : <<n, c, status>> \in email_logs \cup unlogged}

\* A notice that says it was sent accounts for every recipient it had when it was
\* recorded, and its two numbers are those of the e-mail log and of the rows that the
\* log could not save.
NoticeAccounted ==
  \A n \in Ids :
    notices[n].notified =>
      /\ notices[n].total + notices[n].failed = Cardinality(notices[n].recipients)
      /\ notices[n].total = Cardinality(Seen(n, "sent"))
      /\ notices[n].failed = Cardinality(Seen(n, "failed"))

------------------------------------------------------------------------------
(* The invariant behind them                                                *)

\* No two requests send the same notice.  A request has left exactly the recipients
\* that it has not seen the end of, nothing went out to them, and it has counted the rest.
LoopTallies ==
  \A r \in DOMAIN work :
    LET w == work[r]
        n == w.notice
    IN
    /\ ~notices[n].notified /\ \A q \in DOMAIN work : work[q].notice = n => q = r
    /\ w.left = notices[n].recipients \ (Seen(n, "sent") \cup Seen(n, "failed"))
    /\ Seen(n, "sent") \cup Seen(n, "failed") \subseteq notices[n].recipients
    /\ Seen(n, "sent") \cap Seen(n, "failed") = {}
    /\ w.sent = Cardinality(Seen(n, "sent")) /\ w.failed = Cardinality(Seen(n, "failed"))
    /\ \A c \in w.left : delivered[n][c] = 0

IInv == TypeOK /\ SentOnce /\ NoticeAccounted /\ LoopTallies
==============================================================================
