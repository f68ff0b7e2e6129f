------------------------------- MODULE Support -------------------------------
(***************************************************************************)
(* Support tickets and feedback: a candidate raises tickets in the portal, *)
(* staff on the help page; the organization's admins or the super admin    *)
(* answer, and a "delete my data" request may end with the candidate made  *)
(* inactive.  Feedback is given once.                                      *)
(***************************************************************************)
EXTENDS Integers, Sequences, FiniteSets

CONSTANTS
  Cands, NoOne,  \* candidates with a placement, logged in
  Requests,      \* served at the same time
  MaxTickets     \* bound

SupportAssumption == NoOne \notin Cands /\ MaxTickets \in Nat

VARIABLES
  active,    \* candidates that are not deleted
  feedback,  \* candidate_feedback: rows of each candidate
  told,      \* notifications of feedback
  tickets,   \* support_tickets
  forms,     \* feedback forms past the check, and what they do next
  answers,   \* answers to a ticket, made from what was read and not saved yet
  raced      \* history: tickets whose answers overlapped, and not answered alone since

vars == <<active, feedback, told, tickets, forms, answers, raced>>

_REQUEST_TYPES   == {"general", "correct_data", "delete_data", "technical"}
_TICKET_STATUSES == {"open", "in_progress", "resolved", "rejected"}

\* admin_reply and resolved_at: whether they are set.  org: the organization's
\* admins were told of the ticket, not the super admins
Ticket == [cand : Cands \cup {NoOne}, type : _REQUEST_TYPES \cup {"withdraw_consent"},
           status : _TICKET_STATUSES, reply : BOOLEAN, resolved_at : BOOLEAN, org : BOOLEAN]

NoForm == [cand |-> NoOne, next |-> "none"]

\* read: the status that was read; status, resolved_at: what is written ("none": nothing);
\* inactive: the candidate is made inactive; alone: no other answer was under way
Answer == [ticket : Nat \ {0}, read : _TICKET_STATUSES, status : _TICKET_STATUSES \cup {"none"},
           resolved_at : {"now", "null", "none"}, reply : BOOLEAN, inactive : BOOLEAN,
           alone : BOOLEAN]

NoAnswer == [ticket |-> 0]

TypeOK ==
  /\ active \subseteq Cands
  /\ feedback \in [Cands -> Nat] /\ told \in [Cands -> Nat]
  /\ tickets \in Seq(Ticket)
  /\ forms \in [Requests -> [cand : Cands, next : {"insert", "notify"}] \cup {NoForm}]
  /\ answers \in [Requests -> Answer \cup {NoAnswer}] /\ raced \subseteq Nat

Init ==
  /\ active = Cands /\ tickets = <<>>
  /\ feedback = [c \in Cands |-> 0] /\ told = [c \in Cands |-> 0]
  /\ forms = [r \in Requests |-> NoForm]
  /\ answers = [r \in Requests |-> NoAnswer] /\ raced = {}

Free(r) == forms[r] = NoForm /\ answers[r] = NoAnswer

------------------------------------------------------------------------------
(* Feedback                                                                 *)

\* candidate_feedback_submit: no row yet
Feedback(r, c) ==
  /\ Free(r) /\ c \in active /\ feedback[c] = 0
  /\ forms' = [forms EXCEPT ![r] = [cand |-> c, next |-> "insert"]]
  /\ UNCHANGED <<active, feedback, told, tickets, answers, raced>>

\* Mutant: candidate_id is not unique.
NoKey(c) == c \in Cands

\* candidate_feedback.candidate_id is unique
KeyFree(c) == feedback[c] = 0

FeedbackSaved(r) ==
  LET c == forms[r].cand IN
  /\ forms[r].next = "insert" /\ KeyFree(c)
  /\ feedback' = [feedback EXCEPT ![c] = @ + 1]
  /\ forms' = [forms EXCEPT ![r].next = "notify"]
  /\ UNCHANGED <<active, told, tickets, answers, raced>>

\* IntegrityError
FeedbackRefused(r) ==
  /\ forms[r].next = "insert" /\ ~KeyFree(forms[r].cand)
  /\ forms' = [forms EXCEPT ![r] = NoForm]
  /\ UNCHANGED <<active, feedback, told, tickets, answers, raced>>

\* The notification is a commit of its own
FeedbackTold(r) ==
  /\ forms[r].next = "notify"
  /\ told' = [told EXCEPT ![forms[r].cand] = @ + 1]
  /\ forms' = [forms EXCEPT ![r] = NoForm]
  /\ UNCHANGED <<active, feedback, tickets, answers, raced>>

------------------------------------------------------------------------------
(* Tickets                                                                  *)

Raise(c, type, org) ==
  /\ Len(tickets) < MaxTickets
  /\ tickets' = Append(tickets, [cand |-> c, type |-> type, status |-> "open", reply |-> FALSE,
                                 resolved_at |-> FALSE, org |-> org])
  /\ UNCHANGED <<active, feedback, told, forms, answers, raced>>

\* candidate_help: technical problems, and those of an organization without an
\* active admin, go to the super admins
CandidateHelp(c, type, hasAdmin) ==
  c \in active /\ Raise(c, type, hasAdmin /\ type # "technical")

\* candidate_withdraw_consent: nobody is told by e-mail
WithdrawConsent(c) == c \in active /\ Raise(c, "withdraw_consent", FALSE)

\* submit_support_ticket
StaffTicket == Raise(NoOne, "general", FALSE)

\* _org_ticket_scope
OrgTickets == {t \in DOMAIN tickets : tickets[t].cand # NoOne /\ tickets[t].type # "technical"}

\* _super_admin_ticket_filter
SuperTickets == {t \in DOMAIN tickets : tickets[t].cand = NoOne \/ tickets[t].type = "technical"}

\* organization_candidate_restore
Restore(c) ==
  /\ active' = active \cup {c}
  /\ UNCHANGED <<feedback, told, tickets, forms, answers, raced>>

------------------------------------------------------------------------------
(* Answers: the ticket is read, and the commit writes what changed           *)

Reads(r, t, status, resolved_at, reply, inactive) ==
  LET others == {q \in Requests : answers[q].ticket = t} IN
  /\ Free(r)
  /\ answers' = [q \in Requests |->
       IF q = r
       THEN [ticket |-> t, read |-> tickets[t].status, status |-> status,
             resolved_at |-> resolved_at, reply |-> reply, inactive |-> inactive,
             alone |-> others = {}]
       ELSE IF q \in others THEN [answers[q] EXCEPT !.alone = FALSE] ELSE answers[q]]
  /\ UNCHANGED <<active, feedback, told, tickets, forms, raced>>

\* organization_deactivate_candidate_for_request; a reply that is there stays
Deactivate(r, t) ==
  /\ t \in OrgTickets /\ tickets[t].type = "delete_data" /\ tickets[t].cand \in active
  /\ Reads(r, t, "resolved", "now", TRUE, TRUE)

\* organization_respond_support_ticket; a date that is not set is not written as NULL
Respond(r, t, status, reply) ==
  /\ t \in OrgTickets
  /\ status = "rejected" => reply \/ tickets[t].reply
  /\ Reads(r, t, status,
           IF status \in {"resolved", "rejected"} THEN "now"
           ELSE IF tickets[t].resolved_at THEN "null" ELSE "none",
           reply, FALSE)

\* super_admin_respond_support_ticket finds any ticket; another status is left
\* out, and the date stays when a ticket is opened again
SuperRespond(r, t, status, reply) ==
  /\ t \in DOMAIN tickets
  /\ Reads(r, t, IF status = "rejected" THEN "none" ELSE status,
           IF status = "resolved" THEN "now" ELSE "none", reply, FALSE)

\* Mutant: an empty reply replaces the one that was given.
ReplyAlone(t, reply) == reply /\ t \in DOMAIN tickets

\* An empty reply leaves the one before
ReplyKept(t, reply) == reply \/ tickets[t].reply

\* Of the columns only those that differ from what was read
Written(a) ==
  [tickets[a.ticket] EXCEPT
     !.status = IF a.status \in {"none", a.read} THEN @ ELSE a.status,
     !.resolved_at = IF a.resolved_at = "none" THEN @ ELSE a.resolved_at = "now",
     !.reply = ReplyKept(a.ticket, a.reply)]

AnswerSaved(r) ==
  LET a == answers[r] IN
  /\ a # NoAnswer
  /\ tickets' = [tickets EXCEPT ![a.ticket] = Written(a)]
  /\ active' = IF a.inactive THEN active \ {tickets[a.ticket].cand} ELSE active
  /\ raced' = IF ~a.alone THEN raced \cup {a.ticket}
              ELSE IF a.status = "none" THEN raced ELSE raced \ {a.ticket}
  /\ answers' = [answers EXCEPT ![r] = NoAnswer]
  /\ UNCHANGED <<feedback, told, forms>>

\* The worker is killed, or the commit fails
AnswerLost(r) ==
  /\ answers[r] # NoAnswer
  /\ answers' = [answers EXCEPT ![r] = NoAnswer]
  /\ UNCHANGED <<active, feedback, told, tickets, forms, raced>>

Next ==
  \/ \E r \in Requests, c \in Cands : Feedback(r, c)
  \/ \E r \in Requests : FeedbackSaved(r) \/ FeedbackRefused(r) \/ FeedbackTold(r)
  \/ \E c \in Cands : WithdrawConsent(c) \/ Restore(c)
  \/ \E c \in Cands, type \in _REQUEST_TYPES, hasAdmin \in BOOLEAN : CandidateHelp(c, type, hasAdmin)
  \/ StaffTicket
  \/ \E r \in Requests, t \in DOMAIN tickets : Deactivate(r, t)
  \/ \E r \in Requests, t \in DOMAIN tickets, status \in _TICKET_STATUSES, reply \in BOOLEAN :
       Respond(r, t, status, reply) \/ SuperRespond(r, t, status, reply)
  \/ \E r \in Requests : AnswerSaved(r) \/ AnswerLost(r)

Spec == Init /\ [][Next]_vars

------------------------------------------------------------------------------
(* Properties                                                               *)

\* A candidate gives feedback once, however often the form is sent, and the
\* organization hears of it at most once.
OneFeedback == \A c \in Cands : feedback[c] <= 1 /\ told[c] <= feedback[c]

\* A rejected ticket gives a reason, whoever answers it at the same time and whatever is
\* left blank; a closed one has its date, unless answers to it overlapped and nobody has
\* decided on it alone since.
ClosedTicketsAnswered ==
  \A t \in DOMAIN tickets :
    /\ tickets[t].status = "rejected" => tickets[t].reply
    /\ tickets[t].status \in {"resolved", "rejected"} /\ t \notin raced => tickets[t].resolved_at

------------------------------------------------------------------------------
(* The invariant behind them                                                *)

\* A form that is to tell of its feedback has saved it, alone, and was not told of
ToldLater ==
  \A r \in Requests : forms[r].next = "notify" =>
    /\ feedback[forms[r].cand] = 1 /\ told[forms[r].cand] = 0
    /\ \A q \in Requests \ {r} : forms[q].next = "notify" => forms[q].cand # forms[r].cand

\* An answer that rejects has its reason; one that closes, its date; and one that is alone
\* has read what is still there
AnswersFit ==
  \A r \in Requests : answers[r] # NoAnswer =>
    LET a == answers[r] IN
    /\ a.ticket \in DOMAIN tickets
    /\ a.status = "rejected" => a.reply \/ tickets[a.ticket].reply
    /\ a.status \in {"resolved", "rejected"} => a.resolved_at = "now"
    /\ a.status = "none" => a.resolved_at = "none"
    /\ a.alone => /\ a.read = tickets[a.ticket].status
                  /\ \A q \in Requests \ {r} : answers[q].ticket # a.ticket

IInv == TypeOK /\ OneFeedback /\ ToldLater /\ ClosedTicketsAnswered /\ AnswersFit
==============================================================================
