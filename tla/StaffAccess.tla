----------------------------- MODULE StaffAccess -----------------------------
(***************************************************************************)
(* Web logins of one member of staff: password, one-time code by e-mail,   *)
(* session row; the password reset, which spends codes of the same table;  *)
(* and what administrators do to the account meanwhile.  Every request is  *)
(* its reads first and its commits after them, one step each.              *)
(***************************************************************************)
EXTENDS Integers, Sequences, FiniteSets

CONSTANTS
  Browsers,
  OTP_RESEND_COOLDOWN_SECONDS,  \* in units of 5 minutes, as all times
  OtpValidity,                   \* validity of a code
  MaxNow, MaxCodes, MaxSessions \* bounds

StaffAccessAssumption ==
  /\ OTP_RESEND_COOLDOWN_SECONDS \in Nat \ {0}
  /\ {OtpValidity, MaxNow, MaxCodes, MaxSessions} \subseteq Nat

VARIABLES
  now,
  is_active,      \* users.is_active
  deactivated_by, \* history: who made the account inactive
  barred,         \* deleted, or kept out: its network not allowed, its organization suspended
  codes,          \* password_reset_otps of the account's address
  sessions,       \* user_sessions
  browser,        \* each browser's cookie, and the request it is waiting for
  crowded         \* history: two requests were sending a code at the same time

vars == <<now, is_active, deactivated_by, barred, codes, sessions, browser, crowded>>

Code == [sent : Nat, is_used : BOOLEAN]

\* late: history, its login was past every check when the account was made inactive
UserSession == [is_active : BOOLEAN, late : BOOLEAN]

\* "pending": asked for the code.  "use": the code was found and is being marked
\* used.  "checked": every check passed, the session row is not written
Browser ==
  [at : {"out", "sending", "mailing", "pending", "use", "checked", "in"},
   for : {"login", "reset"}, code : Nat, session : Nat]

Out == [at |-> "out", for |-> "login", code |-> 0, session |-> 0]

TypeOK ==
  /\ now \in Nat /\ is_active \in BOOLEAN /\ crowded \in BOOLEAN
  /\ barred \in {"no", "deleted", "kept out"}
  /\ deactivated_by \in {"none", "organization", "super_admin"}
  /\ codes \in Seq(Code) /\ sessions \in Seq(UserSession)
  /\ browser \in [Browsers -> Browser]
  /\ \A b \in Browsers : browser[b].code <= Len(codes) /\ browser[b].session <= Len(sessions)

Init ==
  /\ now = 0 /\ is_active = TRUE /\ deactivated_by = "none" /\ barred = "no"
  /\ codes = <<>> /\ sessions = <<>> /\ crowded = FALSE
  /\ browser = [b \in Browsers |-> Out]

account == <<is_active, deactivated_by, barred>>

------------------------------------------------------------------------------
(* One-time codes                                                           *)

Unused == {k \in DOMAIN codes : ~codes[k].is_used}

\* PasswordResetOTP.is_valid, of an unused code
is_valid(k) == now <= codes[k].sent + OtpValidity

\* Mutant: the cooldown runs from the first unused code.
CooldownFromFirst ==
  Unused = {} \/ \E k \in Unused : now >= codes[k].sent + OTP_RESEND_COOLDOWN_SECONDS

\* _otp_cooldown_remaining = 0, from the latest unused code
CooldownOver == \A k \in Unused : now >= codes[k].sent + OTP_RESEND_COOLDOWN_SECONDS

Sending(b) == browser[b].at \in {"sending", "mailing"}

\* A code may be sent; otherwise a login goes on with the one sent before
Ask(b, for) ==
  /\ \/ /\ CooldownOver
        /\ browser' = [browser EXCEPT ![b] = [Out EXCEPT !.at = "sending", !.for = for]]
     \/ /\ ~CooldownOver /\ for = "login"
        /\ browser' = [browser EXCEPT ![b] = [Out EXCEPT !.at = "pending", !.for = for]]
  /\ crowded' = (crowded \/ (CooldownOver /\ \E c \in Browsers \ {b} : browser[c].at = "sending"))
  /\ UNCHANGED <<now, account, codes, sessions>>

SaveCode(b) ==
  /\ browser[b].at = "sending" /\ Len(codes) < MaxCodes
  /\ codes' = Append(codes, [sent |-> now, is_used |-> FALSE])
  /\ browser' = [browser EXCEPT ![b].at = "mailing", ![b].code = Len(codes) + 1]
  /\ UNCHANGED <<now, account, sessions, crowded>>

\* The e-mail goes out; or it does not, and the code is spent
Mailed(b) ==
  /\ browser[b].at = "mailing"
  /\ \/ /\ browser' = [browser EXCEPT ![b].at = "pending", ![b].code = 0]
        /\ UNCHANGED codes
     \/ /\ codes' = [codes EXCEPT ![browser[b].code].is_used = TRUE]
        /\ browser' = [browser EXCEPT ![b] = Out]
  /\ UNCHANGED <<now, account, sessions, crowded>>

\* The worker is killed: the code may have been saved
Killed(b) ==
  /\ Sending(b) \/ browser[b].at \in {"use", "checked"}
  /\ browser' = [browser EXCEPT ![b] = Out]
  /\ UNCHANGED <<now, account, codes, sessions, crowded>>

------------------------------------------------------------------------------
(* Requests of a browser                                                    *)

\* The checks of login and, once more, of staff_verify_login_otp
Allowed == is_active /\ barred = "no"

\* login, with the right password; a setting says whether a code is asked for
\* (_staff_2fa_required)
login(b) ==
  /\ browser[b].at = "out" /\ Allowed
  /\ \/ Ask(b, "login")
     \/ /\ browser' = [browser EXCEPT ![b].at = "checked"]
        /\ UNCHANGED <<now, account, codes, sessions, crowded>>

\* forgot_password
forgot_password(b) == browser[b].at = "out" /\ CooldownOver /\ Ask(b, "reset")

\* staff_verify_login_otp and verify_otp: a code that was sent.  Only the login
\* looks at the account again, and gives up when it may not
EnterCode(b, k) ==
  /\ browser[b].at = "pending" /\ k \in Unused /\ is_valid(k)
  /\ browser' = [browser EXCEPT ![b] =
       IF @.for = "login" /\ ~Allowed THEN Out ELSE [@ EXCEPT !.at = "use", !.code = k]]
  /\ UNCHANGED <<now, account, codes, sessions, crowded>>

UseCode(b) ==
  /\ browser[b].at = "use"
  /\ codes' = [codes EXCEPT ![browser[b].code].is_used = TRUE]
  /\ browser' = [browser EXCEPT ![b].at = "checked"]
  /\ UNCHANGED <<now, account, sessions, crowded>>

\* _finish_staff_login
_finish_staff_login(b) ==
  /\ browser[b].at = "checked" /\ browser[b].for = "login" /\ Len(sessions) < MaxSessions
  /\ sessions' = Append(sessions, [is_active |-> TRUE, late |-> ~is_active])
  /\ browser' = [browser EXCEPT ![b] = [Out EXCEPT !.at = "in", !.session = Len(sessions) + 1]]
  /\ UNCHANGED <<now, account, codes, crowded>>

\* reset_password: the password changes, nobody is logged in or out
reset_password(b) ==
  /\ browser[b].at = "checked" /\ browser[b].for = "reset"
  /\ browser' = [browser EXCEPT ![b] = Out]
  /\ UNCHANGED <<now, account, codes, sessions, crowded>>

\* login_required: the session row was ended
Page(b) ==
  /\ browser[b].at = "in" /\ ~sessions[browser[b].session].is_active
  /\ browser' = [browser EXCEPT ![b] = Out]
  /\ UNCHANGED <<now, account, codes, sessions, crowded>>

logout(b) ==
  /\ browser[b].at = "in"
  /\ sessions' = [sessions EXCEPT ![browser[b].session].is_active = FALSE]
  /\ browser' = [browser EXCEPT ![b] = Out]
  /\ UNCHANGED <<now, account, codes, crowded>>

------------------------------------------------------------------------------
(* Administrators                                                           *)

Ended == [s \in DOMAIN sessions |-> [sessions[s] EXCEPT !.is_active = FALSE]]

\* Mutant: sessions are left to time out.
KeepSessions == sessions

SessionsEnded == Ended

\* organization_user_toggle_active: "Log the person out everywhere as soon as they
\* are deactivated", in the same commit
OrganizationToggle ==
  /\ is_active' = ~is_active
  /\ deactivated_by' = IF is_active THEN "organization" ELSE "none"
  /\ sessions' = IF is_active THEN SessionsEnded ELSE sessions
  /\ UNCHANGED <<now, barred, codes, browser, crowded>>

\* super_admin_toggle_user_active
SuperAdminToggle ==
  /\ is_active' = ~is_active
  /\ deactivated_by' = IF is_active THEN "super_admin" ELSE "none"
  /\ UNCHANGED <<now, barred, codes, sessions, browser, crowded>>

Bar(before, after) ==
  /\ barred = before /\ barred' = after
  /\ UNCHANGED <<now, is_active, deactivated_by, codes, sessions, browser, crowded>>

super_admin_delete_user == Bar("no", "deleted")

super_admin_user_restore == Bar("deleted", "no")

\* allowed_ips of super_admin_edit_user, and the organization's status
super_admin_edit_user == Bar("no", "kept out") \/ Bar("kept out", "no")

\* super_admin_revoke_session
super_admin_revoke_session(s) ==
  /\ sessions' = [sessions EXCEPT ![s].is_active = FALSE]
  /\ UNCHANGED <<now, account, codes, browser, crowded>>

Tick ==
  /\ now < MaxNow /\ now' = now + 1
  /\ UNCHANGED <<account, codes, sessions, browser, crowded>>

Next ==
  \/ \E b \in Browsers :
       \/ login(b) \/ forgot_password(b) \/ SaveCode(b) \/ Mailed(b) \/ Killed(b)
       \/ UseCode(b) \/ _finish_staff_login(b) \/ reset_password(b) \/ Page(b) \/ logout(b)
  \/ \E b \in Browsers : \E k \in DOMAIN codes : EnterCode(b, k)
  \/ OrganizationToggle \/ SuperAdminToggle
  \/ super_admin_delete_user \/ super_admin_user_restore \/ super_admin_edit_user
  \/ \E s \in DOMAIN sessions : super_admin_revoke_session(s)
  \/ Tick

Spec == Init /\ [][Next]_vars

------------------------------------------------------------------------------
(* Properties                                                               *)

\* Somebody the organization deactivated is logged out everywhere: a session that
\* still lives is of a login that had passed all its checks before.
LoggedOutAtOnce ==
  ~is_active /\ deactivated_by = "organization" =>
    \A s \in DOMAIN sessions : sessions[s].is_active => sessions[s].late

\* The cooldown keeps the codes that would be accepted at any moment to as many as
\* fit into their validity, whether logins or resets asked for them, unless two
\* requests were sending one at the same time.
FewCodes ==
  ~crowded => Cardinality({k \in Unused : is_valid(k)}) <= OtpValidity \div OTP_RESEND_COOLDOWN_SECONDS + 1

------------------------------------------------------------------------------
(* The invariant behind them                                                *)

\* Codes that can still be used were sent a cooldown apart, in their order
Spaced ==
  \A i, j \in Unused : i < j => codes[i].sent + OTP_RESEND_COOLDOWN_SECONDS <= codes[j].sent

\* Who is to send a code is alone, and the cooldown that was over still is
SenderAlone ==
  \A b \in Browsers : browser[b].at = "sending" =>
    CooldownOver /\ \A c \in Browsers : browser[c].at = "sending" => c = b

IInv ==
  /\ TypeOK
  /\ \A k \in DOMAIN codes : codes[k].sent <= now
  /\ ~crowded => Spaced /\ SenderAlone
  /\ LoggedOutAtOnce
==============================================================================
