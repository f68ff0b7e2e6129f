--------------------------- MODULE CandidatePortal ---------------------------
(***************************************************************************)
(* The candidate's side: login with a password and a code sent by e-mail,  *)
(* remembered devices, the privacy notice, the forced change of the        *)
(* default password and the link to set a password, in the browser         *)
(* (app/routes/frontend.py) and in the mobile app (app/api/v1/candidate.py),*)
(* and what the staff do to an account.                                    *)
(*                                                                         *)
(* A browser's session is a signed cookie: what a request finds in it was  *)
(* true when it was written.  A request that checks a row and then writes  *)
(* it takes two steps, and other clients act in between.                   *)
(***************************************************************************)
EXTENDS Integers, Sequences, FiniteSets

CONSTANTS
  Cands, NoOne,    \* candidates
  Browsers, Apps,  \* clients: browsers, and mobile apps that use the API
  Mobiles,         \* mobile numbers: a new account's password is its number
  Passwords, NoPassword, \* passwords, numbers among them; none set
  FormAddresses,   \* what the staff's form may say of the e-mail address: TRUE if there is one
  MaxCodes, MaxConsents  \* bounds

ASSUME PortalAssumption ==
  /\ NoOne \notin Cands
  /\ Mobiles \subseteq Passwords /\ NoPassword \notin Passwords
  /\ FormAddresses \subseteq BOOLEAN
  /\ {MaxCodes, MaxConsents} \subseteq Nat

VARIABLES
  account,  \* candidates: their row, and how many consents are current
  codes,    \* password_reset_otps
  session,  \* the cookies of each browser
  app,      \* what each app holds: the candidate of its OTP token and of its access token
  work,     \* the request of each client that has read and not yet written
  history   \* what happened, for the properties

vars == <<account, codes, session, app, work, history>>

Clients  == Browsers \cup Apps
Somebody == Cands \cup {NoOne}

Idle == [kind |-> "idle", cand |-> NoOne, item |-> 0]

Account == [mobile : Mobiles, password : Passwords \cup {NoPassword},
            standing : {"active", "blocked", "deleted"}, link : BOOLEAN, email : BOOLEAN,
            consents : Nat]

Code == [cand : Cands, state : {"fresh", "valid", "expired", "used"}]

Session == [cand : Somebody, pending : Somebody, consentOk : Somebody, pwOk : Somebody,
            device : Somebody]

Work == [kind : {"idle", "code", "mail", "verify", "link", "consent"}, cand : Somebody, item : Nat]

\* What serves once: a code, a link
Job == [kind : {"verify", "link"}, cand : Cands, item : Nat]

History == [withdrew : SUBSET (Browsers \X Cands), defaulted : SUBSET (Browsers \X Cands),
            used : SUBSET Job, again : SUBSET Job, raced : SUBSET Job]

TypeOK ==
  /\ account \in [Cands -> Account] /\ codes \in Seq(Code)
  /\ session \in [Browsers -> Session] /\ app \in [Apps -> [pending : Somebody, cand : Somebody]]
  /\ work \in [Clients -> Work] /\ history \in History
  /\ \A x \in Clients : work[x].kind \in {"mail", "verify"} => work[x].item \in DOMAIN codes
  /\ \A x \in Clients : work[x].kind # "idle" => work[x].cand \in Cands
------------------------------------------------------------------------------
(* Rows and sessions                                                        *)

Available(c) == account[c].standing = "active"

Deleted(c) == account[c].standing = "deleted"

\* _has_current_consent
HasCurrentConsent(c) == account[c].consents > 0

\* The password is still (or again) the mobile number
Default(c) == account[c].password = account[c].mobile

\* The request of a logged-in candidate that passes both gates
Admitted(b, c) ==
  /\ session[b].cand = c /\ Available(c)
  /\ session[b].consentOk = c /\ session[b].pwOk = c

\* An app's request; the gates, where they are enforced, look at the tables
SignedIn(a, c) == app[a].cand = c /\ Available(c)

Start(x, kind, c, item) ==
  /\ work[x] = Idle
  /\ work' = [work EXCEPT ![x] = [kind |-> kind, cand |-> c, item |-> item]]

Working(x, kind) == work[x].kind = kind

Done(x) == work' = [work EXCEPT ![x] = Idle]

\* A client whose previous request has been answered, and stays so
Free(x) == work[x] = Idle /\ UNCHANGED work

Row(c, row) == account' = [account EXCEPT ![c] = row]

\* A password or a number was written.  If the password is now the number, the
\* browsers that are past the gate remain so.
Defaulted(h, c, mobile, password) ==
  IF mobile = password
  THEN [h EXCEPT !.defaulted = @ \cup {x \in Browsers \X {c} : session[x[1]].pwOk = c}]
  ELSE h

\* Something that serves once was used: again, or while another request used it
Used(h, x) ==
  [h EXCEPT !.used = @ \cup {work[x]},
            !.again = IF work[x] \in h.used THEN @ \cup {work[x]} ELSE @,
            !.raced = IF \E y \in Clients \ {x} : work[y] = work[x] THEN @ \cup {work[x]} ELSE @]

------------------------------------------------------------------------------
(* Login                                                                    *)

LogIn(b, c) ==
  session' = [session EXCEPT ![b].cand = c]

MayLogIn(c) == Available(c) /\ account[c].password # NoPassword

\* Mutant: the last code is no reason to wait.
NeverCooling(c) == FALSE /\ c \in Cands

\* _otp_cooldown_remaining: the last unused code is less than five minutes old
CoolingDown(c) == \E i \in DOMAIN codes : codes[i].cand = c /\ codes[i].state = "fresh"

\* candidate_login: straight in on a remembered device or without an address
LoginDirectly(b, c) ==
  /\ MayLogIn(c) /\ (session[b].device = c \/ ~account[c].email)
  /\ Free(b) /\ LogIn(b, c)
  /\ UNCHANGED <<account, codes, app, history>>

ApiLoginDirectly(a, c) ==
  /\ MayLogIn(c) /\ ~account[c].email
  /\ Free(a) /\ app' = [app EXCEPT ![a].cand = c]
  /\ UNCHANGED <<account, codes, session, history>>

\* The client is asked for the code: the session or the OTP token names the candidate
AskForCode(x, c) ==
  IF x \in Browsers
  THEN session' = [session EXCEPT ![x].pending = c] /\ UNCHANGED app
  ELSE app' = [app EXCEPT ![x].pending = c] /\ UNCHANGED session

NeedsCode(x, c) == MayLogIn(c) /\ account[c].email /\ (x \in Browsers => session[x].device # c)

LoginWaits(x, c) ==
  /\ NeedsCode(x, c) /\ CoolingDown(c)
  /\ Free(x) /\ AskForCode(x, c)
  /\ UNCHANGED <<account, codes, history>>

LoginSends(x, c) ==
  /\ NeedsCode(x, c) /\ ~CoolingDown(c)
  /\ Start(x, "code", c, 0)
  /\ UNCHANGED <<account, codes, session, app, history>>

AddCode(x) ==
  /\ Working(x, "code") /\ Len(codes) < MaxCodes
  /\ codes' = Append(codes, [cand |-> work[x].cand, state |-> "fresh"])
  /\ work' = [work EXCEPT ![x].kind = "mail", ![x].item = Len(codes) + 1]
  /\ UNCHANGED <<account, session, app, history>>

CodeMailed(x) ==
  /\ Working(x, "mail") /\ Done(x) /\ AskForCode(x, work[x].cand)
  /\ UNCHANGED <<account, codes, history>>

\* The code is withdrawn, and the next attempt need not wait
CodeNotMailed(x) ==
  /\ Working(x, "mail") /\ Done(x)
  /\ codes' = [codes EXCEPT ![work[x].item].state = "used"]
  /\ UNCHANGED <<account, session, app, history>>

\* Time passes, for older codes first: the cooldown ends, then the code expires
AgeCode(i) ==
  /\ codes[i].state \in {"fresh", "valid"}
  /\ codes[i].state = "fresh" => \A j \in 1 .. i - 1 : codes[j].state # "fresh"
  /\ codes[i].state = "valid" => \A j \in 1 .. i - 1 : codes[j].state # "valid"
  /\ codes' = [codes EXCEPT ![i].state = IF @ = "fresh" THEN "valid" ELSE "expired"]
  /\ UNCHANGED <<account, session, app, work, history>>

Verify(x, i) ==
  /\ codes[i].state \in {"fresh", "valid"}
  /\ IF x \in Browsers THEN session[x].pending = codes[i].cand
     ELSE app[x].pending = codes[i].cand /\ Available(codes[i].cand)
  /\ Start(x, "verify", codes[i].cand, i)
  /\ UNCHANGED <<account, codes, session, app, history>>

\* Mutant: the row is deleted, and those added since with it.
DropCode(i) == codes' = SubSeq(codes, 1, i - 1)

\* Mutant: the code stays good.
KeepCode(i) == UNCHANGED codes /\ i \in Nat

SpendCode(i) == codes' = [codes EXCEPT ![i].state = "used"]

\* candidate_verify_login_otp; the device is remembered if the candidate asks for it
Verified(b, remember) ==
  /\ b \in Browsers /\ Working(b, "verify") /\ Done(b)
  /\ history' = Used(history, b)
  /\ SpendCode(work[b].item)
  /\ session' = [session EXCEPT ![b].cand = work[b].cand, ![b].pending = NoOne,
                                ![b].device = IF remember THEN work[b].cand ELSE @]
  /\ UNCHANGED <<account, app>>

\* candidate_verify_otp: the OTP token is spent with the code
ApiVerified(a) ==
  /\ a \in Apps /\ Working(a, "verify") /\ Done(a)
  /\ history' = Used(history, a)
  /\ SpendCode(work[a].item)
  /\ app' = [app EXCEPT ![a] = [pending |-> NoOne, cand |-> work[a].cand]]
  /\ UNCHANGED <<account, session>>

DeviceExpires(b) ==
  /\ session[b].device # NoOne
  /\ session' = [session EXCEPT ![b].device = NoOne]
  /\ UNCHANGED <<account, codes, app, work, history>>

\* A new login page, or the OTP token's ten minutes are over
PendingExpires(a) ==
  /\ app[a].pending # NoOne /\ work[a] = Idle
  /\ app' = [app EXCEPT ![a].pending = NoOne]
  /\ UNCHANGED <<account, codes, session, work, history>>

------------------------------------------------------------------------------
(* Gates                                                                    *)

\* candidate_login_required, on any page behind it
Visit(b) ==
  LET c == session[b].cand
      consented == session[b].consentOk = c \/ HasCurrentConsent(c)
  IN
  /\ c # NoOne /\ Free(b)
  /\ session' =
       IF ~Available(c) THEN [session EXCEPT ![b].cand = NoOne]
       ELSE IF ~consented THEN session
       ELSE [session EXCEPT ![b].consentOk = c,
                            ![b].pwOk = IF Default(c) THEN @ ELSE c]
  /\ UNCHANGED <<account, codes, app, history>>

\* candidate_consent: already given, or the notice is shown and accepted
ConsentKnown(b) ==
  LET c == session[b].cand IN
  /\ c # NoOne /\ Free(b) /\ ~Deleted(c) /\ HasCurrentConsent(c)
  /\ session' = [session EXCEPT ![b].consentOk = c]
  /\ UNCHANGED <<account, codes, app, history>>

Consent(x) ==
  \E c \in Cands :
    /\ IF x \in Browsers THEN session[x].cand = c /\ ~Deleted(c) ELSE SignedIn(x, c)
    /\ ~HasCurrentConsent(c)
    /\ Start(x, "consent", c, 0)
    /\ UNCHANGED <<account, codes, session, app, history>>

Consented(x) ==
  LET c == work[x].cand IN
  /\ Working(x, "consent") /\ Done(x) /\ account[c].consents < MaxConsents
  /\ Row(c, [account[c] EXCEPT !.consents = @ + 1])
  /\ session' = IF x \in Browsers THEN [session EXCEPT ![x].consentOk = c] ELSE session
  /\ UNCHANGED <<codes, app, history>>

\* Mutant: the browser remembers the consent that was withdrawn.
LeavePartly(b) == session' = [session EXCEPT ![b].cand = NoOne, ![b].pwOk = NoOne]

Leave(b) ==
  session' = [session EXCEPT ![b].cand = NoOne, ![b].pwOk = NoOne, ![b].consentOk = NoOne]

\* candidate_withdraw_consent
Withdraw(b) ==
  LET c == session[b].cand IN
  /\ c # NoOne /\ Admitted(b, c) /\ Free(b)
  /\ Row(c, [account[c] EXCEPT !.consents = 0])
  /\ Leave(b)
  /\ history' = [history EXCEPT !.withdrew = @ \cup {<<b, c>>}]
  /\ UNCHANGED <<codes, app, work>>

Logout(b) ==
  /\ session[b].cand # NoOne /\ Free(b) /\ Leave(b)
  /\ UNCHANGED <<account, codes, app, history>>

------------------------------------------------------------------------------
(* Passwords                                                                *)

WritePassword(c, password) ==
  /\ Row(c, [account[c] EXCEPT !.password = password])
  /\ history' = Defaulted(history, c, account[c].mobile, password)

\* Mutant: the number itself will do for a new password.
MayReplaceAny(c, password) == ~Deleted(c) /\ password \in Passwords

MayReplace(c, password) == password # account[c].mobile

\* candidate_force_password
ForcePassword(b, password) ==
  LET c == session[b].cand IN
  /\ c # NoOne /\ Free(b) /\ Available(c) /\ MayReplace(c, password)
  /\ Row(c, [account[c] EXCEPT !.password = password])
  /\ session' = [session EXCEPT ![b].pwOk = c]
  /\ UNCHANGED <<codes, app, history>>

ChangePassword(b, password) ==
  LET c == session[b].cand IN
  /\ c # NoOne /\ Admitted(b, c) /\ account[c].password # NoPassword
  /\ Free(b) /\ WritePassword(c, password)
  /\ UNCHANGED <<codes, session, app>>

ApiChangePassword(a, password) ==
  LET c == app[a].cand IN
  /\ c # NoOne /\ SignedIn(a, c) /\ account[c].password # NoPassword /\ Free(a)
  /\ password \notin {account[c].password, account[c].mobile}
  /\ Row(c, [account[c] EXCEPT !.password = password])
  /\ UNCHANGED <<codes, session, app, history>>

\* candidate_set_password: the token is looked up, then the form is saved
OpenLink(b, c) ==
  /\ account[c].link /\ ~Deleted(c)
  /\ Start(b, "link", c, 0)
  /\ UNCHANGED <<account, codes, session, app, history>>

SetPassword(b, password) ==
  LET c == work[b].cand IN
  /\ Working(b, "link") /\ Done(b)
  /\ Row(c, [account[c] EXCEPT !.password = password, !.link = FALSE])
  /\ history' = Defaulted(Used(history, b), c, account[c].mobile, password)
  /\ UNCHANGED <<codes, session, app>>

LinkExpires(c) ==
  /\ account[c].link /\ Row(c, [account[c] EXCEPT !.link = FALSE])
  /\ UNCHANGED <<codes, session, app, work, history>>

------------------------------------------------------------------------------
(* The portal's pages                                                       *)

\* candidate_dashboard: the details, of which the number matters here
UpdateDetails(b, mobile) ==
  LET c == session[b].cand IN
  /\ c # NoOne /\ Admitted(b, c) /\ Free(b)
  /\ Row(c, [account[c] EXCEPT !.mobile = mobile])
  /\ history' = Defaulted(history, c, mobile, account[c].password)
  /\ UNCHANGED <<codes, session, app>>

------------------------------------------------------------------------------
(* The staff                                                                *)

\* Blocked or unblocked, one or in bulk; deleted, on the candidate's request or
\* not, and restored, blocked or not as before
SetStanding(c, standing) ==
  /\ Row(c, [account[c] EXCEPT !.standing = standing])
  /\ UNCHANGED <<codes, session, app, work, history>>

ResetPassword(c) ==
  /\ WritePassword(c, account[c].mobile)
  /\ UNCHANGED <<codes, session, app, work>>

\* organization_candidate_edit: the number and the address as typed, or as they were;
\* the number is the password of an account that has none
EditAccount(c, mobile, email) ==
  LET password == IF account[c].password = NoPassword THEN mobile ELSE account[c].password IN
  /\ Row(c, [account[c] EXCEPT !.mobile = mobile, !.email = email, !.password = password])
  /\ history' = Defaulted(history, c, mobile, password)
  /\ UNCHANGED <<codes, session, app, work>>

\* organization_candidates_bulk_set_passwords
BulkSetPasswords ==
  LET without == {c \in Cands : account[c].password = NoPassword /\ ~Deleted(c)} IN
  /\ account' = [c \in Cands |-> IF c \in without
                                 THEN [account[c] EXCEPT !.password = account[c].mobile] ELSE account[c]]
  /\ UNCHANGED <<codes, session, app, work, history>>

------------------------------------------------------------------------------

Init ==
  /\ account \in [Cands -> [mobile : Mobiles, password : Mobiles \cup {NoPassword},
                            standing : {"active"}, link : BOOLEAN,
                            email : BOOLEAN, consents : {0}]]
  /\ \A c \in Cands : account[c].password = account[c].mobile
                   \/ (account[c].password = NoPassword /\ ~account[c].link)
  /\ session = [b \in Browsers |-> [cand |-> NoOne, pending |-> NoOne, consentOk |-> NoOne,
                                    pwOk |-> NoOne, device |-> NoOne]]
  /\ app = [a \in Apps |-> [pending |-> NoOne, cand |-> NoOne]]
  /\ codes = <<>>
  /\ work = [x \in Clients |-> Idle]
  /\ history = [withdrew |-> {}, defaulted |-> {}, used |-> {}, again |-> {}, raced |-> {}]

BrowserStep(b) ==
  \/ Visit(b) \/ ConsentKnown(b) \/ Withdraw(b) \/ Logout(b) \/ DeviceExpires(b)
  \/ \E remember \in BOOLEAN : Verified(b, remember)
  \/ \E c \in Cands : LoginDirectly(b, c) \/ OpenLink(b, c)
  \/ \E p \in Passwords : ForcePassword(b, p) \/ ChangePassword(b, p) \/ SetPassword(b, p)
  \/ \E m \in Mobiles : UpdateDetails(b, m)

AppStep(a) ==
  \/ ApiVerified(a) \/ PendingExpires(a)
  \/ \E c \in Cands : ApiLoginDirectly(a, c)
  \/ \E p \in Passwords : ApiChangePassword(a, p)

ClientStep(x) ==
  \/ AddCode(x) \/ CodeMailed(x) \/ CodeNotMailed(x) \/ Consent(x) \/ Consented(x)
  \/ \E c \in Cands : LoginWaits(x, c) \/ LoginSends(x, c)
  \/ \E i \in DOMAIN codes : Verify(x, i)

StaffStep ==
  \/ BulkSetPasswords
  \/ \E c \in Cands : ResetPassword(c) \/ LinkExpires(c)
  \/ \E c \in Cands, m \in Mobiles :
       \E email \in FormAddresses \cup {account[c].email} : EditAccount(c, m, email)
  \/ \E c \in Cands, standing \in {"active", "blocked", "deleted"} : SetStanding(c, standing)

Next ==
  \/ \E b \in Browsers : BrowserStep(b)
  \/ \E a \in Apps : AppStep(a)
  \/ \E x \in Clients : ClientStep(x)
  \/ \E i \in DOMAIN codes : AgeCode(i)
  \/ StaffStep

Spec == Init /\ [][Next]_vars

------------------------------------------------------------------------------
(* Properties                                                               *)

\* A browser passes the privacy gate without a current consent only if the candidate
\* withdrew in another browser: whoever used the browser before, whatever was
\* blocked, restored or logged out in between.
ConsentGate ==
  \A b \in Browsers, c \in Cands :
    Admitted(b, c) /\ ~HasCurrentConsent(c)
    => \E other \in Browsers \ {b} : <<other, c>> \in history.withdrew

\* No browser gets past the gate while the password is the candidate's number: only
\* a browser that was past it when the password became the number - reset by the
\* staff, chosen, or met by a new number - is not asked.  (The gate knows the present
\* number alone: a first password that is an old number passes.)
DefaultPasswordReplaced ==
  \A b \in Browsers, c \in Cands :
    Admitted(b, c) /\ Default(c) => <<b, c>> \in history.defaulted

\* A code logs in once and a link sets a password once, in the browser or in the
\* app, unless two requests with it overlapped.
UsedOnce == history.again \subseteq history.raced

------------------------------------------------------------------------------
(* The invariant behind them                                                *)

\* A browser remembers a consent that is current, or was withdrawn elsewhere.
ConsentRemembered ==
  \A b \in Browsers, c \in Cands :
    session[b].consentOk = c /\ ~HasCurrentConsent(c)
    => \E other \in Browsers \ {b} : <<other, c>> \in history.withdrew

\* A browser that remembers a password that was looked at has looked at another one
\* than the number, unless the password became the number after that.
PasswordSeen ==
  \A b \in Browsers, c \in Cands :
    session[b].pwOk = c /\ Default(c) => <<b, c>> \in history.defaulted

\* An account without a password has no link, no code, and nobody is in it or at its
\* door: the bulk setting of passwords surprises nobody.
NobodyWithoutPassword ==
  \A c \in Cands : account[c].password = NoPassword =>
    /\ ~account[c].link
    /\ \A b \in Browsers : c \notin {session[b].cand, session[b].pending, session[b].pwOk}
    /\ \A a \in Apps : c \notin {app[a].cand, app[a].pending}
    /\ \A x \in Clients : work[x].cand # c
    /\ \A i \in DOMAIN codes : codes[i].cand # c

\* What was used cannot be begun again, and a request that is at it now was there
\* when it was first used.
UsedUp ==
  /\ \A w \in history.used :
       /\ w.kind = "verify" => w.item \in DOMAIN codes /\ codes[w.item].state \in {"expired", "used"}
       /\ w.kind = "link" => ~account[w.cand].link
  /\ \A x \in Clients : work[x] \in history.used => work[x] \in history.raced

IInv ==
  /\ TypeOK /\ ConsentRemembered /\ PasswordSeen /\ NobodyWithoutPassword /\ UsedUp /\ UsedOnce
==============================================================================
