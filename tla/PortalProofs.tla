---------------------------- MODULE PortalProofs ----------------------------
(***************************************************************************)
(* Proofs about the candidate's side.  IInv of CandidatePortal is split    *)
(* into what each part of the state must satisfy and, as most actions      *)
(* write one part only, into lemmas by the part that is written.           *)
(***************************************************************************)
EXTENDS CandidatePortal, TLAPS

Accounts == account \in [Cands -> Account]
CodeRows == codes \in Seq(Code)
Sessions == session \in [Browsers -> Session]
AppsHold == app \in [Apps -> [pending : Somebody, cand : Somebody]]
Works    == /\ work \in [Clients -> Work]
            /\ \A x \in Clients : work[x].kind \in {"mail", "verify"} => work[x].item \in DOMAIN codes
            /\ \A x \in Clients : work[x].kind # "idle" => work[x].cand \in Cands
Past     == history \in History

Typed == Accounts /\ CodeRows /\ Sessions /\ AppsHold /\ Works /\ Past

\* The code is no good any more
Spent(i) == i \in DOMAIN codes /\ codes[i].state \in {"expired", "used"}

Known(c) ==
  \/ \E b \in Browsers : c \in {session[b].cand, session[b].pending, session[b].pwOk}
  \/ \E a \in Apps : c \in {app[a].cand, app[a].pending}
  \/ \E x \in Clients : work[x].cand = c
  \/ \E i \in DOMAIN codes : codes[i].cand = c

Nobody(c) == account[c].password = NoPassword => ~account[c].link /\ ~Known(c)

Gone(w) == /\ w.kind = "verify" => Spent(w.item)
           /\ w.kind = "link" => ~account[w.cand].link

Uses == /\ \A w \in history.used : Gone(w)
        /\ \A x \in Clients : work[x] \in history.used => work[x] \in history.raced

LEMMA InvIs ==
  /\ IInv <=> Typed /\ ConsentRemembered /\ PasswordSeen /\ (\A c \in Cands : Nobody(c)) /\ Uses /\ UsedOnce
  /\ IInv' <=> /\ Typed' /\ ConsentRemembered' /\ PasswordSeen' /\ (\A c \in Cands : Nobody(c)')
               /\ Uses' /\ UsedOnce'
<1>1. (TypeOK <=> Typed) /\ (TypeOK' <=> Typed')
  <2>1. TypeOK <=> Typed
    BY Zenon DEF TypeOK, Typed, Accounts, CodeRows, Sessions, AppsHold, Works, Past
  <2>2. TypeOK' <=> Typed'
    BY Zenon DEF TypeOK, Typed, Accounts, CodeRows, Sessions, AppsHold, Works, Past
  <2>. QED
    BY <2>1, <2>2
<1>2. /\ NobodyWithoutPassword <=> \A c \in Cands : Nobody(c)
      /\ NobodyWithoutPassword' <=> \A c \in Cands : Nobody(c)'
  <2>1. NobodyWithoutPassword <=> \A c \in Cands : Nobody(c)
    BY DEF NobodyWithoutPassword, Nobody, Known
  <2>2. NobodyWithoutPassword' <=> \A c \in Cands : Nobody(c)'
    BY DEF NobodyWithoutPassword, Nobody, Known
  <2>. QED
    BY <2>1, <2>2
<1>3. (UsedUp <=> Uses) /\ (UsedUp' <=> Uses')
  BY Zenon DEF UsedUp, Uses, Gone, Spent
<1>. QED
  BY <1>1, <1>2, <1>3 DEF IInv

------------------------------------------------------------------------------
(* What a step must keep                                                    *)

ConsentKept ==
  /\ history.withdrew \subseteq history'.withdrew
  /\ \A c \in Cands : HasCurrentConsent(c) => HasCurrentConsent(c)'
  /\ \A b \in Browsers, c \in Cands :
       session'[b].consentOk = c => session[b].consentOk = c \/ HasCurrentConsent(c)'

\* History h excuses the browsers that are past the gate with the password of c
Excused(c, h) == \A b \in Browsers : session[b].pwOk = c => <<b, c>> \in h.defaulted

SeenKept ==
  /\ history.defaulted \subseteq history'.defaulted
  /\ \A b \in Browsers, c \in Cands :
       session'[b].pwOk = c /\ Default(c)' =>
         (session[b].pwOk = c /\ Default(c)) \/ <<b, c>> \in history'.defaulted

NobodyKept ==
  \A c \in Cands : account'[c].password = NoPassword =>
    /\ account[c].password = NoPassword
    /\ account'[c].link => account[c].link
    /\ Known(c)' => Known(c)

UsesKept ==
  /\ history'.used = history.used /\ history'.again = history.again /\ history'.raced = history.raced
  /\ \A c \in Cands : account'[c].link => account[c].link
  /\ \A i : Spent(i) => Spent(i)'
  /\ \A x \in Clients : work'[x] = work[x] \/ work'[x] \notin history.used

LEMMA ConsentStays ==
  ASSUME ConsentRemembered, ConsentKept
  PROVE  ConsentRemembered'
BY DEF ConsentRemembered, ConsentKept

LEMMA SeenStays ==
  ASSUME PasswordSeen, SeenKept
  PROVE  PasswordSeen'
BY DEF PasswordSeen, SeenKept

LEMMA NobodyStays ==
  ASSUME \A c \in Cands : Nobody(c), NobodyKept
  PROVE  \A c \in Cands : Nobody(c)'
BY DEF Nobody, NobodyKept

LEMMA UsesStay ==
  ASSUME Past, Uses, UsedOnce, UsesKept
  PROVE  Uses' /\ UsedOnce'
<1>1. history.used \subseteq Job
  BY DEF Past, History
<1>2. \A w \in history.used : w.cand \in Cands
  BY <1>1 DEF Job
<1>3. \A w \in history.used : Gone(w)'
  BY <1>2 DEF Uses, Gone, UsesKept
<1>. QED
  BY <1>3 DEF Uses, UsedOnce, UsesKept

LEMMA Keeps ==
  ASSUME IInv, Typed', ConsentKept, SeenKept, NobodyKept, UsesKept
  PROVE  IInv'
BY InvIs, ConsentStays, SeenStays, NobodyStays, UsesStay DEF Typed

LEMMA UsedAre ==
  ASSUME IInv, NEW w \in history.used
  PROVE  /\ w \in Job /\ w.kind \in {"verify", "link"} /\ w.cand \in Cands
         /\ w.kind = "verify" => Spent(w.item)
         /\ w.kind = "link" => ~account[w.cand].link
<1>1. history.used \subseteq Job /\ Gone(w)
  BY InvIs DEF Typed, Past, History, Uses
<1>. QED
  BY <1>1 DEF Job, Gone

------------------------------------------------------------------------------
(* One part is written                                                      *)

LEMMA SessionWritten ==
  ASSUME IInv, NEW b \in Browsers, NEW new \in Session,
         session' = [session EXCEPT ![b] = new], UNCHANGED <<account, codes, app, work, history>>,
         \A c \in Cands : c \in {new.cand, new.pending, new.pwOk} =>
           c \in {session[b].cand, session[b].pending, session[b].pwOk} \/ account[c].password # NoPassword,
         \A c \in Cands : new.consentOk = c => session[b].consentOk = c \/ HasCurrentConsent(c),
         \A c \in Cands : new.pwOk = c => session[b].pwOk = c \/ ~Default(c)
  PROVE  IInv'
<1>1. Typed
  BY InvIs
<1>2. session'[b] = new /\ \A x \in Browsers : x # b => session'[x] = session[x]
  BY <1>1 DEF Typed, Sessions
<1>3. Typed'
  <2>1. Sessions'
    BY <1>1 DEF Typed, Sessions
  <2>2. Accounts' /\ CodeRows' /\ AppsHold' /\ Past'
    BY <1>1 DEF Typed, Accounts, CodeRows, AppsHold, Past
  <2>3. Works'
    BY <1>1, Zenon DEF Typed, Works
  <2>. QED
    BY <2>1, <2>2, <2>3 DEF Typed
<1>4. ConsentKept
  BY <1>2 DEF ConsentKept, HasCurrentConsent
<1>5. SeenKept
  BY <1>2 DEF SeenKept, Default
<1>6. NobodyKept
  BY <1>2 DEF NobodyKept, Known
<1>7. UsesKept
  BY DEF UsesKept, Spent
<1>. QED
  BY <1>3, <1>4, <1>5, <1>6, <1>7, Keeps

LEMMA AppWritten ==
  ASSUME IInv, NEW a \in Apps, NEW new \in [pending : Somebody, cand : Somebody],
         app' = [app EXCEPT ![a] = new], UNCHANGED <<account, codes, session, work, history>>,
         \A c \in Cands : c \in {new.cand, new.pending} =>
           c \in {app[a].cand, app[a].pending} \/ account[c].password # NoPassword
  PROVE  IInv'
<1>1. Typed
  BY InvIs
<1>2. app'[a] = new /\ \A x \in Apps : x # a => app'[x] = app[x]
  BY <1>1 DEF Typed, AppsHold
<1>3. Typed'
  <2>1. AppsHold'
    BY <1>1 DEF Typed, AppsHold
  <2>2. Accounts' /\ CodeRows' /\ Sessions' /\ Past'
    BY <1>1 DEF Typed, Accounts, CodeRows, Sessions, Past
  <2>3. Works'
    BY <1>1, Zenon DEF Typed, Works
  <2>. QED
    BY <2>1, <2>2, <2>3 DEF Typed
<1>4. ConsentKept /\ SeenKept
  BY DEF ConsentKept, HasCurrentConsent, SeenKept, Default
<1>5. NobodyKept
  BY <1>2 DEF NobodyKept, Known
<1>6. UsesKept
  BY DEF UsesKept, Spent
<1>. QED
  BY <1>3, <1>4, <1>5, <1>6, Keeps

LEMMA WorkIs ==
  ASSUME Works, NEW x \in Clients, NEW w \in Work, work' = [work EXCEPT ![x] = w],
         UNCHANGED codes,
         w.kind \in {"mail", "verify"} => w.item \in DOMAIN codes,
         w.kind # "idle" => w.cand \in Cands
  PROVE  Works' /\ work'[x] = w /\ \A y \in Clients : y # x => work'[y] = work[y]
BY Zenon DEF Works

LEMMA WorkStarts ==
  ASSUME IInv, NEW x \in Clients, NEW c \in Cands, NEW item \in Nat,
         NEW kind \in {"code", "verify", "link", "consent"}, Start(x, kind, c, item),
         UNCHANGED <<account, codes, session, app, history>>,
         account[c].password # NoPassword \/ Known(c),
         kind = "verify" => item \in DOMAIN codes /\ ~Spent(item),
         kind = "link" => account[c].link
  PROVE  IInv'
<1>. DEFINE w == [kind |-> kind, cand |-> c, item |-> item]
<1>1. Typed
  BY InvIs
<1>2. w \in Work /\ w.kind = kind /\ w.cand = c /\ w.item = item
  BY DEF Work, Somebody
<1>3. work' = [work EXCEPT ![x] = w]
  BY DEF Start
<1>. HIDE DEF w
<1>4. kind # "mail" /\ kind # "idle"
  OBVIOUS
<1>5. Works' /\ work'[x] = w /\ \A y \in Clients : y # x => work'[y] = work[y]
  BY <1>1, <1>2, <1>3, <1>4, WorkIs DEF Typed
<1>6. Typed'
  BY <1>1, <1>5 DEF Typed, Accounts, CodeRows, Sessions, AppsHold, Past
<1>7. ConsentKept /\ SeenKept
  BY DEF ConsentKept, HasCurrentConsent, SeenKept, Default
<1>8. NobodyKept
  BY <1>2, <1>5 DEF NobodyKept, Known
<1>9. UsesKept
  <2>1. w \notin history.used
    BY <1>2, UsedAre
  <2>. QED
    BY <1>5, <2>1 DEF UsesKept, Spent
<1>. QED
  BY <1>6, <1>7, <1>8, <1>9, Keeps

LEMMA RowWritten ==
  ASSUME IInv, NEW c \in Cands, NEW row \in Account, account' = [account EXCEPT ![c] = row],
         UNCHANGED <<codes, session, app, work>>, history' \in History,
         history'.withdrew = history.withdrew, history'.used = history.used,
         history'.again = history.again, history'.raced = history.raced,
         history.defaulted \subseteq history'.defaulted,
         row.consents = account[c].consents, row.link => account[c].link,
         row.password = NoPassword => account[c].password = NoPassword,
         row.password = row.mobile => Default(c) \/ Excused(c, history')
  PROVE  IInv'
<1>1. Typed
  BY InvIs
<1>2. account'[c] = row /\ \A d \in Cands : d # c => account'[d] = account[d]
  BY <1>1 DEF Typed, Accounts
<1>3. Typed'
  <2>1. Accounts' /\ Past'
    BY <1>1 DEF Typed, Accounts, Past
  <2>2. CodeRows' /\ Sessions' /\ AppsHold'
    BY <1>1 DEF Typed, CodeRows, Sessions, AppsHold
  <2>3. Works'
    BY <1>1, Zenon DEF Typed, Works
  <2>. QED
    BY <2>1, <2>2, <2>3 DEF Typed
<1>4. ConsentKept
  BY <1>2 DEF ConsentKept, HasCurrentConsent
<1>5. SeenKept
  BY <1>2 DEF SeenKept, Default, Excused
<1>6. NobodyKept
  BY <1>2 DEF NobodyKept, Known
<1>7. UsesKept
  BY <1>2 DEF UsesKept, Spent
<1>. QED
  BY <1>3, <1>4, <1>5, <1>6, <1>7, Keeps

\* The request of a client is answered
LEMMA DoneIs ==
  ASSUME Works, NEW x \in Clients, Done(x), DOMAIN codes \subseteq DOMAIN codes'
  PROVE  /\ Works' /\ work'[x] = Idle /\ Idle.kind = "idle" /\ Idle.cand = NoOne
         /\ \A y \in Clients : y # x => work'[y] = work[y]
<1>1. Idle \in Work /\ Idle.kind = "idle" /\ Idle.cand = NoOne
  BY DEF Idle, Work, Somebody
<1>2. work' = [work EXCEPT ![x] = Idle] /\ work \in [Clients -> Work]
  BY DEF Done, Works
<1>. HIDE DEF Idle
<1>3. work' \in [Clients -> Work] /\ work'[x] = Idle /\ \A y \in Clients : y # x => work'[y] = work[y]
  BY <1>1, <1>2
<1>4. \A y \in Clients : /\ work'[y].kind \in {"mail", "verify"} => work'[y].item \in DOMAIN codes'
                         /\ work'[y].kind # "idle" => work'[y].cand \in Cands
  <2>. SUFFICES ASSUME NEW y \in Clients
                PROVE  /\ work'[y].kind \in {"mail", "verify"} => work'[y].item \in DOMAIN codes'
                       /\ work'[y].kind # "idle" => work'[y].cand \in Cands
    OBVIOUS
  <2>1. CASE y = x
    BY <1>1, <1>3, <2>1
  <2>2. CASE y # x
    BY <1>3, <2>2 DEF Works
  <2>. QED
    BY <2>1, <2>2
<1>. QED
  BY <1>1, <1>3, <1>4 DEF Works

\* What a request is at names its candidate
LEMMA WorkingIs ==
  ASSUME IInv, NEW x \in Clients, NEW kind, Working(x, kind), kind # "idle"
  PROVE  /\ work[x].cand \in Cands /\ work[x].item \in Nat /\ Known(work[x].cand)
         /\ account[work[x].cand].password # NoPassword
         /\ kind \in {"mail", "verify"} => work[x].item \in DOMAIN codes
         /\ kind \in {"verify", "link"} => work[x] \in Job
<1>1. Typed /\ \A c \in Cands : Nobody(c)
  BY InvIs
<1>2. work[x] \in Work /\ work[x].kind = kind /\ work[x].cand \in Cands
      /\ (kind \in {"mail", "verify"} => work[x].item \in DOMAIN codes)
  BY <1>1 DEF Typed, Works, Working
<1>3. work[x].item \in Nat /\ (kind \in {"verify", "link"} => work[x] \in Job)
  BY <1>2 DEF Work, Job
<1>4. Known(work[x].cand)
  BY <1>2 DEF Known
<1>. QED
  BY <1>1, <1>2, <1>3, <1>4 DEF Nobody

LEMMA CodesAre ==
  ASSUME CodeRows, NEW i \in DOMAIN codes
  PROVE  /\ i \in Nat /\ codes[i] \in Code /\ codes[i].cand \in Cands
         /\ codes[i].state \in {"fresh", "valid", "expired", "used"}
<1>1. i \in Nat /\ codes[i] \in Code
  BY DEF CodeRows
<1>. QED
  BY <1>1 DEF Code

LEMMA CodeWritten ==
  ASSUME CodeRows, NEW i \in DOMAIN codes, NEW state \in {"fresh", "valid", "expired", "used"},
         codes' = [codes EXCEPT ![i].state = state],
         Spent(i) => state \in {"expired", "used"}
  PROVE  /\ CodeRows' /\ DOMAIN codes' = DOMAIN codes /\ codes'[i].state = state
         /\ \A j \in DOMAIN codes : codes'[j].cand = codes[j].cand
         /\ \A j : Spent(j) => Spent(j)'
<1>. DEFINE new == [codes[i] EXCEPT !.state = state]
<1>1. new \in Code /\ new.cand = codes[i].cand /\ new.state = state
  BY CodesAre DEF Code
<1>2. codes' = [codes EXCEPT ![i] = new]
  OBVIOUS
<1>. HIDE DEF new
<1>3. CodeRows' /\ DOMAIN codes' = DOMAIN codes
  BY <1>1, <1>2 DEF CodeRows
<1>4. codes'[i] = new /\ \A j \in DOMAIN codes : j # i => codes'[j] = codes[j]
  BY <1>2 DEF CodeRows
<1>. QED
  BY <1>1, <1>3, <1>4, Zenon DEF Spent

LEMMA CodeAdded ==
  ASSUME CodeRows, NEW new \in Code, codes' = Append(codes, new)
  PROVE  /\ CodeRows' /\ DOMAIN codes' = DOMAIN codes \cup {Len(codes) + 1}
         /\ Len(codes) + 1 \in Nat /\ Len(codes) + 1 \notin DOMAIN codes
         /\ codes'[Len(codes) + 1] = new
         /\ \A j \in DOMAIN codes : codes'[j] = codes[j]
BY DEF CodeRows
\* What is written into the history
LEMMA DefaultedIs ==
  ASSUME NEW g \in History, NEW c \in Cands, NEW mobile, NEW password,
         NEW h, h = Defaulted(g, c, mobile, password)
  PROVE  /\ h \in History /\ h.withdrew = g.withdrew /\ h.used = g.used
         /\ h.again = g.again /\ h.raced = g.raced /\ g.defaulted \subseteq h.defaulted
         /\ mobile = password => Excused(c, h)
<1>1. CASE mobile = password
  BY <1>1 DEF Defaulted, History, Excused
<1>2. CASE mobile # password
  BY <1>2 DEF Defaulted
<1>. QED
  BY <1>1, <1>2

LEMMA UsedIs ==
  ASSUME Past, NEW x \in Clients, work[x] \in Job, NEW h, h = Used(history, x)
  PROVE  /\ h \in History /\ h.withdrew = history.withdrew /\ h.defaulted = history.defaulted
         /\ h.used = history.used \cup {work[x]} /\ history.raced \subseteq h.raced
         /\ h.again \subseteq history.again \cup {work[x]}
         /\ work[x] \notin history.used => h.again = history.again
         /\ (\E y \in Clients \ {x} : work[y] = work[x]) => work[x] \in h.raced
<1>. DEFINE used  == history.used \cup {work[x]}
            again == IF work[x] \in history.used THEN history.again \cup {work[x]} ELSE history.again
            raced == IF \E y \in Clients \ {x} : work[y] = work[x] THEN history.raced \cup {work[x]}
                     ELSE history.raced
<1>1. h = [[[history EXCEPT !.used = used] EXCEPT !.again = again] EXCEPT !.raced = raced]
  BY DEF Used, Past, History
<1>2. used \subseteq Job /\ again \subseteq Job /\ raced \subseteq Job
  BY DEF Past, History
<1>. HIDE DEF used, again, raced
<1>3. /\ h \in History /\ h.withdrew = history.withdrew /\ h.defaulted = history.defaulted
      /\ h.used = used /\ h.again = again /\ h.raced = raced
  BY <1>1, <1>2 DEF Past, History
<1>. QED
  BY <1>3 DEF used, again, raced

\* Something is used: what is at it now overlaps, and it cannot be begun again
LEMMA UseStays ==
  ASSUME IInv, NEW x \in Clients, work[x] \in Job, Works, work'[x] = Idle,
         \A y \in Clients : y # x => work'[y] = work[y],
         NEW h, h = Used(history, x),
         history'.used = h.used, history'.again = h.again, history'.raced = h.raced,
         \A c \in Cands : account'[c].link => account[c].link,
         \A i : Spent(i) => Spent(i)',
         NEW job, job = work[x], Gone(job)'
  PROVE  Uses' /\ UsedOnce'
<1>1. Typed /\ Uses /\ UsedOnce
  BY InvIs
<1>2. /\ h.used = history.used \cup {work[x]} /\ history.raced \subseteq h.raced
      /\ h.again \subseteq history.again \cup {work[x]}
      /\ work[x] \notin history.used => h.again = history.again
      /\ (\E y \in Clients \ {x} : work[y] = work[x]) => work[x] \in h.raced
  BY <1>1, UsedIs DEF Typed
<1>3. ASSUME NEW w \in history.used PROVE Gone(w)'
  BY UsedAre DEF Gone
<1>4. \A w \in history'.used : Gone(w)'
  BY <1>2, <1>3
<1>5. Idle \notin history'.used
  <2>1. Idle \notin Job
    BY DEF Idle, Job
  <2>2. history.used \subseteq Job
    BY <1>1 DEF Typed, Past, History
  <2>. QED
    BY <1>2, <2>1, <2>2
<1>6. ASSUME NEW y \in Clients, work'[y] \in history'.used PROVE work'[y] \in history'.raced
  <2>1. y # x /\ work'[y] = work[y]
    BY <1>5, <1>6
  <2>. QED
    BY <1>1, <1>2, <1>6, <2>1 DEF Uses
<1>7. work[x] \in history.used => work[x] \in history.raced
  BY <1>1 DEF Uses
<1>8. UsedOnce'
  BY <1>1, <1>2, <1>7 DEF UsedOnce
<1>. QED
  BY <1>4, <1>6, <1>8 DEF Uses

------------------------------------------------------------------------------
(* The browser                                                              *)

LEMMA Browses ==
  ASSUME PortalAssumption, IInv, NEW b \in Browsers,
         \/ Visit(b) \/ ConsentKnown(b) \/ Logout(b) \/ DeviceExpires(b)
         \/ \E c \in Cands : LoginDirectly(b, c)
         \/ \E c \in Cands : LoginWaits(b, c)
  PROVE  IInv'
<1>1. /\ Typed /\ session[b] \in Session /\ NoOne \notin Cands
  BY InvIs DEF Typed, Sessions, PortalAssumption
<1>2. /\ session[b].cand \in Somebody /\ session[b].pending \in Somebody /\ session[b].pwOk \in Somebody
      /\ session[b].consentOk \in Somebody
  BY <1>1 DEF Session
<1>3. session[b].cand # NoOne => session[b].cand \in Cands /\ account[session[b].cand].password # NoPassword
  <2>1. \A c \in Cands : Nobody(c)
    BY InvIs
  <2>. QED
    BY <1>2, <2>1 DEF Nobody, Known, Somebody
<1>4. ASSUME Visit(b) PROVE IInv'
  <2>. DEFINE c == session[b].cand
  <2>1. /\ c # NoOne /\ UNCHANGED <<account, codes, app, work, history>>
        /\ session' = IF ~Available(c) THEN [session EXCEPT ![b].cand = NoOne]
                      ELSE IF ~(session[b].consentOk = c \/ HasCurrentConsent(c)) THEN session
                      ELSE [session EXCEPT ![b].consentOk = c, ![b].pwOk = IF Default(c) THEN @ ELSE c]
    BY <1>4 DEF Visit, Free
  <2>2. CASE session' = [session EXCEPT ![b].cand = NoOne]
    <3>. DEFINE new == [session[b] EXCEPT !.cand = NoOne]
    <3>1. new \in Session /\ new.cand = NoOne /\ new.pending = session[b].pending
          /\ new.pwOk = session[b].pwOk /\ new.consentOk = session[b].consentOk
      BY <1>1 DEF Session, Somebody
    <3>2. session' = [session EXCEPT ![b] = new]
      BY <2>2
    <3>. HIDE DEF new
    <3>. QED
      BY <1>1, <2>1, <3>1, <3>2, SessionWritten
  <2>3. CASE session' = session
    <3>1. session' = [session EXCEPT ![b] = session[b]]
      BY <1>1, <2>3 DEF Typed, Sessions
    <3>. QED
      BY <1>1, <2>1, <3>1, SessionWritten
  <2>4. CASE /\ session[b].consentOk = c \/ HasCurrentConsent(c)
             /\ session' = [session EXCEPT ![b].consentOk = c, ![b].pwOk = IF Default(c) THEN @ ELSE c]
    <3>. DEFINE pw  == IF Default(c) THEN session[b].pwOk ELSE c
                new == [[session[b] EXCEPT !.consentOk = c] EXCEPT !.pwOk = pw]
    <3>1. pw \in Somebody
      BY <1>2
    <3>2. session' = [session EXCEPT ![b] = new]
      BY <1>1, <2>4 DEF Session, Typed, Sessions
    <3>3. /\ new \in Session /\ new.cand = c /\ new.pending = session[b].pending
          /\ new.pwOk = pw /\ new.consentOk = c
      BY <1>1, <1>2, <3>1 DEF Session
    <3>4. pw = session[b].pwOk \/ (pw = c /\ ~Default(c))
      OBVIOUS
    <3>. HIDE DEF new, pw
    <3>5. /\ \A d \in Cands : d \in {new.cand, new.pending, new.pwOk} =>
               d \in {session[b].cand, session[b].pending, session[b].pwOk} \/ account[d].password # NoPassword
          /\ \A d \in Cands : new.consentOk = d => session[b].consentOk = d \/ HasCurrentConsent(d)
          /\ \A d \in Cands : new.pwOk = d => session[b].pwOk = d \/ ~Default(d)
      BY <1>1, <1>3, <2>1, <2>4, <3>3, <3>4
    <3>. QED
      BY <2>1, <3>2, <3>3, <3>5, SessionWritten
  <2>. QED
    BY <2>1, <2>2, <2>3, <2>4
<1>5. ASSUME ConsentKnown(b) PROVE IInv'
  <2>. DEFINE c == session[b].cand
              new == [session[b] EXCEPT !.consentOk = c]
  <2>1. /\ HasCurrentConsent(c) /\ session' = [session EXCEPT ![b] = new]
        /\ UNCHANGED <<account, codes, app, work, history>>
    BY <1>5 DEF ConsentKnown, Free
  <2>2. new \in Session /\ new.cand = c /\ new.pending = session[b].pending
        /\ new.pwOk = session[b].pwOk /\ new.consentOk = c
    BY <1>1, <1>2 DEF Session
  <2>. HIDE DEF new
  <2>. QED
    BY <1>1, <2>1, <2>2, SessionWritten
<1>6. ASSUME Logout(b) PROVE IInv'
  <2>. DEFINE new == [[[session[b] EXCEPT !.cand = NoOne] EXCEPT !.pwOk = NoOne] EXCEPT !.consentOk = NoOne]
  <2>1. session' = [session EXCEPT ![b] = new] /\ UNCHANGED <<account, codes, app, work, history>>
    BY <1>1, <1>6 DEF Logout, Leave, Free, Typed, Sessions, Session
  <2>2. new \in Session /\ new.cand = NoOne /\ new.pending = session[b].pending
        /\ new.pwOk = NoOne /\ new.consentOk = NoOne
    BY <1>1 DEF Session, Somebody
  <2>. HIDE DEF new
  <2>3. /\ \A d \in Cands : d \in {new.cand, new.pending, new.pwOk} =>
             d \in {session[b].cand, session[b].pending, session[b].pwOk} \/ account[d].password # NoPassword
        /\ \A d \in Cands : new.consentOk = d => session[b].consentOk = d \/ HasCurrentConsent(d)
        /\ \A d \in Cands : new.pwOk = d => session[b].pwOk = d \/ ~Default(d)
    BY <1>1, <2>2
  <2>. QED
    BY <2>1, <2>2, <2>3, SessionWritten
<1>7. ASSUME DeviceExpires(b) PROVE IInv'
  <2>. DEFINE new == [session[b] EXCEPT !.device = NoOne]
  <2>1. session' = [session EXCEPT ![b] = new] /\ UNCHANGED <<account, codes, app, work, history>>
    BY <1>7 DEF DeviceExpires
  <2>2. new \in Session /\ new.cand = session[b].cand /\ new.pending = session[b].pending
        /\ new.pwOk = session[b].pwOk /\ new.consentOk = session[b].consentOk
    BY <1>1 DEF Session, Somebody
  <2>. HIDE DEF new
  <2>. QED
    BY <1>1, <2>1, <2>2, SessionWritten
<1>8. ASSUME NEW c \in Cands, LoginDirectly(b, c) PROVE IInv'
  <2>. DEFINE new == [session[b] EXCEPT !.cand = c]
  <2>1. /\ account[c].password # NoPassword /\ session' = [session EXCEPT ![b] = new]
        /\ UNCHANGED <<account, codes, app, work, history>>
    BY <1>8 DEF LoginDirectly, MayLogIn, Free, LogIn
  <2>2. new \in Session /\ new.cand = c /\ new.pending = session[b].pending
        /\ new.pwOk = session[b].pwOk /\ new.consentOk = session[b].consentOk
    BY <1>1 DEF Session, Somebody
  <2>. HIDE DEF new
  <2>. QED
    BY <1>1, <2>1, <2>2, SessionWritten
<1>9. ASSUME NEW c \in Cands, LoginWaits(b, c) PROVE IInv'
  <2>. DEFINE new == [session[b] EXCEPT !.pending = c]
  <2>1. /\ account[c].password # NoPassword /\ session' = [session EXCEPT ![b] = new]
        /\ UNCHANGED <<account, codes, app, work, history>>
    BY <1>9 DEF LoginWaits, NeedsCode, MayLogIn, Free, AskForCode
  <2>2. new \in Session /\ new.cand = session[b].cand /\ new.pending = c
        /\ new.pwOk = session[b].pwOk /\ new.consentOk = session[b].consentOk
    BY <1>1 DEF Session, Somebody
  <2>. HIDE DEF new
  <2>. QED
    BY <1>1, <2>1, <2>2, SessionWritten
<1>. QED
  BY <1>4, <1>5, <1>6, <1>7, <1>8, <1>9

LEMMA Withdraws ==
  ASSUME PortalAssumption, IInv, NEW b \in Browsers, Withdraw(b)
  PROVE  IInv'
<1>. DEFINE c == session[b].cand
            row == [account[c] EXCEPT !.consents = 0]
            new == [[[session[b] EXCEPT !.cand = NoOne] EXCEPT !.pwOk = NoOne] EXCEPT !.consentOk = NoOne]
<1>1. /\ Typed /\ ConsentRemembered /\ PasswordSeen /\ (\A d \in Cands : Nobody(d)) /\ Uses /\ UsedOnce
  BY InvIs
<1>2. /\ session[b] \in Session /\ c \in Cands /\ NoOne \notin Cands /\ account[c] \in Account
  BY <1>1 DEF Typed, Sessions, Accounts, PortalAssumption, Withdraw, Session, Somebody
<1>3. /\ account' = [account EXCEPT ![c] = row] /\ session' = [session EXCEPT ![b] = new]
      /\ history' = [history EXCEPT !.withdrew = @ \cup {<<b, c>>}]
      /\ UNCHANGED <<codes, app, work>>
  BY <1>1, <1>2 DEF Withdraw, Row, Leave, Free, Typed, Sessions, Session
<1>4. /\ new \in Session /\ new.cand = NoOne /\ new.pending = session[b].pending
      /\ new.pwOk = NoOne /\ new.consentOk = NoOne
  BY <1>2 DEF Session, Somebody
<1>5. /\ row \in Account /\ row.consents = 0 /\ row.password = account[c].password
      /\ row.mobile = account[c].mobile /\ row.link = account[c].link
  BY <1>2 DEF Account
<1>. HIDE DEF row, new
<1>6. /\ history' \in History /\ history'.withdrew = history.withdrew \cup {<<b, c>>}
      /\ history'.defaulted = history.defaulted /\ history'.used = history.used
      /\ history'.again = history.again /\ history'.raced = history.raced
  BY <1>1, <1>2, <1>3 DEF Typed, Past, History
<1>. HIDE DEF c
<1>7. account'[c] = row /\ \A d \in Cands : d # c => account'[d] = account[d]
  BY <1>1, <1>2, <1>3 DEF Typed, Accounts
<1>8. session'[b] = new /\ \A x \in Browsers : x # b => session'[x] = session[x]
  BY <1>1, <1>3 DEF Typed, Sessions
<1>9. Typed'
  <2>1. Accounts' /\ Sessions' /\ Past'
    BY <1>1, <1>3, <1>4, <1>5, <1>6 DEF Typed, Accounts, Sessions, Past
  <2>2. CodeRows' /\ AppsHold'
    BY <1>1, <1>3 DEF Typed, CodeRows, AppsHold
  <2>3. Works'
    BY <1>1, <1>3, Zenon DEF Typed, Works
  <2>. QED
    BY <2>1, <2>2, <2>3 DEF Typed
\* The other browsers of the candidate learn nothing: this one did it
<1>10. ConsentRemembered'
  <2>1. ASSUME NEW x \in Browsers, NEW d \in Cands, session'[x].consentOk = d, ~(account'[d].consents > 0)
        PROVE  \E other \in Browsers \ {x} : <<other, d>> \in history'.withdrew
    <3>1. x # b /\ session[x].consentOk = d
      BY <1>2, <1>4, <1>8, <2>1
    <3>2. CASE d = c
      BY <1>6, <3>1, <3>2
    <3>3. CASE d # c
      <4>1. ~(account[d].consents > 0)
        BY <1>7, <2>1, <3>3
      <4>. QED
        BY <1>1, <1>6, <3>1, <4>1 DEF ConsentRemembered, HasCurrentConsent
    <3>. QED
      BY <3>2, <3>3
  <2>. QED
    BY <2>1 DEF ConsentRemembered, HasCurrentConsent
<1>11. SeenKept
  BY <1>2, <1>4, <1>5, <1>6, <1>7, <1>8 DEF SeenKept, Default
<1>12. NobodyKept
  BY <1>2, <1>3, <1>4, <1>5, <1>7, <1>8 DEF NobodyKept, Known
<1>13. UsesKept
  BY <1>3, <1>5, <1>6, <1>7 DEF UsesKept, Spent
<1>. QED
  BY <1>1, <1>9, <1>10, <1>11, <1>12, <1>13, InvIs, SeenStays, NobodyStays, UsesStay DEF Typed

LEMMA ForcesPassword ==
  ASSUME PortalAssumption, IInv, NEW b \in Browsers, NEW password \in Passwords, ForcePassword(b, password)
  PROVE  IInv'
<1>. DEFINE c == session[b].cand
            row == [account[c] EXCEPT !.password = password]
            new == [session[b] EXCEPT !.pwOk = c]
<1>1. Typed
  BY InvIs
<1>2. /\ session[b] \in Session /\ c \in Cands /\ account[c] \in Account /\ password # NoPassword
  BY <1>1 DEF Typed, Sessions, Accounts, PortalAssumption, ForcePassword, Session, Somebody
<1>3. /\ account' = [account EXCEPT ![c] = row] /\ session' = [session EXCEPT ![b] = new]
      /\ password # account[c].mobile /\ UNCHANGED <<codes, app, history, work>>
  BY DEF ForcePassword, Row, Free, MayReplace
<1>4. /\ new \in Session /\ new.cand = c /\ new.pending = session[b].pending
      /\ new.pwOk = c /\ new.consentOk = session[b].consentOk
  BY <1>2 DEF Session, Somebody
<1>5. /\ row \in Account /\ row.consents = account[c].consents /\ row.password = password
      /\ row.mobile = account[c].mobile /\ row.link = account[c].link
  BY <1>2 DEF Account
<1>. HIDE DEF row, new
<1>6. account'[c] = row /\ \A d \in Cands : d # c => account'[d] = account[d]
  BY <1>1, <1>2, <1>3 DEF Typed, Accounts
<1>7. session'[b] = new /\ \A x \in Browsers : x # b => session'[x] = session[x]
  BY <1>1, <1>3 DEF Typed, Sessions
<1>8. Typed'
  <2>1. Accounts' /\ Sessions'
    BY <1>1, <1>3, <1>4, <1>5 DEF Typed, Accounts, Sessions
  <2>2. CodeRows' /\ AppsHold' /\ Past'
    BY <1>1, <1>3 DEF Typed, CodeRows, AppsHold, Past
  <2>3. Works'
    BY <1>1, <1>3, Zenon DEF Typed, Works
  <2>. QED
    BY <2>1, <2>2, <2>3 DEF Typed
<1>. HIDE DEF c
<1>9. ConsentKept
  BY <1>3, <1>4, <1>5, <1>6, <1>7 DEF ConsentKept, HasCurrentConsent
<1>10. SeenKept
  BY <1>2, <1>3, <1>4, <1>5, <1>6, <1>7 DEF SeenKept, Default
<1>11. NobodyKept
  BY <1>2, <1>3, <1>4, <1>5, <1>6, <1>7 DEF NobodyKept, Known
<1>12. UsesKept
  BY <1>3, <1>5, <1>6 DEF UsesKept, Spent
<1>. QED
  BY <1>8, <1>9, <1>10, <1>11, <1>12, Keeps
------------------------------------------------------------------------------
(* The rows of the accounts                                                 *)

LEMMA ChangesRow ==
  ASSUME PortalAssumption, IInv,
         \/ \E b \in Browsers, m \in Mobiles : UpdateDetails(b, m)
         \/ \E b \in Browsers, p \in Passwords : ChangePassword(b, p)
         \/ \E a \in Apps, p \in Passwords : ApiChangePassword(a, p)
         \/ \E c \in Cands : LinkExpires(c) \/ ResetPassword(c)
         \/ \E c \in Cands, standing \in {"active", "blocked", "deleted"} : SetStanding(c, standing)
         \/ \E c \in Cands, m \in Mobiles :
              \E email \in FormAddresses \cup {account[c].email} : EditAccount(c, m, email)
  PROVE  IInv'
<1>1. Typed /\ history \in History /\ NoPassword \notin Passwords /\ Mobiles \subseteq Passwords
  BY InvIs DEF Typed, Past, PortalAssumption
<1>2. \A c \in Cands : account[c] \in Account /\ account[c].mobile \in Mobiles
  BY <1>1 DEF Typed, Accounts, Account
\* What a session or an app names, and is somebody, is a candidate
<1>3. /\ \A b \in Browsers : session[b].cand # NoOne => session[b].cand \in Cands
      /\ \A a \in Apps : app[a].cand # NoOne => app[a].cand \in Cands
  BY <1>1 DEF Typed, Sessions, Session, AppsHold, Somebody
<1>4. ASSUME NEW c \in Cands, NEW password \in Passwords,
             Row(c, [account[c] EXCEPT !.password = password]),
             \/ history' = Defaulted(history, c, account[c].mobile, password)
             \/ password # account[c].mobile /\ history' = history,
             UNCHANGED <<codes, session, app, work>>
      PROVE  IInv'
  <2>. DEFINE row == [account[c] EXCEPT !.password = password]
  <2>1. account' = [account EXCEPT ![c] = row]
    BY <1>4 DEF Row
  <2>2. /\ row \in Account /\ row.consents = account[c].consents /\ row.password = password
        /\ row.mobile = account[c].mobile /\ row.link = account[c].link
    BY <1>2 DEF Account
  <2>3. /\ history' \in History /\ history'.withdrew = history.withdrew /\ history'.used = history.used
        /\ history'.again = history.again /\ history'.raced = history.raced
        /\ history.defaulted \subseteq history'.defaulted
        /\ account[c].mobile = password => Excused(c, history')
    <3>1. CASE history' = Defaulted(history, c, account[c].mobile, password)
      BY <1>1, <3>1, DefaultedIs
    <3>2. CASE password # account[c].mobile /\ history' = history
      BY <1>1, <3>2
    <3>. QED
      BY <1>4, <3>1, <3>2
  <2>4. row.password # NoPassword /\ (row.password = row.mobile => Excused(c, history'))
    BY <1>1, <2>2, <2>3
  <2>. HIDE DEF row
  <2>. QED
    BY <1>4, <2>1, <2>2, <2>3, <2>4, RowWritten
<1>5. ASSUME NEW b \in Browsers, NEW m \in Mobiles, UpdateDetails(b, m) PROVE IInv'
  <2>. DEFINE c == session[b].cand
              row == [account[c] EXCEPT !.mobile = m]
  <2>1. /\ c \in Cands /\ account' = [account EXCEPT ![c] = row]
        /\ history' = Defaulted(history, c, m, account[c].password)
        /\ UNCHANGED <<codes, session, app, work>>
    BY <1>3, <1>5 DEF UpdateDetails, Row, Free
  <2>2. /\ row \in Account /\ row.consents = account[c].consents /\ row.password = account[c].password
        /\ row.mobile = m /\ row.link = account[c].link
    BY <1>2, <2>1 DEF Account
  <2>3. /\ history' \in History /\ history'.withdrew = history.withdrew /\ history'.used = history.used
        /\ history'.again = history.again /\ history'.raced = history.raced
        /\ history.defaulted \subseteq history'.defaulted
        /\ m = account[c].password => Excused(c, history')
    BY <1>1, <2>1, DefaultedIs
  <2>4. row.password = row.mobile => Excused(c, history')
    BY <2>2, <2>3
  <2>. HIDE DEF row, c
  <2>. QED
    BY <2>1, <2>2, <2>3, <2>4, RowWritten
<1>6. ASSUME NEW b \in Browsers, NEW p \in Passwords, ChangePassword(b, p) PROVE IInv'
  <2>. DEFINE c == session[b].cand
  <2>1. /\ c \in Cands /\ Row(c, [account[c] EXCEPT !.password = p])
        /\ history' = Defaulted(history, c, account[c].mobile, p)
        /\ UNCHANGED <<codes, session, app, work>>
    BY <1>3, <1>6 DEF ChangePassword, WritePassword, Free
  <2>. HIDE DEF c
  <2>. QED
    BY <1>4, <2>1
<1>7. ASSUME NEW a \in Apps, NEW p \in Passwords, ApiChangePassword(a, p) PROVE IInv'
  <2>. DEFINE c == app[a].cand
  <2>1. /\ c \in Cands /\ Row(c, [account[c] EXCEPT !.password = p])
        /\ p # account[c].mobile /\ history' = history
        /\ UNCHANGED <<codes, session, app, work>>
    BY <1>3, <1>7 DEF ApiChangePassword, Free
  <2>. HIDE DEF c
  <2>. QED
    BY <1>4, <2>1
<1>8. ASSUME NEW c \in Cands, ResetPassword(c) PROVE IInv'
  <2>1. account[c].mobile \in Passwords
    BY <1>1, <1>2
  <2>. QED
    BY <1>4, <1>8, <2>1 DEF ResetPassword, WritePassword
\* The password and the number stay
<1>9. ASSUME NEW c \in Cands, NEW row \in Account, account' = [account EXCEPT ![c] = row],
             row.consents = account[c].consents, row.link => account[c].link,
             row.password = account[c].password, row.mobile = account[c].mobile,
             UNCHANGED <<codes, session, app, work, history>>
      PROVE  IInv'
  <2>1. row.password = row.mobile => Default(c)
    BY <1>9 DEF Default
  <2>. QED
    BY <1>1, <1>9, <2>1, RowWritten
<1>10. ASSUME NEW c \in Cands, LinkExpires(c) PROVE IInv'
  <2>. DEFINE row == [account[c] EXCEPT !.link = FALSE]
  <2>1. account' = [account EXCEPT ![c] = row] /\ UNCHANGED <<codes, session, app, work, history>>
    BY <1>10 DEF LinkExpires, Row
  <2>2. /\ row \in Account /\ row.consents = account[c].consents /\ row.link = FALSE
        /\ row.password = account[c].password /\ row.mobile = account[c].mobile
    BY <1>2 DEF Account
  <2>. HIDE DEF row
  <2>. QED
    BY <1>9, <2>1, <2>2
<1>11. ASSUME NEW c \in Cands, NEW standing \in {"active", "blocked", "deleted"}, SetStanding(c, standing)
       PROVE  IInv'
  <2>. DEFINE row == [account[c] EXCEPT !.standing = standing]
  <2>1. account' = [account EXCEPT ![c] = row] /\ UNCHANGED <<codes, session, app, work, history>>
    BY <1>11 DEF SetStanding, Row
  <2>2. /\ row \in Account /\ row.consents = account[c].consents /\ row.link = account[c].link
        /\ row.password = account[c].password /\ row.mobile = account[c].mobile
    BY <1>2 DEF Account
  <2>. HIDE DEF row
  <2>. QED
    BY <1>9, <2>1, <2>2
\* The number, and with it the password of an account that has none
<1>12. ASSUME NEW c \in Cands, NEW m \in Mobiles, NEW email \in FormAddresses \cup {account[c].email},
              EditAccount(c, m, email)
       PROVE  IInv'
  <2>. DEFINE password == IF account[c].password = NoPassword THEN m ELSE account[c].password
              row == [account[c] EXCEPT !.mobile = m, !.email = email, !.password = password]
  <2>1. /\ account' = [account EXCEPT ![c] = row] /\ history' = Defaulted(history, c, m, password)
        /\ UNCHANGED <<codes, session, app, work>>
    BY <1>12 DEF EditAccount, Row
  <2>2. email \in BOOLEAN /\ password \in Passwords
    BY <1>1, <1>2, PortalAssumption DEF Account
  <2>3. /\ row \in Account /\ row.consents = account[c].consents /\ row.password = password
        /\ row.mobile = m /\ row.link = account[c].link
    BY <1>2, <2>2 DEF Account
  <2>. HIDE DEF password, row
  <2>4. /\ history' \in History /\ history'.withdrew = history.withdrew /\ history'.used = history.used
        /\ history'.again = history.again /\ history'.raced = history.raced
        /\ history.defaulted \subseteq history'.defaulted
        /\ m = password => Excused(c, history')
    BY <1>1, <2>1, DefaultedIs
  <2>5. row.password # NoPassword /\ (row.password = row.mobile => Excused(c, history'))
    BY <1>1, <2>2, <2>3, <2>4
  <2>. QED
    BY <2>1, <2>3, <2>4, <2>5, RowWritten
<1>. QED
  BY <1>5, <1>6, <1>7, <1>8, <1>10, <1>11, <1>12

\* Nobody is in an account without a password, so nobody's password is the number now
\* who had looked at another one
LEMMA SetsPasswords ==
  ASSUME PortalAssumption, IInv, BulkSetPasswords
  PROVE  IInv'
<1>. DEFINE without == {c \in Cands : account[c].password = NoPassword /\ ~Deleted(c)}
<1>1. Typed /\ \A c \in Cands : Nobody(c)
  BY InvIs
<1>2. /\ account' = [c \in Cands |-> IF c \in without
                                     THEN [account[c] EXCEPT !.password = account[c].mobile] ELSE account[c]]
      /\ UNCHANGED <<codes, session, app, work, history>>
  BY DEF BulkSetPasswords
<1>3. ASSUME NEW c \in Cands
      PROVE  LET row == [account[c] EXCEPT !.password = account[c].mobile]
             IN  /\ account[c] \in Account /\ row \in Account /\ row.password = account[c].mobile
                 /\ row.consents = account[c].consents /\ row.link = account[c].link
                 /\ row.mobile = account[c].mobile /\ account[c].mobile \in Passwords
  BY <1>1 DEF Typed, Accounts, Account, PortalAssumption
<1>4. ASSUME NEW c \in Cands
      PROVE  /\ account'[c] \in Account /\ account'[c].consents = account[c].consents
             /\ account'[c].link = account[c].link /\ account'[c].mobile = account[c].mobile
             /\ \/ account'[c].password = account[c].password
                \/ account[c].password = NoPassword /\ account'[c].password \in Passwords
  <2>1. CASE c \in without
    <3>. DEFINE row == [account[c] EXCEPT !.password = account[c].mobile]
    <3>1. account'[c] = row
      BY <1>2, <2>1
    <3>2. account[c].password = NoPassword
      BY <2>1
    <3>. HIDE DEF without
    <3>. QED
      BY <1>3, <3>1, <3>2
  <2>2. CASE c \notin without
    BY <1>2, <1>3, <2>2
  <2>. QED
    BY <2>1, <2>2
<1>. HIDE DEF without
<1>5. Typed'
  <2>1. Accounts'
    BY <1>2, <1>4 DEF Accounts
  <2>2. CodeRows' /\ Sessions' /\ AppsHold' /\ Past'
    BY <1>1, <1>2 DEF Typed, CodeRows, Sessions, AppsHold, Past
  <2>3. Works'
    BY <1>1, <1>2, Zenon DEF Typed, Works
  <2>. QED
    BY <2>1, <2>2, <2>3 DEF Typed
<1>6. ConsentKept
  BY <1>2, <1>4 DEF ConsentKept, HasCurrentConsent
<1>7. SeenKept
  <2>1. ASSUME NEW b \in Browsers, NEW c \in Cands, session'[b].pwOk = c, account'[c].password = account'[c].mobile
        PROVE  account[c].password = account[c].mobile
    <3>1. account[c].password # NoPassword
      BY <1>1, <1>2, <2>1 DEF Nobody, Known
    <3>. QED
      BY <1>4, <2>1, <3>1
  <2>. QED
    BY <1>2, <2>1 DEF SeenKept, Default
<1>8. NobodyKept
  <2>1. NoPassword \notin Passwords
    BY DEF PortalAssumption
  <2>. QED
    BY <1>2, <1>4, <2>1 DEF NobodyKept, Known
<1>9. UsesKept
  BY <1>2, <1>4 DEF UsesKept, Spent
<1>. QED
  BY <1>5, <1>6, <1>7, <1>8, <1>9, Keeps

------------------------------------------------------------------------------
(* The app                                                                  *)

LEMMA ActsInApp ==
  ASSUME PortalAssumption, IInv, NEW a \in Apps,
         \/ PendingExpires(a)
         \/ \E c \in Cands : ApiLoginDirectly(a, c)
         \/ \E c \in Cands : LoginWaits(a, c) /\ a \notin Browsers
  PROVE  IInv'
<1>1. Typed /\ app[a] \in [pending : Somebody, cand : Somebody]
  BY InvIs DEF Typed, AppsHold
<1>2. ASSUME NEW who \in Somebody, who \in Cands => account[who].password # NoPassword,
             \/ app' = [app EXCEPT ![a].pending = who]
             \/ app' = [app EXCEPT ![a].cand = who],
             UNCHANGED <<account, codes, session, work, history>>
      PROVE  IInv'
  <2>1. CASE app' = [app EXCEPT ![a].pending = who]
    <3>. DEFINE new == [app[a] EXCEPT !.pending = who]
    <3>1. /\ new \in [pending : Somebody, cand : Somebody] /\ new.pending = who
          /\ new.cand = app[a].cand /\ app' = [app EXCEPT ![a] = new]
      BY <1>1, <2>1
    <3>. HIDE DEF new
    <3>2. \A c \in Cands : c \in {new.cand, new.pending} =>
            c \in {app[a].cand, app[a].pending} \/ account[c].password # NoPassword
      BY <1>2, <3>1
    <3>. QED
      BY <1>2, <3>1, <3>2, AppWritten
  <2>2. CASE app' = [app EXCEPT ![a].cand = who]
    <3>. DEFINE new == [app[a] EXCEPT !.cand = who]
    <3>1. /\ new \in [pending : Somebody, cand : Somebody] /\ new.cand = who
          /\ new.pending = app[a].pending /\ app' = [app EXCEPT ![a] = new]
      BY <1>1, <2>2
    <3>. HIDE DEF new
    <3>2. \A c \in Cands : c \in {new.cand, new.pending} =>
            c \in {app[a].cand, app[a].pending} \/ account[c].password # NoPassword
      BY <1>2, <3>1
    <3>. QED
      BY <1>2, <3>1, <3>2, AppWritten
  <2>. QED
    BY <1>2, <2>1, <2>2
<1>3. ASSUME PendingExpires(a) PROVE IInv'
  <2>1. NoOne \in Somebody
    BY DEF Somebody
  <2>. QED
    BY <1>2, <1>3, <2>1 DEF PendingExpires, PortalAssumption
<1>4. ASSUME NEW c \in Cands, ApiLoginDirectly(a, c) PROVE IInv'
  <2>1. c \in Somebody
    BY DEF Somebody
  <2>. QED
    BY <1>2, <1>4, <2>1 DEF ApiLoginDirectly, MayLogIn, Free
<1>5. ASSUME NEW c \in Cands, LoginWaits(a, c), a \notin Browsers PROVE IInv'
  <2>1. c \in Somebody
    BY DEF Somebody
  <2>. QED
    BY <1>2, <1>5, <2>1 DEF LoginWaits, NeedsCode, MayLogIn, AskForCode, Free
<1>. QED
  BY <1>3, <1>4, <1>5

------------------------------------------------------------------------------
(* The requests                                                             *)

LEMMA Begun ==
  ASSUME IInv, NEW x \in Clients,
         \/ \E c \in Cands : LoginSends(x, c)
         \/ \E c \in Cands : x \in Browsers /\ OpenLink(x, c)
         \/ \E i \in DOMAIN codes : Verify(x, i)
         \/ Consent(x)
  PROVE  IInv'
<1>1. Typed /\ \A c \in Cands : Nobody(c)
  BY InvIs
<1>2. 0 \in Nat
  OBVIOUS
<1>3. ASSUME NEW c \in Cands, LoginSends(x, c) PROVE IInv'
  BY <1>2, <1>3, WorkStarts DEF LoginSends, NeedsCode, MayLogIn
<1>4. ASSUME NEW c \in Cands, OpenLink(x, c) PROVE IInv'
  <2>1. account[c].password # NoPassword /\ account[c].link
    BY <1>1, <1>4 DEF OpenLink, Nobody
  <2>. QED
    BY <1>2, <1>4, <2>1, WorkStarts DEF OpenLink
<1>5. ASSUME NEW i \in DOMAIN codes, Verify(x, i) PROVE IInv'
  <2>1. i \in Nat /\ codes[i].cand \in Cands /\ Known(codes[i].cand)
    BY <1>1, CodesAre DEF Typed, Known
  <2>2. ~Spent(i)
    BY <1>5 DEF Verify, Spent
  <2>. QED
    BY <1>5, <2>1, <2>2, WorkStarts DEF Verify
<1>6. ASSUME Consent(x) PROVE IInv'
  <2>1. PICK c \in Cands : /\ IF x \in Browsers THEN session[x].cand = c /\ ~Deleted(c) ELSE SignedIn(x, c)
                           /\ Start(x, "consent", c, 0)
                           /\ UNCHANGED <<account, codes, session, app, history>>
    BY <1>6 DEF Consent
  <2>2. Known(c)
    BY <2>1 DEF Known, SignedIn, Clients
  <2>. QED
    BY <1>2, <2>1, <2>2, WorkStarts
<1>. QED
  BY <1>3, <1>4, <1>5, <1>6

LEMMA AddsCode ==
  ASSUME IInv, NEW x \in Clients, AddCode(x)
  PROVE  IInv'
<1>. DEFINE w == [[work[x] EXCEPT !.kind = "mail"] EXCEPT !.item = Len(codes) + 1]
            new == [cand |-> work[x].cand, state |-> "fresh"]
<1>1. /\ Typed /\ work[x].cand \in Cands /\ Known(work[x].cand) /\ work[x] \in Work
  <2>1. Typed /\ Working(x, "code")
    BY InvIs DEF AddCode
  <2>. QED
    BY <2>1, WorkingIs DEF Typed, Works
<1>2. /\ new \in Code /\ new.cand = work[x].cand /\ new.state = "fresh"
  BY <1>1 DEF Code
<1>3. /\ codes' = Append(codes, new) /\ work' = [work EXCEPT ![x] = w]
      /\ UNCHANGED <<account, session, app, history>>
  BY <1>1 DEF AddCode, Typed, Works, Work
<1>. HIDE DEF new
<1>4. /\ CodeRows' /\ DOMAIN codes' = DOMAIN codes \cup {Len(codes) + 1}
      /\ Len(codes) + 1 \in Nat /\ codes'[Len(codes) + 1] = new
      /\ \A j \in DOMAIN codes : codes'[j] = codes[j]
  BY <1>1, <1>2, <1>3, CodeAdded DEF Typed
<1>5. w \in Work /\ w.kind = "mail" /\ w.item = Len(codes) + 1 /\ w.cand = work[x].cand
  BY <1>1, <1>4 DEF Work
<1>. HIDE DEF w
<1>6. work'[x] = w /\ \A y \in Clients : y # x => work'[y] = work[y]
  BY <1>1, <1>3 DEF Typed, Works
<1>7. Typed'
  <2>1. Works'
    <3>1. work' \in [Clients -> Work]
      BY <1>1, <1>3, <1>5 DEF Typed, Works
    <3>2. ASSUME NEW y \in Clients
          PROVE  /\ work'[y].kind \in {"mail", "verify"} => work'[y].item \in DOMAIN codes'
                 /\ work'[y].kind # "idle" => work'[y].cand \in Cands
      <4>1. CASE y = x
        BY <1>1, <1>4, <1>5, <1>6, <4>1
      <4>2. CASE y # x
        BY <1>1, <1>4, <1>6, <4>2 DEF Typed, Works
      <4>. QED
        BY <4>1, <4>2
    <3>. QED
      BY <3>1, <3>2 DEF Works
  <2>. QED
    BY <1>1, <1>3, <1>4, <2>1 DEF Typed, Accounts, Sessions, AppsHold, Past
<1>8. ConsentKept /\ SeenKept
  BY <1>3 DEF ConsentKept, HasCurrentConsent, SeenKept, Default
<1>9. \A c : Known(c)' => Known(c)
  BY <1>1, <1>2, <1>3, <1>4, <1>5, <1>6 DEF Known
<1>10. NobodyKept
  BY <1>3, <1>9 DEF NobodyKept
<1>11. UsesKept
  <2>1. w \notin history.used
    BY <1>5, UsedAre
  <2>2. \A i : Spent(i) => Spent(i)'
    BY <1>4 DEF Spent
  <2>. QED
    BY <1>3, <1>6, <2>1, <2>2 DEF UsesKept
<1>. QED
  BY <1>7, <1>8, <1>10, <1>11, Keeps

\* A request is answered and changes no row of an account
LEMMA Answered ==
  ASSUME IInv, NEW x \in Clients, Done(x), CodeRows', Sessions', AppsHold',
         UNCHANGED <<account, history>>, DOMAIN codes \subseteq DOMAIN codes',
         \A i : Spent(i) => Spent(i)',
         \A c : c # NoOne /\ Known(c)' => Known(c),
         \A b \in Browsers : /\ session'[b].consentOk = session[b].consentOk
                             /\ session'[b].pwOk = session[b].pwOk
  PROVE  IInv'
<1>1. Typed
  BY InvIs
<1>2. /\ Works' /\ work'[x] = Idle /\ Idle.kind = "idle"
      /\ \A y \in Clients : y # x => work'[y] = work[y]
  BY <1>1, DoneIs DEF Typed
<1>3. Typed'
  BY <1>1, <1>2 DEF Typed, Accounts, Past
<1>4. ConsentKept /\ SeenKept
  BY DEF ConsentKept, HasCurrentConsent, SeenKept, Default
<1>5. NobodyKept
  <2>1. NoOne \notin Cands
    BY PortalAssumption
  <2>. QED
    BY <2>1 DEF NobodyKept
<1>6. UsesKept
  <2>1. Idle \notin history.used
    BY <1>2, UsedAre
  <2>. QED
    BY <1>2, <2>1 DEF UsesKept
<1>. QED
  BY <1>3, <1>4, <1>5, <1>6, Keeps

LEMMA MailsCode ==
  ASSUME IInv, NEW x \in Clients, CodeMailed(x) \/ CodeNotMailed(x)
  PROVE  IInv'
<1>1. /\ Typed /\ Working(x, "mail") /\ Done(x) /\ work[x].cand \in Cands
      /\ Known(work[x].cand) /\ work[x].item \in DOMAIN codes
  <2>1. Typed /\ Working(x, "mail") /\ Done(x)
    BY InvIs DEF CodeMailed, CodeNotMailed
  <2>. QED
    BY <2>1, WorkingIs
<1>2. ASSUME DOMAIN codes \subseteq DOMAIN codes'
      PROVE  \A c : c # NoOne /\ (\E y \in Clients : work'[y].cand = c) => Known(c)
  <2>1. /\ work'[x] = Idle /\ Idle.cand = NoOne
        /\ \A y \in Clients : y # x => work'[y] = work[y]
    BY <1>1, <1>2, DoneIs DEF Typed
  <2>. QED
    BY <2>1 DEF Known
<1>3. CASE CodeMailed(x)
  <2>. DEFINE c == work[x].cand
  <2>1. AskForCode(x, c) /\ UNCHANGED <<account, codes, history>>
    BY <1>3 DEF CodeMailed
  <2>. HIDE DEF c
  <2>2. c \in Somebody /\ Known(c)
    BY <1>1 DEF Somebody, c
  <2>3. CodeRows' /\ DOMAIN codes \subseteq DOMAIN codes' /\ \A i : Spent(i) => Spent(i)'
    BY <1>1, <2>1 DEF Typed, CodeRows, Spent
  <2>4. CASE x \in Browsers
    <3>. DEFINE new == [session[x] EXCEPT !.pending = c]
    <3>1. session' = [session EXCEPT ![x] = new] /\ app' = app
      BY <2>1, <2>4 DEF AskForCode
    <3>2. /\ new \in Session /\ new.pending = c /\ new.cand = session[x].cand
          /\ new.consentOk = session[x].consentOk /\ new.pwOk = session[x].pwOk
      BY <1>1, <2>2, <2>4 DEF Typed, Sessions, Session
    <3>. HIDE DEF new
    <3>3. /\ Sessions' /\ AppsHold' /\ session'[x] = new
          /\ \A b \in Browsers : b # x => session'[b] = session[b]
      BY <1>1, <2>4, <3>1, <3>2 DEF Typed, Sessions, AppsHold
    <3>4. \A d : d # NoOne /\ Known(d)' => Known(d)
      BY <1>2, <2>1, <2>2, <2>3, <3>1, <3>2, <3>3 DEF Known
    <3>. QED
      BY <1>1, <2>1, <2>3, <3>2, <3>3, <3>4, Answered
  <2>5. CASE x \notin Browsers
    <3>. DEFINE new == [app[x] EXCEPT !.pending = c]
    <3>1. session' = session /\ app' = [app EXCEPT ![x] = new] /\ x \in Apps
      BY <2>1, <2>5 DEF AskForCode, Clients
    <3>2. /\ new \in [pending : Somebody, cand : Somebody] /\ new.pending = c
          /\ new.cand = app[x].cand
      BY <1>1, <2>2, <3>1 DEF Typed, AppsHold
    <3>. HIDE DEF new
    <3>3. /\ Sessions' /\ AppsHold' /\ app'[x] = new
          /\ \A a \in Apps : a # x => app'[a] = app[a]
      BY <1>1, <3>1, <3>2 DEF Typed, Sessions, AppsHold
    <3>4. \A d : d # NoOne /\ Known(d)' => Known(d)
      BY <1>2, <2>1, <2>2, <2>3, <3>1, <3>2, <3>3 DEF Known
    <3>. QED
      BY <1>1, <2>1, <2>3, <3>1, <3>3, <3>4, Answered
  <2>. QED
    BY <2>4, <2>5
<1>4. CASE CodeNotMailed(x)
  <2>. DEFINE i == work[x].item
  <2>1. i \in DOMAIN codes /\ codes' = [codes EXCEPT ![i].state = "used"]
        /\ UNCHANGED <<account, session, app, history>>
    BY <1>1, <1>4 DEF CodeNotMailed
  <2>. HIDE DEF i
  <2>2. /\ CodeRows' /\ DOMAIN codes' = DOMAIN codes
        /\ \A j \in DOMAIN codes : codes'[j].cand = codes[j].cand
        /\ \A j : Spent(j) => Spent(j)'
    BY <1>1, <2>1, CodeWritten DEF Typed
  <2>3. \A d : d # NoOne /\ Known(d)' => Known(d)
    BY <1>2, <2>1, <2>2 DEF Known
  <2>4. Sessions' /\ AppsHold'
    BY <1>1, <2>1 DEF Typed, Sessions, AppsHold
  <2>. QED
    BY <1>1, <2>1, <2>2, <2>3, <2>4, Answered
<1>. QED
  BY <1>3, <1>4

LEMMA CodeAges ==
  ASSUME IInv, NEW i \in DOMAIN codes, AgeCode(i)
  PROVE  IInv'
<1>1. Typed
  BY InvIs
<1>. DEFINE state == IF codes[i].state = "fresh" THEN "valid" ELSE "expired"
<1>2. /\ state \in {"fresh", "valid", "expired", "used"} /\ codes' = [codes EXCEPT ![i].state = state]
      /\ ~Spent(i) /\ UNCHANGED <<account, session, app, work, history>>
  BY DEF AgeCode, Spent
<1>. HIDE DEF state
<1>3. /\ CodeRows' /\ DOMAIN codes' = DOMAIN codes
      /\ \A j \in DOMAIN codes : codes'[j].cand = codes[j].cand
      /\ \A j : Spent(j) => Spent(j)'
  BY <1>1, <1>2, CodeWritten DEF Typed
<1>4. Typed'
  <2>1. Works'
    BY <1>1, <1>2, <1>3, Zenon DEF Typed, Works
  <2>. QED
    BY <1>1, <1>2, <1>3, <2>1 DEF Typed, Accounts, Sessions, AppsHold, Past
<1>5. ConsentKept /\ SeenKept
  BY <1>2 DEF ConsentKept, HasCurrentConsent, SeenKept, Default
<1>6. NobodyKept
  BY <1>2, <1>3 DEF NobodyKept, Known
<1>7. UsesKept
  BY <1>2, <1>3 DEF UsesKept
<1>. QED
  BY <1>4, <1>5, <1>6, <1>7, Keeps

LEMMA GivesConsent ==
  ASSUME IInv, NEW x \in Clients, Consented(x)
  PROVE  IInv'
<1>. DEFINE c == work[x].cand
            row == [account[c] EXCEPT !.consents = account[c].consents + 1]
<1>1. Typed /\ c \in Cands /\ account[c] \in Account /\ Known(c) /\ Done(x)
  <2>1. Typed /\ Working(x, "consent") /\ Done(x)
    BY InvIs DEF Consented
  <2>. QED
    BY <2>1, WorkingIs DEF Typed, Accounts
<1>2. /\ account' = [account EXCEPT ![c] = row] /\ UNCHANGED <<codes, app, history>>
      /\ session' = IF x \in Browsers THEN [session EXCEPT ![x].consentOk = c] ELSE session
  BY DEF Consented, Row
<1>3. /\ row \in Account /\ row.consents > 0 /\ row.password = account[c].password
      /\ row.mobile = account[c].mobile /\ row.link = account[c].link
  BY <1>1 DEF Account
<1>4. /\ Works' /\ work'[x] = Idle /\ Idle.kind = "idle" /\ Idle.cand = NoOne
      /\ \A y \in Clients : y # x => work'[y] = work[y]
  BY <1>1, <1>2, DoneIs DEF Typed
<1>. HIDE DEF row, c
<1>5. account'[c] = row /\ \A d \in Cands : d # c => account'[d] = account[d]
  BY <1>1, <1>2 DEF Typed, Accounts
<1>6. /\ Sessions'
      /\ \A b \in Browsers : /\ session'[b].consentOk \in {session[b].consentOk, c}
                             /\ session'[b].pwOk = session[b].pwOk
                             /\ session'[b].cand = session[b].cand
                             /\ session'[b].pending = session[b].pending
  <2>1. CASE x \in Browsers
    <3>. DEFINE new == [session[x] EXCEPT !.consentOk = c]
    <3>1. session' = [session EXCEPT ![x] = new]
      BY <1>2, <2>1
    <3>2. /\ new \in Session /\ new.consentOk = c /\ new.pwOk = session[x].pwOk
          /\ new.cand = session[x].cand /\ new.pending = session[x].pending
      BY <1>1, <2>1 DEF Typed, Sessions, Session, Somebody
    <3>. HIDE DEF new
    <3>3. Sessions' /\ session'[x] = new /\ \A b \in Browsers : b # x => session'[b] = session[b]
      BY <1>1, <2>1, <3>1, <3>2 DEF Typed, Sessions
    <3>. QED
      BY <3>2, <3>3
  <2>2. CASE x \notin Browsers
    BY <1>1, <1>2, <2>2 DEF Typed, Sessions
  <2>. QED
    BY <2>1, <2>2
<1>7. Typed'
  <2>1. Accounts'
    BY <1>1, <1>2, <1>3 DEF Typed, Accounts
  <2>. QED
    BY <1>1, <1>2, <1>4, <1>6, <2>1 DEF Typed, CodeRows, AppsHold, Past
<1>8. ConsentKept
  BY <1>1, <1>2, <1>3, <1>5, <1>6 DEF ConsentKept, HasCurrentConsent
<1>9. SeenKept
  BY <1>2, <1>3, <1>5, <1>6 DEF SeenKept, Default
<1>10. NobodyKept
  <2>1. NoOne \notin Cands
    BY PortalAssumption
  <2>2. \A d \in Cands : Known(d)' => Known(d)
    BY <1>2, <1>4, <1>6, <2>1 DEF Known
  <2>. QED
    BY <1>3, <1>5, <2>2 DEF NobodyKept
<1>11. UsesKept
  <2>1. Idle \notin history.used
    BY <1>4, UsedAre
  <2>. QED
    BY <1>2, <1>3, <1>4, <1>5, <2>1 DEF UsesKept, Spent
<1>. QED
  BY <1>7, <1>8, <1>9, <1>10, <1>11, Keeps

------------------------------------------------------------------------------
(* What serves once is used                                                 *)

\* A code logs somebody in
LEMMA CodeServes ==
  ASSUME IInv, NEW x \in Clients, Working(x, "verify"), Done(x),
         history' = Used(history, x), SpendCode(work[x].item), UNCHANGED account,
         Sessions', AppsHold',
         \A b \in Browsers : /\ session'[b].consentOk = session[b].consentOk
                             /\ session'[b].pwOk = session[b].pwOk
                             /\ session'[b].cand \in {session[b].cand, work[x].cand}
                             /\ session'[b].pending \in {session[b].pending, NoOne},
         \A a \in Apps : /\ app'[a].cand \in {app[a].cand, work[x].cand}
                         /\ app'[a].pending \in {app[a].pending, NoOne}
  PROVE  IInv'
<1>. DEFINE i == work[x].item
<1>1. /\ Typed /\ ConsentRemembered /\ PasswordSeen /\ (\A c \in Cands : Nobody(c))
  BY InvIs
<1>2. /\ work[x] \in Job /\ work[x].kind = "verify" /\ work[x].cand \in Cands
      /\ Known(work[x].cand) /\ i \in DOMAIN codes
  BY WorkingIs DEF Working
<1>3. codes' = [codes EXCEPT ![i].state = "used"]
  BY DEF SpendCode
<1>. HIDE DEF i
<1>4. /\ CodeRows' /\ DOMAIN codes' = DOMAIN codes /\ codes'[i].state = "used"
      /\ \A j \in DOMAIN codes : codes'[j].cand = codes[j].cand
      /\ \A j : Spent(j) => Spent(j)'
  BY <1>1, <1>2, <1>3, CodeWritten DEF Typed
<1>5. /\ Works' /\ work'[x] = Idle /\ Idle.cand = NoOne
      /\ \A y \in Clients : y # x => work'[y] = work[y]
  BY <1>1, <1>4, DoneIs DEF Typed
<1>6. PICK job : job = work[x]
  OBVIOUS
<1>7. Gone(job)'
  BY <1>2, <1>4, <1>6 DEF Gone, Spent, i
<1>8. PICK h : h = Used(history, x)
  OBVIOUS
<1>9. /\ history' = h /\ h \in History /\ h.withdrew = history.withdrew
      /\ h.defaulted = history.defaulted
  BY <1>1, <1>2, <1>8, UsedIs DEF Typed
<1>10. Uses' /\ UsedOnce'
  BY <1>1, <1>2, <1>4, <1>5, <1>6, <1>7, <1>8, <1>9, UseStays DEF Typed
<1>11. Typed'
  BY <1>1, <1>4, <1>5, <1>9 DEF Typed, Accounts, Past
<1>12. ConsentRemembered' /\ PasswordSeen'
  <2>1. ConsentKept /\ SeenKept
    BY <1>9 DEF ConsentKept, HasCurrentConsent, SeenKept, Default
  <2>. QED
    BY <1>1, <2>1, ConsentStays, SeenStays
<1>13. \A c \in Cands : Nobody(c)'
  <2>1. NoOne \notin Cands
    BY PortalAssumption
  <2>2. \A c \in Cands : Known(c)' => Known(c)
    BY <1>2, <1>4, <1>5, <2>1 DEF Known
  <2>3. NobodyKept
    BY <2>2 DEF NobodyKept
  <2>. QED
    BY <1>1, <2>3, NobodyStays
<1>. QED
  BY <1>10, <1>11, <1>12, <1>13, InvIs

LEMMA Verifies ==
  ASSUME IInv, \/ \E b \in Browsers, remember \in BOOLEAN : Verified(b, remember)
               \/ \E a \in Apps : ApiVerified(a)
  PROVE  IInv'
<1>1. Typed /\ NoOne \in Somebody
  BY InvIs DEF Somebody
<1>2. ASSUME NEW b \in Browsers, NEW remember \in BOOLEAN, Verified(b, remember) PROVE IInv'
  <2>. DEFINE c == work[b].cand
              device == IF remember THEN c ELSE session[b].device
              new == [[[session[b] EXCEPT !.cand = c] EXCEPT !.pending = NoOne] EXCEPT !.device = device]
  <2>1. /\ b \in Clients /\ Working(b, "verify") /\ Done(b) /\ history' = Used(history, b)
        /\ SpendCode(work[b].item) /\ UNCHANGED <<account, app>>
    BY <1>2 DEF Verified, Clients
  <2>2. session[b] \in Session /\ c \in Somebody /\ device \in Somebody
    <3>1. c \in Cands
      BY <2>1, WorkingIs
    <3>. QED
      BY <1>1, <3>1 DEF Typed, Sessions, Session, Somebody
  <2>3. session' = [session EXCEPT ![b] = new]
    BY <1>1, <1>2, <2>2 DEF Verified, Typed, Sessions, Session
  <2>. HIDE DEF device
  <2>4. /\ new \in Session /\ new.cand = c /\ new.pending = NoOne
        /\ new.consentOk = session[b].consentOk /\ new.pwOk = session[b].pwOk
    BY <1>1, <2>2 DEF Session
  <2>. HIDE DEF new
  <2>5. Sessions' /\ session'[b] = new /\ \A o \in Browsers : o # b => session'[o] = session[o]
    BY <1>1, <2>3, <2>4 DEF Typed, Sessions
  <2>6. AppsHold'
    BY <1>1, <2>1 DEF Typed, AppsHold
  <2>. QED
    BY <2>1, <2>4, <2>5, <2>6, CodeServes
<1>3. ASSUME NEW a \in Apps, ApiVerified(a) PROVE IInv'
  <2>. DEFINE c == work[a].cand
              new == [pending |-> NoOne, cand |-> c]
  <2>1. /\ a \in Clients /\ Working(a, "verify") /\ Done(a) /\ history' = Used(history, a)
        /\ SpendCode(work[a].item) /\ UNCHANGED <<account, session>>
        /\ app' = [app EXCEPT ![a] = new]
    BY <1>3 DEF ApiVerified, Clients
  <2>2. c \in Somebody
    BY <2>1, WorkingIs DEF Somebody
  <2>3. new \in [pending : Somebody, cand : Somebody] /\ new.cand = c /\ new.pending = NoOne
    BY <1>1, <2>2
  <2>. HIDE DEF new
  <2>4. AppsHold' /\ app'[a] = new /\ \A o \in Apps : o # a => app'[o] = app[o]
    BY <1>1, <2>1, <2>3 DEF Typed, AppsHold
  <2>5. Sessions'
    BY <1>1, <2>1 DEF Typed, Sessions
  <2>. QED
    BY <2>1, <2>3, <2>4, <2>5, CodeServes
<1>. QED
  BY <1>2, <1>3

\* A link sets a password
LEMMA LinkServes ==
  ASSUME IInv, NEW b \in Browsers, NEW password \in Passwords, SetPassword(b, password)
  PROVE  IInv'
<1>. DEFINE c == work[b].cand
            row == [[account[c] EXCEPT !.password = password] EXCEPT !.link = FALSE]
<1>1. /\ Typed /\ ConsentRemembered /\ PasswordSeen /\ (\A d \in Cands : Nobody(d)) /\ b \in Clients
  BY InvIs DEF Clients
<1>2. /\ work[b] \in Job /\ work[b].kind = "link" /\ c \in Cands /\ account[c] \in Account
      /\ password # NoPassword
  BY <1>1, WorkingIs, PortalAssumption DEF Working, SetPassword, Typed, Accounts
<1>3. /\ account' = [account EXCEPT ![c] = row] /\ Done(b) /\ UNCHANGED <<codes, session, app>>
      /\ history' = Defaulted(Used(history, b), c, account[c].mobile, password)
  BY <1>2 DEF SetPassword, Row, Account
<1>4. /\ row \in Account /\ row.consents = account[c].consents /\ row.password = password
      /\ row.mobile = account[c].mobile /\ row.link = FALSE
  BY <1>2 DEF Account
<1>. HIDE DEF row
<1>5. account'[c] = row /\ \A d \in Cands : d # c => account'[d] = account[d]
  BY <1>1, <1>2, <1>3 DEF Typed, Accounts
<1>6. /\ Works' /\ work'[b] = Idle /\ Idle.cand = NoOne
      /\ \A y \in Clients : y # b => work'[y] = work[y]
  BY <1>1, <1>3, DoneIs DEF Typed
<1>7. PICK job : job = work[b]
  OBVIOUS
<1>8. Gone(job)'
  BY <1>2, <1>4, <1>5, <1>7 DEF Gone
<1>9. PICK g : g = Used(history, b)
  OBVIOUS
<1>10. /\ g \in History /\ g.withdrew = history.withdrew /\ g.defaulted = history.defaulted
  BY <1>1, <1>2, <1>9, UsedIs DEF Typed
<1>11. PICK h : h = Defaulted(g, c, account[c].mobile, password)
  OBVIOUS
<1>12. /\ h \in History /\ h.withdrew = history.withdrew /\ h.used = g.used
       /\ h.again = g.again /\ h.raced = g.raced /\ history.defaulted \subseteq h.defaulted
       /\ account[c].mobile = password => Excused(c, h)
  BY <1>2, <1>10, <1>11, DefaultedIs
<1>13. history' = h
  BY <1>3, <1>9, <1>11
<1>. HIDE DEF c
<1>14. \A d \in Cands : account'[d].link => account[d].link
  BY <1>4, <1>5
<1>15. Uses' /\ UsedOnce'
  <2>1. \A i : Spent(i) => Spent(i)'
    BY <1>3 DEF Spent
  <2>. QED
    BY <1>1, <1>2, <1>6, <1>7, <1>8, <1>9, <1>12, <1>13, <1>14, <2>1, UseStays DEF Typed
<1>16. Typed'
  <2>1. Accounts'
    BY <1>1, <1>2, <1>3, <1>4 DEF Typed, Accounts
  <2>. QED
    BY <1>1, <1>3, <1>6, <1>12, <1>13, <2>1 DEF Typed, CodeRows, Sessions, AppsHold, Past
<1>17. ConsentRemembered' /\ PasswordSeen'
  <2>1. ConsentKept
    BY <1>3, <1>4, <1>5, <1>12, <1>13 DEF ConsentKept, HasCurrentConsent
  <2>2. SeenKept
    BY <1>3, <1>4, <1>5, <1>12, <1>13 DEF SeenKept, Default, Excused
  <2>. QED
    BY <1>1, <2>1, <2>2, ConsentStays, SeenStays
<1>18. \A d \in Cands : Nobody(d)'
  <2>1. NoOne \notin Cands
    BY PortalAssumption
  <2>2. \A d \in Cands : Known(d)' => Known(d)
    BY <1>3, <1>6, <2>1 DEF Known
  <2>3. NobodyKept
    BY <1>2, <1>4, <1>5, <1>14, <2>2 DEF NobodyKept
  <2>. QED
    BY <1>1, <2>3, NobodyStays
<1>. QED
  BY <1>15, <1>16, <1>17, <1>18, InvIs

------------------------------------------------------------------------------
(* The specification                                                        *)

LEMMA Begins ==
  ASSUME Init
  PROVE  IInv
<1>1. Mobiles \subseteq Passwords /\ NoOne \in Somebody
  BY PortalAssumption DEF Somebody
<1>2. /\ account \in [Cands -> Account]
      /\ \A c \in Cands : account[c].password = NoPassword => ~account[c].link
  <2>1. /\ account \in [Cands -> [mobile : Mobiles, password : Mobiles \cup {NoPassword},
                                  standing : {"active"}, link : BOOLEAN,
                                  email : BOOLEAN, consents : {0}]]
        /\ \A c \in Cands : account[c].password = account[c].mobile
                          \/ (account[c].password = NoPassword /\ ~account[c].link)
    BY Zenon DEF Init
  <2>2. ASSUME NEW c \in Cands
        PROVE  /\ account[c] \in Account
               /\ account[c].password = NoPassword => ~account[c].link
    <3>1. account[c] \in [mobile : Mobiles, password : Mobiles \cup {NoPassword},
                          standing : {"active"}, link : BOOLEAN,
                          email : BOOLEAN, consents : {0}]
      BY <2>1
    <3>2. account[c] \in Account
      BY <1>1, <3>1 DEF Account
    <3>3. account[c].mobile # NoPassword
      BY <1>1, <3>1, PortalAssumption
    <3>. QED
      BY <2>1, <3>2, <3>3
  <2>. QED
    BY <2>1, <2>2
<1>3. /\ session = [b \in Browsers |-> [cand |-> NoOne, pending |-> NoOne, consentOk |-> NoOne,
                                        pwOk |-> NoOne, device |-> NoOne]]
      /\ app = [a \in Apps |-> [pending |-> NoOne, cand |-> NoOne]]
      /\ codes = <<>> /\ work = [x \in Clients |-> Idle]
      /\ history = [withdrew |-> {}, defaulted |-> {}, used |-> {}, again |-> {}, raced |-> {}]
  BY DEF Init
<1>4. /\ \A x \in Clients : work[x] = Idle
      /\ Idle \in Work /\ Idle.kind = "idle" /\ Idle.cand = NoOne
  BY <1>1, <1>3 DEF Idle, Work
<1>5. Works
  <2>1. work \in [Clients -> Work]
    BY <1>3, <1>4
  <2>. QED
    BY <1>4, <2>1 DEF Works
<1>6. Sessions /\ \A b \in Browsers : /\ session[b].cand = NoOne /\ session[b].pending = NoOne
                                      /\ session[b].pwOk = NoOne /\ session[b].consentOk = NoOne
  BY <1>1, <1>3 DEF Sessions, Session
<1>7. AppsHold /\ \A a \in Apps : app[a].cand = NoOne /\ app[a].pending = NoOne
  BY <1>1, <1>3 DEF AppsHold
<1>8. CodeRows /\ DOMAIN codes = {}
  BY <1>3 DEF CodeRows
<1>9. Past /\ history.used = {} /\ history.again = {}
  BY <1>3 DEF Past, History
<1>10. Typed
  BY <1>2, <1>5, <1>6, <1>7, <1>8, <1>9 DEF Typed, Accounts
<1>11. ConsentRemembered /\ PasswordSeen
  BY <1>6, PortalAssumption DEF ConsentRemembered, PasswordSeen
<1>12. \A c \in Cands : Nobody(c)
  <2>1. \A c \in Cands : ~Known(c)
    BY <1>4, <1>6, <1>7, <1>8, PortalAssumption DEF Known
  <2>. QED
    BY <1>2, <2>1 DEF Nobody
<1>13. Uses /\ UsedOnce
  BY <1>9 DEF Uses, UsedOnce
<1>. QED
  BY <1>10, <1>11, <1>12, <1>13, InvIs

LEMMA Stutters ==
  ASSUME IInv, UNCHANGED vars
  PROVE  IInv'
<1>1. Typed
  BY InvIs
<1>2. UNCHANGED <<account, codes, session, app, work, history>>
  BY DEF vars
<1>3. Typed'
  <2>1. Works'
    BY <1>1, <1>2, Zenon DEF Typed, Works
  <2>. QED
    BY <1>1, <1>2, <2>1 DEF Typed, Accounts, CodeRows, Sessions, AppsHold, Past
<1>4. ConsentKept /\ SeenKept /\ NobodyKept /\ UsesKept
  BY <1>2 DEF ConsentKept, HasCurrentConsent, SeenKept, Default, NobodyKept, Known, UsesKept, Spent
<1>. QED
  BY <1>3, <1>4, Keeps

LEMMA Step ==
  ASSUME IInv, Next
  PROVE  IInv'
<1>1. ASSUME NEW b \in Browsers, BrowserStep(b) PROVE IInv'
  <2>1. b \in Clients
    BY DEF Clients
  <2>2. CASE \/ Visit(b) \/ ConsentKnown(b) \/ Logout(b) \/ DeviceExpires(b)
             \/ \E c \in Cands : LoginDirectly(b, c)
    BY <2>2, Browses, PortalAssumption
  <2>3. CASE Withdraw(b)
    BY <2>3, Withdraws, PortalAssumption
  <2>4. CASE \E remember \in BOOLEAN : Verified(b, remember)
    BY <2>4, Verifies
  <2>5. CASE \E c \in Cands : OpenLink(b, c)
    BY <2>1, <2>5, Begun
  <2>6. CASE \E p \in Passwords : ForcePassword(b, p)
    BY <2>6, ForcesPassword, PortalAssumption
  <2>7. CASE (\E p \in Passwords : ChangePassword(b, p)) \/ (\E m \in Mobiles : UpdateDetails(b, m))
    BY <2>7, ChangesRow, PortalAssumption
  <2>8. CASE \E p \in Passwords : SetPassword(b, p)
    BY <2>8, LinkServes
  <2>. QED
    BY <1>1, <2>2, <2>3, <2>4, <2>5, <2>6, <2>7, <2>8, Zenon DEF BrowserStep
<1>2. ASSUME NEW a \in Apps, AppStep(a) PROVE IInv'
  <2>1. CASE ApiVerified(a)
    BY <2>1, Verifies
  <2>2. CASE PendingExpires(a) \/ \E c \in Cands : ApiLoginDirectly(a, c)
    BY <2>2, ActsInApp, PortalAssumption
  <2>3. CASE \E p \in Passwords : ApiChangePassword(a, p)
    BY <2>3, ChangesRow, PortalAssumption
  <2>. QED
    BY <1>2, <2>1, <2>2, <2>3, Zenon DEF AppStep
<1>3. ASSUME NEW x \in Clients, ClientStep(x) PROVE IInv'
  <2>1. CASE AddCode(x)
    BY <2>1, AddsCode
  <2>2. CASE CodeMailed(x) \/ CodeNotMailed(x)
    BY <2>2, MailsCode
  <2>3. CASE Consented(x)
    BY <2>3, GivesConsent
  <2>4. CASE \/ Consent(x)
             \/ \E c \in Cands : LoginSends(x, c)
             \/ \E i \in DOMAIN codes : Verify(x, i)
    BY <2>4, Begun
  <2>5. CASE \E c \in Cands : LoginWaits(x, c)
    <3>1. CASE x \in Browsers
      BY <2>5, <3>1, Browses, PortalAssumption
    <3>2. CASE x \notin Browsers
      BY <2>5, <3>2, ActsInApp, PortalAssumption DEF Clients
    <3>. QED
      BY <3>1, <3>2
  <2>. QED
    BY <1>3, <2>1, <2>2, <2>3, <2>4, <2>5, Zenon DEF ClientStep
<1>4. ASSUME NEW i \in DOMAIN codes, AgeCode(i) PROVE IInv'
  BY <1>4, CodeAges
<1>5. ASSUME StaffStep PROVE IInv'
  <2>1. CASE BulkSetPasswords
    BY <2>1, SetsPasswords, PortalAssumption
  <2>2. CASE \/ \E c \in Cands : LinkExpires(c) \/ ResetPassword(c)
             \/ \E c \in Cands, standing \in {"active", "blocked", "deleted"} : SetStanding(c, standing)
             \/ \E c \in Cands, m \in Mobiles :
                  \E email \in FormAddresses \cup {account[c].email} : EditAccount(c, m, email)
    BY <2>2, ChangesRow, PortalAssumption
  <2>. QED
    BY <1>5, <2>1, <2>2, Zenon DEF StaffStep
<1>. QED
  BY <1>1, <1>2, <1>3, <1>4, <1>5, Zenon DEF Next

LEMMA Always == Spec => []IInv
<1>1. IInv /\ [Next]_vars => IInv'
  BY Step, Stutters
<1>. QED
  BY Begins, <1>1, PTL DEF Spec

\* What the tables, the cookies and the tokens hold has its shape, and a request that
\* has read a row of the codes still finds it when it writes.
THEOREM PortalTyped == Spec => []TypeOK
<1>1. IInv => TypeOK
  BY DEF IInv
<1>. QED
  BY Always, <1>1, PTL

\* The privacy gate lets nobody through without a current consent, but for the
\* other browsers of a candidate who withdrew (candidate_login_required).
THEOREM ConsentIsAsked == Spec => []ConsentGate
<1>1. IInv => ConsentGate
  BY DEF IInv, ConsentRemembered, ConsentGate, Admitted
<1>. QED
  BY Always, <1>1, PTL

\* The password gate lets no browser through while the password is the number, but
\* for those that were through when it became the number (candidate_login_required,
\* candidate_force_password, organization_candidate_edit).
THEOREM DefaultIsReplaced == Spec => []DefaultPasswordReplaced
<1>1. IInv => DefaultPasswordReplaced
  BY DEF IInv, PasswordSeen, DefaultPasswordReplaced, Admitted
<1>. QED
  BY Always, <1>1, PTL

\* A code and a link serve once, unless two requests with it overlapped
\* (candidate_verify_login_otp, candidate_verify_otp, candidate_set_password).
THEOREM ServesOnce == Spec => []UsedOnce
<1>1. IInv => UsedOnce
  BY DEF IInv
<1>. QED
  BY Always, <1>1, PTL
==============================================================================
