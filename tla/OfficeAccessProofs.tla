------------------------- MODULE OfficeAccessProofs --------------------------
(***************************************************************************)
(* Proofs about who gets in and what a cache says: the staff's login, the  *)
(* tokens of the API, rate limits, permissions and the cache of reports.   *)
(* Laid out like OfficeRecordsProofs.                                      *)
(***************************************************************************)
EXTENDS Office, FiniteSetTheorems, TLAPS

------------------------------------------------------------------------------
(* StaffAccess: v1 is now, v2 is is_active, v3 is deactivated_by, v4 is     *)
(* barred, v5 is codes, v6 is sessions, v7 is browser, v8 is crowded.       *)

------------------------------------------------------------------------------
(* Types                                                                    *)

StaffFields ==
  /\ v1 \in Nat /\ v2 \in BOOLEAN /\ v8 \in BOOLEAN
  /\ v5 \in Seq(SA!Code) /\ v6 \in Seq(SA!UserSession)
  /\ v7 \in [Requests -> SA!Browser]

StaffMarks ==
  /\ v4 \in {"no", "deleted", "kept out"}
  /\ v3 \in {"none", "organization", "super_admin"}

\* A browser's code and session are there
StaffPointed ==
  \A b \in Requests : v7[b].code <= Len(v5) /\ v7[b].session <= Len(v6)

\* The instance has its own name for what FiniteSets defines
LEMMA StaffSizes ==
  /\ \A S : SA!Cardinality(S) = Cardinality(S)
  /\ \A S : SA!IsFiniteSet(S) <=> IsFiniteSet(S)
<1>1. ASSUME NEW S PROVE SA!Cardinality(S) = Cardinality(S)
  BY Zenon DEF SA!Cardinality, Cardinality
<1>2. ASSUME NEW S PROVE SA!IsFiniteSet(S) <=> IsFiniteSet(S)
  BY Zenon DEF SA!IsFiniteSet, IsFiniteSet
<1>. QED
  BY <1>1, <1>2

LEMMA StaffTypesAre ==
  (SA!TypeOK <=> StaffFields /\ StaffMarks /\ StaffPointed) /\ (SA!TypeOK' <=> StaffFields' /\ StaffMarks' /\ StaffPointed')
BY Zenon DEF SA!TypeOK, StaffFields, StaffMarks, StaffPointed

LEMMA StaffAsked ==
  ASSUME StaffFields, NEW b \in Requests, NEW for \in {"login", "reset"}, SA!Ask(b, for)
  PROVE  StaffFields'
<1>1. /\ [SA!Out EXCEPT !.at = "sending", !.for = for] \in SA!Browser
      /\ [SA!Out EXCEPT !.at = "pending", !.for = for] \in SA!Browser
  BY DEF SA!Out, SA!Browser
<1>2. v7' \in [Requests -> SA!Browser]
  BY <1>1 DEF SA!Ask, StaffFields
<1>3. v8' \in BOOLEAN /\ UNCHANGED <<v1, SA!account, v5, v6>>
  BY DEF SA!Ask, SA!account, StaffFields
<1>. QED
  BY <1>2, <1>3 DEF StaffFields, SA!account

LEMMA StaffRowUsed ==
  ASSUME NEW c \in SA!Code
  PROVE  LET u == [c EXCEPT !.is_used = TRUE] IN u \in SA!Code /\ u.sent = c.sent /\ u.is_used
BY DEF SA!Code

LEMMA StaffRowEnded ==
  ASSUME NEW s \in SA!UserSession
  PROVE  LET e == [s EXCEPT !.is_active = FALSE] IN e \in SA!UserSession /\ ~e.is_active
BY DEF SA!UserSession

\* A code that is marked used
LEMMA StaffCodeUsed ==
  ASSUME v5 \in Seq(SA!Code), NEW k, v5' = [v5 EXCEPT ![k].is_used = TRUE]
  PROVE  /\ v5' \in Seq(SA!Code) /\ Len(v5') = Len(v5)
         /\ \A i \in DOMAIN v5 :
              v5'[i].sent = v5[i].sent /\ (v5[i].is_used => v5'[i].is_used)
<1>1. DOMAIN v5 = 1 .. Len(v5) /\ \A i \in 1 .. Len(v5) : v5[i] \in SA!Code
  OBVIOUS
<1>. DEFINE u == [v5[k] EXCEPT !.is_used = TRUE]
<1>2. v5' = [v5 EXCEPT ![k] = u]
  OBVIOUS
<1>3. k \in 1 .. Len(v5) => u \in SA!Code /\ u.sent = v5[k].sent /\ u.is_used
  BY <1>1, StaffRowUsed
<1>. HIDE DEF u
<1>4. DOMAIN v5' = 1 .. Len(v5) /\ \A i \in 1 .. Len(v5) : v5'[i] = IF i = k THEN u ELSE v5[i]
  BY <1>1, <1>2
<1>5. v5' \in [1 .. Len(v5) -> SA!Code]
  BY <1>1, <1>2, <1>3
<1>6. v5' \in Seq(SA!Code) /\ Len(v5') = Len(v5)
  <2>1. Len(v5) \in Nat
    OBVIOUS
  <2>. QED
    BY <1>5, <2>1
<1>. QED
  BY <1>1, <1>3, <1>4, <1>6

\* A session that is ended
LEMMA StaffSessionEnded ==
  ASSUME v6 \in Seq(SA!UserSession), NEW s, v6' = [v6 EXCEPT ![s].is_active = FALSE]
  PROVE  /\ v6' \in Seq(SA!UserSession) /\ Len(v6') = Len(v6)
         /\ \A i \in DOMAIN v6 : v6'[i].is_active => v6'[i] = v6[i]
<1>1. DOMAIN v6 = 1 .. Len(v6) /\ \A i \in 1 .. Len(v6) : v6[i] \in SA!UserSession
  OBVIOUS
<1>. DEFINE e == [v6[s] EXCEPT !.is_active = FALSE]
<1>2. v6' = [v6 EXCEPT ![s] = e]
  OBVIOUS
<1>3. s \in 1 .. Len(v6) => e \in SA!UserSession /\ ~e.is_active
  BY <1>1, StaffRowEnded
<1>. HIDE DEF e
<1>4. DOMAIN v6' = 1 .. Len(v6) /\ \A i \in 1 .. Len(v6) : v6'[i] = IF i = s THEN e ELSE v6[i]
  BY <1>1, <1>2
<1>5. v6' \in [1 .. Len(v6) -> SA!UserSession]
  BY <1>1, <1>2, <1>3
<1>6. v6' \in Seq(SA!UserSession) /\ Len(v6') = Len(v6)
  <2>1. Len(v6) \in Nat
    OBVIOUS
  <2>. QED
    BY <1>5, <2>1
<1>. QED
  BY <1>1, <1>3, <1>4, <1>6

LEMMA StaffAllEnded ==
  ASSUME v6 \in Seq(SA!UserSession)
  PROVE  /\ SA!Ended \in Seq(SA!UserSession) /\ DOMAIN SA!Ended = DOMAIN v6
         /\ \A s \in DOMAIN SA!Ended : ~SA!Ended[s].is_active
<1>1. DOMAIN v6 = 1 .. Len(v6) /\ \A i \in 1 .. Len(v6) : v6[i] \in SA!UserSession
  OBVIOUS
<1>2. \A s \in 1 .. Len(v6) : SA!Ended[s] \in SA!UserSession /\ ~SA!Ended[s].is_active
  BY <1>1, StaffRowEnded DEF SA!Ended
<1>3. DOMAIN SA!Ended = 1 .. Len(v6) /\ SA!Ended = [s \in 1 .. Len(v6) |-> SA!Ended[s]]
  BY <1>1 DEF SA!Ended
<1>. HIDE DEF SA!Ended
<1>4. SA!Ended \in [1 .. Len(v6) -> SA!UserSession]
  BY <1>2, <1>3
<1>. QED
  BY <1>1, <1>2, <1>3, <1>4

\* A browser's own part of a step
LEMMA StaffCookieIs ==
  ASSUME NEW c \in SA!Browser,
         NEW at \in {"out", "sending", "mailing", "pending", "use", "checked", "in"}
  PROVE  [c EXCEPT !.at = at] \in SA!Browser /\ [c EXCEPT !.at = at].at = at
BY DEF SA!Browser

LEMMA StaffOutIs == SA!Out \in SA!Browser /\ SA!Out.at = "out"
BY DEF SA!Out, SA!Browser

------------------------------------------------------------------------------
(* What a step does to the codes and to who sends one                       *)

\* No code is added, and some may be used
StaffEvolved ==
  /\ Len(v5') = Len(v5) /\ v1 <= v1'
  /\ \A k \in DOMAIN v5 :
       v5'[k].sent = v5[k].sent /\ (v5[k].is_used => v5'[k].is_used)

StaffNobodySends ==
  /\ v8' = v8
  /\ \A c \in Requests : v7'[c].at = "sending" => v7[c].at = "sending"

LEMMA StaffEvolvedKeeps ==
  ASSUME SA!StaffAccessAssumption, SA!IInv, StaffEvolved, StaffFields'
  PROVE  /\ \A k \in DOMAIN v5' : v5'[k].sent <= v1'
         /\ SA!Spaced => SA!Spaced'
         /\ SA!CooldownOver => SA!CooldownOver'
<1>1. DOMAIN v5 = 1 .. Len(v5) /\ DOMAIN v5' = 1 .. Len(v5)
  BY StaffTypesAre DEF SA!IInv, StaffFields, StaffEvolved
<1>2. \A k \in 1 .. Len(v5) : v5[k].sent \in Nat /\ v5'[k].sent = v5[k].sent
  <2>1. \A k \in 1 .. Len(v5) : v5[k] \in SA!Code
    BY StaffTypesAre DEF SA!IInv, StaffFields
  <2>. QED
    BY <1>1, <2>1 DEF SA!Code, StaffEvolved
<1>3. v1 \in Nat /\ v1' \in Nat /\ v1 <= v1'
  BY StaffTypesAre DEF SA!IInv, StaffFields, StaffEvolved
<1>4. \A k \in DOMAIN v5' : v5'[k].sent <= v1'
  BY <1>1, <1>2, <1>3 DEF SA!IInv
<1>5. \A k : k \in SA!Unused' => k \in SA!Unused /\ k \in 1 .. Len(v5)
  BY <1>1 DEF SA!Unused, StaffEvolved
<1>6. SA!Spaced => SA!Spaced'
  BY <1>2, <1>5 DEF SA!Spaced
<1>7. SA!CooldownOver => SA!CooldownOver'
  <2>1. OTP_RESEND_COOLDOWN_SECONDS \in Nat
    BY DEF SA!StaffAccessAssumption
  <2>. QED
    BY <1>2, <1>3, <1>5, <2>1 DEF SA!CooldownOver
<1>. QED
  BY <1>4, <1>6, <1>7

\* A step that asks for no code and saves none changes little
LEMMA StaffOtherSteps ==
  ASSUME StaffFields, [SA!Next]_SA!vars
  PROVE  \/ StaffFields' /\ StaffEvolved /\ StaffNobodySends
         \/ StaffFields' /\ \E b \in Requests, for \in {"login", "reset"} : SA!Ask(b, for)
         \/ \E b \in Requests : SA!SaveCode(b)
<1>. DEFINE Small == StaffFields' /\ StaffEvolved /\ StaffNobodySends
<1>0. Len(v5) \in Nat /\ Len(v6) \in Nat /\ v1 \in Nat
  BY DEF StaffFields
<1>1. ASSUME UNCHANGED <<v5, v1>> PROVE StaffEvolved
  BY <1>0, <1>1 DEF StaffEvolved
<1>2. ASSUME UNCHANGED <<v7, v8>> PROVE StaffNobodySends
  BY <1>2 DEF StaffNobodySends
<1>3. ASSUME NEW b \in Requests, NEW c \in SA!Browser, c.at # "sending", v8' = v8,
             v7' = [v7 EXCEPT ![b] = c]
      PROVE  StaffNobodySends /\ v7' \in [Requests -> SA!Browser]
  BY <1>3 DEF StaffNobodySends, StaffFields
<1>4. \A b \in Requests : v7[b] \in SA!Browser
  BY DEF StaffFields
<1>5. ASSUME UNCHANGED <<v1, SA!account, v5, v6>>, StaffNobodySends, v7' \in [Requests -> SA!Browser]
      PROVE  Small
  BY <1>1, <1>5 DEF StaffFields, StaffNobodySends, SA!account
<1>6. ASSUME NEW b \in Requests, SA!login(b), ~SA!Ask(b, "login") PROVE Small
  <2>1. /\ v7' = [v7 EXCEPT ![b] = [v7[b] EXCEPT !.at = "checked"]] /\ v8' = v8
        /\ UNCHANGED <<v1, SA!account, v5, v6>>
    BY <1>6 DEF SA!login, SA!account
  <2>2. [v7[b] EXCEPT !.at = "checked"] \in SA!Browser /\ [v7[b] EXCEPT !.at = "checked"].at = "checked"
    BY <1>4, StaffCookieIs
  <2>. QED
    BY <1>3, <1>5, <2>1, <2>2
<1>7. ASSUME NEW b \in Requests, SA!Mailed(b) PROVE Small
  <2>1. CASE v7' = [v7 EXCEPT ![b].at = "pending", ![b].code = 0] /\ UNCHANGED v5
    <3>1. /\ v7' = [v7 EXCEPT ![b] = [v7[b] EXCEPT !.at = "pending", !.code = 0]]
          /\ v8' = v8 /\ UNCHANGED <<v1, SA!account, v5, v6>>
      BY <1>7, <2>1 DEF SA!Mailed, SA!account, StaffFields
    <3>2. /\ [v7[b] EXCEPT !.at = "pending", !.code = 0] \in SA!Browser
          /\ [v7[b] EXCEPT !.at = "pending", !.code = 0].at = "pending"
      <4>. DEFINE c == v7[b]
      <4>1. c \in SA!Browser
        BY <1>4
      <4>. HIDE DEF c
      <4>2. [c EXCEPT !.at = "pending", !.code = 0] \in SA!Browser /\ [c EXCEPT !.at = "pending", !.code = 0].at = "pending"
        BY <4>1 DEF SA!Browser
      <4>. QED
        BY <4>2 DEF c
    <3>. QED
      BY <1>3, <1>5, <3>1, <3>2
  <2>2. CASE v5' = [v5 EXCEPT ![v7[b].code].is_used = TRUE] /\ v7' = [v7 EXCEPT ![b] = SA!Out]
    <3>1. v8' = v8 /\ UNCHANGED <<v1, SA!account, v6>>
      BY <1>7 DEF SA!Mailed, SA!account
    <3>2. StaffNobodySends /\ v7' \in [Requests -> SA!Browser]
      BY <1>3, <2>2, <3>1, StaffOutIs
    <3>3. v5' \in Seq(SA!Code) /\ StaffEvolved
      <4>1. v1' = v1 /\ v5 \in Seq(SA!Code)
        BY <2>2, <3>1 DEF StaffFields
      <4>2. /\ v5' \in Seq(SA!Code) /\ Len(v5') = Len(v5)
            /\ \A i \in DOMAIN v5 :
                 v5'[i].sent = v5[i].sent /\ (v5[i].is_used => v5'[i].is_used)
        BY <2>2, <4>1, StaffCodeUsed, Zenon
      <4>. QED
        BY <1>0, <4>1, <4>2 DEF StaffEvolved
    <3>. QED
      BY <3>1, <3>2, <3>3 DEF StaffFields, SA!account
  <2>. QED
    BY <1>7, <2>1, <2>2 DEF SA!Mailed
<1>8. ASSUME NEW b \in Requests, SA!Killed(b) \/ SA!reset_password(b) \/ SA!Page(b) PROVE Small
  <2>1. v7' = [v7 EXCEPT ![b] = SA!Out] /\ v8' = v8 /\ UNCHANGED <<v1, SA!account, v5, v6>>
    BY <1>8 DEF SA!Killed, SA!reset_password, SA!Page, SA!account
  <2>. QED
    BY <1>3, <1>5, <2>1, StaffOutIs
<1>9. ASSUME NEW b \in Requests, NEW k \in DOMAIN v5, SA!EnterCode(b, k) PROVE Small
  <2>. DEFINE u == [v7[b] EXCEPT !.at = "use", !.code = k]
              c == IF v7[b].for = "login" /\ ~SA!Allowed THEN SA!Out ELSE u
  <2>1. v7' = [v7 EXCEPT ![b] = c] /\ v8' = v8 /\ UNCHANGED <<v1, SA!account, v5, v6>>
    BY <1>9 DEF SA!EnterCode, SA!account
  <2>2. k \in Nat
    BY DEF StaffFields
  <2>3. u \in SA!Browser /\ u.at = "use"
    <3>. DEFINE d == v7[b]
    <3>1. d \in SA!Browser
      BY <1>4
    <3>. HIDE DEF d
    <3>2. [d EXCEPT !.at = "use", !.code = k] \in SA!Browser /\ [d EXCEPT !.at = "use", !.code = k].at = "use"
      BY <2>2, <3>1 DEF SA!Browser
    <3>. QED
      BY <3>2 DEF d
  <2>. HIDE DEF u
  <2>4. c \in SA!Browser /\ c.at # "sending"
    BY <2>3, StaffOutIs
  <2>. HIDE DEF c
  <2>. QED
    BY <1>3, <1>5, <2>1, <2>4
<1>10. ASSUME NEW b \in Requests, SA!UseCode(b) PROVE Small
  <2>1. /\ v7' = [v7 EXCEPT ![b] = [v7[b] EXCEPT !.at = "checked"]] /\ v8' = v8
        /\ v5' = [v5 EXCEPT ![v7[b].code].is_used = TRUE]
        /\ UNCHANGED <<v1, SA!account, v6>>
    BY <1>10 DEF SA!UseCode, SA!account
  <2>2. [v7[b] EXCEPT !.at = "checked"] \in SA!Browser /\ [v7[b] EXCEPT !.at = "checked"].at = "checked"
    BY <1>4, StaffCookieIs
  <2>3. StaffNobodySends /\ v7' \in [Requests -> SA!Browser]
    BY <1>3, <2>1, <2>2
  <2>4. v5' \in Seq(SA!Code) /\ StaffEvolved
    <3>1. v1' = v1 /\ v5 \in Seq(SA!Code)
      BY <2>1 DEF StaffFields
    <3>2. /\ v5' \in Seq(SA!Code) /\ Len(v5') = Len(v5)
          /\ \A i \in DOMAIN v5 :
               v5'[i].sent = v5[i].sent /\ (v5[i].is_used => v5'[i].is_used)
      BY <2>1, <3>1, StaffCodeUsed, Zenon
    <3>. QED
      BY <1>0, <3>1, <3>2 DEF StaffEvolved
  <2>. QED
    BY <2>1, <2>3, <2>4 DEF StaffFields, SA!account
<1>11. ASSUME NEW b \in Requests, SA!_finish_staff_login(b) PROVE Small
  <2>. DEFINE c == [SA!Out EXCEPT !.at = "in", !.session = Len(v6) + 1]
              s == [is_active |-> TRUE, late |-> ~v2]
  <2>1. /\ v7' = [v7 EXCEPT ![b] = c] /\ v8' = v8
        /\ v6' = Append(v6, s) /\ UNCHANGED <<v1, SA!account, v5>>
    BY <1>11 DEF SA!_finish_staff_login, SA!account
  <2>2. c \in SA!Browser /\ c.at # "sending"
    <3>. DEFINE n == Len(v6) + 1
    <3>1. n \in Nat
      BY <1>0
    <3>. HIDE DEF n
    <3>2. [SA!Out EXCEPT !.at = "in", !.session = n] \in SA!Browser /\ [SA!Out EXCEPT !.at = "in", !.session = n].at = "in"
      BY <3>1, StaffOutIs DEF SA!Browser
    <3>. QED
      BY <3>2 DEF n
  <2>3. s \in SA!UserSession
    BY DEF SA!UserSession
  <2>. HIDE DEF c, s
  <2>4. StaffNobodySends /\ v7' \in [Requests -> SA!Browser]
    BY <1>3, <2>1, <2>2
  <2>5. v6' \in Seq(SA!UserSession)
    BY <2>1, <2>3 DEF StaffFields
  <2>. QED
    BY <1>1, <2>1, <2>4, <2>5 DEF StaffFields, StaffNobodySends, SA!account
<1>12. ASSUME NEW b \in Requests, SA!logout(b) PROVE Small
  <2>1. /\ v7' = [v7 EXCEPT ![b] = SA!Out] /\ v8' = v8
        /\ v6' = [v6 EXCEPT ![v7[b].session].is_active = FALSE]
        /\ UNCHANGED <<v1, SA!account, v5>>
    BY <1>12 DEF SA!logout, SA!account
  <2>2. v6' \in Seq(SA!UserSession)
    BY <2>1, StaffSessionEnded DEF StaffFields
  <2>3. StaffNobodySends /\ v7' \in [Requests -> SA!Browser]
    BY <1>3, <2>1, StaffOutIs
  <2>. QED
    BY <1>1, <2>1, <2>2, <2>3 DEF StaffFields, StaffNobodySends, SA!account
<1>13. ASSUME UNCHANGED <<v1, v5, v7, v8>>, v2' \in BOOLEAN, v6' \in Seq(SA!UserSession)
       PROVE  Small
  BY <1>1, <1>2, <1>13 DEF StaffFields
<1>14. CASE SA!OrganizationToggle
  <2>1. UNCHANGED <<v1, v5, v7, v8>> /\ v2' = ~v2
    BY <1>14 DEF SA!OrganizationToggle
  <2>2. v6' = SA!Ended \/ v6' = v6
    BY <1>14 DEF SA!OrganizationToggle, SA!SessionsEnded
  <2>3. v6' \in Seq(SA!UserSession)
    BY <2>2, StaffAllEnded DEF StaffFields
  <2>. QED
    BY <1>13, <2>1, <2>3 DEF StaffFields
<1>15. CASE SA!SuperAdminToggle
  BY <1>13, <1>15 DEF SA!SuperAdminToggle, StaffFields
<1>16. CASE SA!super_admin_delete_user \/ SA!super_admin_user_restore \/ SA!super_admin_edit_user
  BY <1>13, <1>16 DEF SA!super_admin_delete_user, SA!super_admin_user_restore,
     SA!super_admin_edit_user, SA!Bar, StaffFields
<1>17. ASSUME NEW s, SA!super_admin_revoke_session(s) PROVE Small
  BY <1>13, <1>17, StaffSessionEnded DEF SA!super_admin_revoke_session, SA!account, StaffFields
<1>18. CASE SA!Tick
  <2>1. UNCHANGED <<SA!account, v5, v6, v7, v8>> /\ v1' = v1 + 1
    BY <1>18 DEF SA!Tick, SA!account
  <2>2. StaffEvolved
    BY <1>0, <2>1 DEF StaffEvolved
  <2>. QED
    BY <1>0, <1>2, <2>1, <2>2 DEF StaffFields, SA!account
<1>19. CASE UNCHANGED SA!vars
  BY <1>13, <1>19 DEF SA!vars, StaffFields
<1>20. ASSUME NEW b \in Requests, SA!login(b) \/ SA!forgot_password(b)
       PROVE  Small \/ (StaffFields' /\ \E for \in {"login", "reset"} : SA!Ask(b, for))
  BY <1>6, <1>20, StaffAsked DEF SA!forgot_password
<1>. QED
  BY <1>7, <1>8, <1>9, <1>10, <1>11, <1>12, <1>14, <1>15, <1>16, <1>17, <1>18, <1>19,
     <1>20 DEF SA!Next

LEMMA StaffStillMarked ==
  ASSUME StaffMarks, [SA!Next]_SA!vars
  PROVE  StaffMarks'
<1>1. CASE UNCHANGED SA!account
  BY <1>1 DEF StaffMarks, SA!account
<1>2. CASE SA!OrganizationToggle \/ SA!SuperAdminToggle
  BY <1>2 DEF StaffMarks, SA!OrganizationToggle, SA!SuperAdminToggle
<1>3. CASE SA!super_admin_delete_user \/ SA!super_admin_user_restore \/ SA!super_admin_edit_user
  BY <1>3 DEF StaffMarks, SA!super_admin_delete_user, SA!super_admin_user_restore,
     SA!super_admin_edit_user, SA!Bar
<1>4. CASE \E b \in Requests :
             \/ SA!login(b) \/ SA!forgot_password(b) \/ SA!SaveCode(b) \/ SA!Mailed(b) \/ SA!Killed(b)
             \/ SA!UseCode(b) \/ SA!_finish_staff_login(b) \/ SA!reset_password(b) \/ SA!Page(b) \/ SA!logout(b)
  BY <1>1, <1>4 DEF SA!login, SA!Ask, SA!forgot_password, SA!SaveCode, SA!Mailed, SA!Killed,
     SA!UseCode,
       SA!_finish_staff_login, SA!reset_password, SA!Page, SA!logout
<1>5. CASE \/ \E b \in Requests : \E k \in DOMAIN v5 : SA!EnterCode(b, k)
           \/ \E s \in DOMAIN v6 : SA!super_admin_revoke_session(s)
           \/ SA!Tick \/ UNCHANGED SA!vars
  BY <1>1, <1>5 DEF SA!EnterCode, SA!super_admin_revoke_session, SA!Tick, SA!vars, SA!account
<1>. QED
  BY <1>2, <1>3, <1>4, <1>5 DEF SA!Next

\* A browser's code and session stay there
LEMMA StaffStillPointed ==
  ASSUME StaffFields, StaffPointed, [SA!Next]_SA!vars
  PROVE  StaffPointed'
<1>0. Len(v5) \in Nat /\ Len(v6) \in Nat
  BY DEF StaffFields
<1>1. ASSUME Len(v5') \in Nat, Len(v6') \in Nat, Len(v5) <= Len(v5'), Len(v6) <= Len(v6'),
             NEW b \in Requests,
             \A c \in Requests : c # b => v7'[c] = v7[c],
             v7'[b].code <= Len(v5'), v7'[b].session <= Len(v6')
      PROVE  StaffPointed'
  <2>1. \A c \in Requests : v7[c].code \in Nat /\ v7[c].session \in Nat
    BY DEF StaffFields, SA!Browser
  <2>. QED
    BY <1>0, <1>1, <2>1 DEF StaffPointed
<1>2. ASSUME UNCHANGED v7, Len(v5') = Len(v5), Len(v6') = Len(v6)
      PROVE  StaffPointed'
  BY <1>2 DEF StaffPointed
<1>3. ASSUME NEW b \in Requests, NEW c, v7' = [v7 EXCEPT ![b] = c],
             Len(v5') = Len(v5), Len(v6') = Len(v6),
             c.code <= Len(v5), c.session <= Len(v6)
      PROVE  StaffPointed'
  <2>1. v7'[b] = c /\ \A a \in Requests : a # b => v7'[a] = v7[a]
    BY <1>3 DEF StaffFields
  <2>. HIDE DEF StaffPointed
  <2>. QED
    BY <1>0, <1>1, <1>3, <2>1
<1>4. \A b \in Requests : v7[b] \in SA!Browser /\ v7[b].code <= Len(v5) /\ v7[b].session <= Len(v6)
  BY DEF StaffFields, StaffPointed
<1>5. /\ SA!Out.code = 0 /\ SA!Out.session = 0 /\ 0 <= Len(v5) /\ 0 <= Len(v6)
      /\ \A at, for : /\ [SA!Out EXCEPT !.at = at, !.for = for].code = 0
                      /\ [SA!Out EXCEPT !.at = at, !.for = for].session = 0
  BY <1>0 DEF SA!Out
<1>6. ASSUME NEW b \in Requests, NEW at
      PROVE  /\ [v7[b] EXCEPT !.at = at].code <= Len(v5)
             /\ [v7[b] EXCEPT !.at = at].session <= Len(v6)
  <2>. DEFINE c == v7[b]
  <2>1. c \in SA!Browser /\ c.code <= Len(v5) /\ c.session <= Len(v6)
    BY <1>4
  <2>. HIDE DEF c
  <2>2. [c EXCEPT !.at = at].code <= Len(v5) /\ [c EXCEPT !.at = at].session <= Len(v6)
    BY <2>1 DEF SA!Browser
  <2>. QED
    BY <2>2 DEF c
<1>7. ASSUME NEW b \in Requests, NEW for \in {"login", "reset"}, SA!Ask(b, for) PROVE StaffPointed'
  <2>1. PICK at \in {"sending", "pending"} : v7' = [v7 EXCEPT ![b] = [SA!Out EXCEPT !.at = at, !.for = for]]
    BY <1>7 DEF SA!Ask
  <2>2. UNCHANGED <<v5, v6>>
    BY <1>7 DEF SA!Ask
  <2>. DEFINE c == [SA!Out EXCEPT !.at = at, !.for = for]
  <2>3. c.code <= Len(v5) /\ c.session <= Len(v6)
    BY <1>5
  <2>. HIDE DEF c
  <2>. QED
    BY <1>3, <2>1, <2>2, <2>3 DEF c
<1>8. ASSUME NEW b \in Requests, SA!login(b), ~SA!Ask(b, "login") PROVE StaffPointed'
  <2>1. /\ v7' = [v7 EXCEPT ![b] = [v7[b] EXCEPT !.at = "checked"]] /\ UNCHANGED <<v5, v6>>
    BY <1>8 DEF SA!login
  <2>. QED
    BY <1>3, <1>6, <2>1
<1>9. ASSUME NEW b \in Requests, SA!login(b) \/ SA!forgot_password(b) PROVE StaffPointed'
  BY <1>7, <1>8, <1>9 DEF SA!forgot_password
<1>10. ASSUME NEW b \in Requests, SA!SaveCode(b) PROVE StaffPointed'
  <2>. DEFINE c == [v7[b] EXCEPT !.at = "mailing", !.code = Len(v5) + 1]
  <2>1. /\ v5' = Append(v5, [sent |-> v1, is_used |-> FALSE]) /\ UNCHANGED v6
        /\ v7' = [v7 EXCEPT ![b] = c]
    BY <1>10 DEF SA!SaveCode, StaffFields
  <2>2. Len(v5') = Len(v5) + 1
    BY <2>1 DEF StaffFields
  <2>3. c.code = Len(v5) + 1 /\ c.session <= Len(v6)
    <3>. DEFINE a == v7[b]
                n == Len(v5) + 1
    <3>1. a \in SA!Browser /\ a.session <= Len(v6)
      BY <1>4
    <3>. HIDE DEF a, n
    <3>2. [a EXCEPT !.at = "mailing", !.code = n].code = n /\ [a EXCEPT !.at = "mailing", !.code = n].session = a.session
      BY <3>1 DEF SA!Browser
    <3>. QED
      BY <3>1, <3>2 DEF a, n
  <2>. HIDE DEF c
  <2>4. v7'[b] = c /\ \A a \in Requests : a # b => v7'[a] = v7[a]
    BY <2>1 DEF StaffFields
  <2>. QED
    BY <1>0, <1>1, <2>1, <2>2, <2>3, <2>4
<1>11. ASSUME NEW k, v5' = [v5 EXCEPT ![k].is_used = TRUE] PROVE Len(v5') = Len(v5)
  BY <1>11, StaffCodeUsed DEF StaffFields
<1>12. ASSUME NEW s, v6' = [v6 EXCEPT ![s].is_active = FALSE] PROVE Len(v6') = Len(v6)
  BY <1>12, StaffSessionEnded DEF StaffFields
<1>13. ASSUME NEW b \in Requests, SA!Mailed(b) PROVE StaffPointed'
  <2>0. UNCHANGED v6
    BY <1>13 DEF SA!Mailed
  <2>1. CASE v7' = [v7 EXCEPT ![b].at = "pending", ![b].code = 0] /\ UNCHANGED v5
    <3>. DEFINE c == [v7[b] EXCEPT !.at = "pending", !.code = 0]
    <3>1. v7' = [v7 EXCEPT ![b] = c]
      BY <2>1 DEF StaffFields
    <3>2. c.code = 0 /\ c.session <= Len(v6)
      <4>. DEFINE a == v7[b]
      <4>1. a \in SA!Browser /\ a.session <= Len(v6)
        BY <1>4
      <4>. HIDE DEF a
      <4>2. [a EXCEPT !.at = "pending", !.code = 0].code = 0 /\ [a EXCEPT !.at = "pending", !.code = 0].session = a.session
        BY <4>1 DEF SA!Browser
      <4>. QED
        BY <4>1, <4>2 DEF a
    <3>. HIDE DEF c
    <3>3. c.code <= Len(v5)
      BY <1>0, <3>2
    <3>4. v5' = v5
      BY <2>1
    <3>. QED
      BY <1>3, <2>0, <3>1, <3>2, <3>3, <3>4
  <2>2. CASE v5' = [v5 EXCEPT ![v7[b].code].is_used = TRUE] /\ v7' = [v7 EXCEPT ![b] = SA!Out]
    <3>1. Len(v5') = Len(v5)
      BY <1>11, <2>2
    <3>2. v7' = [v7 EXCEPT ![b] = SA!Out] /\ v6' = v6
      BY <2>0, <2>2
    <3>. QED
      BY <1>3, <1>5, <3>1, <3>2
  <2>. QED
    BY <1>13, <2>1, <2>2 DEF SA!Mailed
<1>14. ASSUME NEW b \in Requests, SA!Killed(b) \/ SA!reset_password(b) \/ SA!Page(b) PROVE StaffPointed'
  BY <1>3, <1>5, <1>14 DEF SA!Killed, SA!reset_password, SA!Page
<1>15. ASSUME NEW b \in Requests, NEW k \in DOMAIN v5, SA!EnterCode(b, k) PROVE StaffPointed'
  <2>. DEFINE c == [v7[b] EXCEPT !.at = "use", !.code = k]
              d == IF v7[b].for = "login" /\ ~SA!Allowed THEN SA!Out ELSE c
  <2>1. UNCHANGED <<v5, v6>> /\ v7' = [v7 EXCEPT ![b] = d]
    BY <1>15 DEF SA!EnterCode
  <2>2. c.code <= Len(v5) /\ c.session <= Len(v6)
    <3>. DEFINE a == v7[b]
    <3>1. a \in SA!Browser /\ a.session <= Len(v6)
      BY <1>4
    <3>2. k <= Len(v5)
      BY DEF StaffFields
    <3>. HIDE DEF a
    <3>3. [a EXCEPT !.at = "use", !.code = k].code = k /\ [a EXCEPT !.at = "use", !.code = k].session = a.session
      BY <3>1 DEF SA!Browser
    <3>. QED
      BY <3>1, <3>2, <3>3 DEF a
  <2>. HIDE DEF c
  <2>3. d.code <= Len(v5) /\ d.session <= Len(v6)
    BY <1>5, <2>2
  <2>. HIDE DEF d
  <2>. QED
    BY <1>3, <2>1, <2>3
<1>16. ASSUME NEW b \in Requests, SA!UseCode(b) PROVE StaffPointed'
  <2>1. /\ v7' = [v7 EXCEPT ![b] = [v7[b] EXCEPT !.at = "checked"]]
        /\ v5' = [v5 EXCEPT ![v7[b].code].is_used = TRUE] /\ UNCHANGED v6
    BY <1>16 DEF SA!UseCode
  <2>. QED
    BY <1>3, <1>6, <1>11, <2>1
<1>17. ASSUME NEW b \in Requests, SA!_finish_staff_login(b) PROVE StaffPointed'
  <2>. DEFINE c == [SA!Out EXCEPT !.at = "in", !.session = Len(v6) + 1]
  <2>1. /\ v7' = [v7 EXCEPT ![b] = c] /\ UNCHANGED v5
        /\ v6' = Append(v6, [is_active |-> TRUE, late |-> ~v2])
    BY <1>17 DEF SA!_finish_staff_login
  <2>2. Len(v6') = Len(v6) + 1
    BY <2>1 DEF StaffFields
  <2>3. c.code = 0 /\ c.session = Len(v6) + 1
    BY DEF SA!Out
  <2>. HIDE DEF c
  <2>4. v7'[b] = c /\ \A a \in Requests : a # b => v7'[a] = v7[a]
    BY <2>1 DEF StaffFields
  <2>. QED
    BY <1>0, <1>1, <2>1, <2>2, <2>3, <2>4
<1>18. ASSUME NEW b \in Requests, SA!logout(b) PROVE StaffPointed'
  BY <1>3, <1>5, <1>12, <1>18 DEF SA!logout
<1>19. CASE SA!OrganizationToggle
  <2>1. UNCHANGED <<v5, v7>> /\ (v6' = SA!Ended \/ v6' = v6)
    BY <1>19 DEF SA!OrganizationToggle, SA!SessionsEnded
  <2>2. Len(v6') = Len(v6)
    BY <1>0, <2>1, StaffAllEnded DEF StaffFields
  <2>. QED
    BY <1>2, <2>1, <2>2
<1>20. CASE \/ SA!SuperAdminToggle \/ SA!super_admin_delete_user \/ SA!super_admin_user_restore
            \/ SA!super_admin_edit_user \/ SA!Tick \/ UNCHANGED SA!vars
  BY <1>2, <1>20 DEF SA!SuperAdminToggle, SA!super_admin_delete_user, SA!super_admin_user_restore,
       SA!super_admin_edit_user, SA!Bar, SA!Tick, SA!vars
<1>21. ASSUME NEW s, SA!super_admin_revoke_session(s) PROVE StaffPointed'
  BY <1>2, <1>12, <1>21 DEF SA!super_admin_revoke_session
<1>. QED
  BY <1>9, <1>10, <1>13, <1>14, <1>15, <1>16, <1>17, <1>18, <1>19, <1>20, <1>21 DEF SA!Next

LEMMA StaffStillLoggedOut ==
  ASSUME StaffFields, SA!LoggedOutAtOnce, [SA!Next]_SA!vars
  PROVE  SA!LoggedOutAtOnce'
<1>1. ASSUME UNCHANGED <<SA!account, v6>> PROVE SA!LoggedOutAtOnce'
  BY <1>1 DEF SA!LoggedOutAtOnce, SA!account
<1>2. ASSUME NEW b \in Requests,
             \/ SA!login(b) \/ SA!forgot_password(b) \/ SA!SaveCode(b) \/ SA!Mailed(b) \/ SA!Killed(b)
             \/ SA!UseCode(b) \/ SA!reset_password(b) \/ SA!Page(b)
             \/ \E k \in DOMAIN v5 : SA!EnterCode(b, k)
      PROVE  SA!LoggedOutAtOnce'
  BY <1>1, <1>2 DEF SA!login, SA!forgot_password, SA!Ask, SA!SaveCode, SA!Mailed, SA!Killed,
     SA!UseCode, SA!reset_password,
       SA!Page, SA!EnterCode
\* The new session is marked: its login was past the checks
<1>3. ASSUME NEW b \in Requests, SA!_finish_staff_login(b) PROVE SA!LoggedOutAtOnce'
  <2>. DEFINE s == [is_active |-> TRUE, late |-> ~v2]
  <2>1. v6' = Append(v6, s) /\ UNCHANGED <<v2, v3>>
    BY <1>3 DEF SA!_finish_staff_login, SA!account
  <2>2. s.late = ~v2
    OBVIOUS
  <2>. HIDE DEF s
  <2>3. /\ DOMAIN v6' = 1 .. Len(v6) + 1 /\ DOMAIN v6 = 1 .. Len(v6)
        /\ v6'[Len(v6) + 1] = s
        /\ \A i \in 1 .. Len(v6) : v6'[i] = v6[i] /\ Len(v6) \in Nat
    BY <2>1, StaffTypesAre DEF StaffFields
  <2>4. \A i \in DOMAIN v6' : i \in DOMAIN v6 \/ v6'[i] = s
    BY <2>3, StaffTypesAre DEF StaffFields
  <2>. QED
    BY <2>1, <2>2, <2>3, <2>4 DEF SA!LoggedOutAtOnce
<1>4. ASSUME UNCHANGED <<v2, v3>>, NEW s,
             v6' = [v6 EXCEPT ![s].is_active = FALSE]
      PROVE  SA!LoggedOutAtOnce'
  <2>1. /\ DOMAIN v6' = DOMAIN v6
        /\ \A i \in DOMAIN v6 : v6'[i].is_active => v6'[i] = v6[i]
    <3>1. v6 \in Seq(SA!UserSession)
      BY StaffTypesAre DEF StaffFields
    <3>2. /\ v6' \in Seq(SA!UserSession) /\ Len(v6') = Len(v6)
          /\ \A i \in DOMAIN v6 : v6'[i].is_active => v6'[i] = v6[i]
      BY <1>4, <3>1, StaffSessionEnded, Zenon
    <3>. QED
      BY <3>1, <3>2
  <2>. QED
    BY <1>4, <2>1 DEF SA!LoggedOutAtOnce
<1>5. ASSUME NEW b \in Requests, SA!logout(b) PROVE SA!LoggedOutAtOnce'
  BY <1>4, <1>5 DEF SA!logout, SA!account
<1>6. ASSUME NEW s, SA!super_admin_revoke_session(s) PROVE SA!LoggedOutAtOnce'
  BY <1>4, <1>6 DEF SA!super_admin_revoke_session, SA!account
\* Everything is ended in the commit that deactivates
<1>7. CASE SA!OrganizationToggle
  <2>1. CASE v2
    <3>1. v6' = SA!Ended
      BY <1>7, <2>1 DEF SA!OrganizationToggle, SA!SessionsEnded
    <3>2. \A s \in DOMAIN SA!Ended : ~SA!Ended[s].is_active
      BY StaffAllEnded, StaffTypesAre DEF StaffFields
    <3>. QED
      BY <3>1, <3>2 DEF SA!LoggedOutAtOnce
  <2>2. CASE ~v2
    BY <1>7, <2>2 DEF SA!OrganizationToggle, SA!LoggedOutAtOnce
  <2>. QED
    BY <2>1, <2>2
<1>8. CASE SA!SuperAdminToggle
  <2>1. v3' # "organization"
    BY <1>8 DEF SA!SuperAdminToggle
  <2>. QED
    BY <2>1 DEF SA!LoggedOutAtOnce
<1>9. CASE SA!super_admin_delete_user \/ SA!super_admin_user_restore \/ SA!super_admin_edit_user
  BY <1>9 DEF SA!super_admin_delete_user, SA!super_admin_user_restore, SA!super_admin_edit_user,
     SA!Bar, SA!LoggedOutAtOnce
<1>10. CASE SA!Tick \/ UNCHANGED SA!vars
  BY <1>1, <1>10 DEF SA!Tick, SA!vars, SA!account
<1>. QED
  BY <1>2, <1>3, <1>5, <1>6, <1>7, <1>8, <1>9, <1>10 DEF SA!Next

\* The code that is saved is the last
LEMMA StaffSaved ==
  ASSUME SA!StaffAccessAssumption, SA!IInv, StaffMarks', StaffPointed', SA!LoggedOutAtOnce', NEW b \in Requests, SA!SaveCode(b)
  PROVE  SA!IInv'
<1>. DEFINE code == [sent |-> v1, is_used |-> FALSE]
            c    == [v7[b] EXCEPT !.at = "mailing", !.code = Len(v5) + 1]
<1>1. /\ v5' = Append(v5, code) /\ UNCHANGED <<v1, SA!account, v6, v8>>
      /\ v7[b].at = "sending"
  BY DEF SA!SaveCode
<1>2. code \in SA!Code /\ code.sent = v1 /\ v1 \in Nat /\ Len(v5) \in Nat
  BY StaffTypesAre DEF SA!Code, SA!IInv, StaffFields
<1>3. c \in SA!Browser /\ c.at = "mailing"
  <2>. DEFINE n == Len(v5) + 1
              d == v7[b]
  <2>1. n \in Nat /\ d \in SA!Browser
    BY <1>2, StaffTypesAre DEF SA!IInv, StaffFields
  <2>. HIDE DEF n, d
  <2>2. [d EXCEPT !.at = "mailing", !.code = n] \in SA!Browser /\ [d EXCEPT !.at = "mailing", !.code = n].at = "mailing"
    BY <2>1 DEF SA!Browser
  <2>. QED
    BY <2>2 DEF n, d
<1>4. v7' = [v7 EXCEPT ![b] = c]
  BY StaffTypesAre DEF SA!SaveCode, SA!IInv, StaffFields
<1>. HIDE DEF code, c
<1>5. /\ v5' \in Seq(SA!Code) /\ Len(v5') = Len(v5) + 1
      /\ DOMAIN v5 = 1 .. Len(v5) /\ DOMAIN v5' = 1 .. Len(v5) + 1
      /\ v5'[Len(v5) + 1] = code /\ \A k \in 1 .. Len(v5) : v5'[k] = v5[k]
  BY <1>1, <1>2, StaffTypesAre DEF SA!IInv, StaffFields
<1>6. v7' \in [Requests -> SA!Browser] /\ v7'[b].at = "mailing"
      /\ \A d \in Requests : d # b => v7'[d] = v7[d]
  BY <1>3, <1>4, StaffTypesAre DEF SA!IInv, StaffFields
<1>7. SA!TypeOK'
  BY <1>1, <1>5, <1>6, StaffTypesAre DEF SA!IInv, StaffFields, StaffPointed, SA!account
<1>8. \A k \in DOMAIN v5' : v5'[k].sent <= v1'
  BY <1>1, <1>2, <1>5 DEF SA!IInv
<1>9. ASSUME ~v8 PROVE SA!Spaced' /\ SA!SenderAlone'
  <2>1. SA!Spaced /\ SA!CooldownOver /\ \A d \in Requests : v7[d].at = "sending" => d = b
    BY <1>1, <1>9 DEF SA!IInv, SA!SenderAlone
  <2>2. \A k \in SA!Unused' : k \in SA!Unused \/ k = Len(v5) + 1
    BY <1>2, <1>5 DEF SA!Unused
  <2>3. \A k \in SA!Unused : k \in 1 .. Len(v5) /\ v5[k].sent + OTP_RESEND_COOLDOWN_SECONDS <= v1
    BY <1>5, <2>1 DEF SA!Unused, SA!CooldownOver
  <2>4. SA!Spaced'
    <3>1. SUFFICES ASSUME NEW i \in SA!Unused', NEW j \in SA!Unused', i < j
                   PROVE  v5'[i].sent + OTP_RESEND_COOLDOWN_SECONDS <= v5'[j].sent
      BY DEF SA!Spaced
    <3>2. i \in SA!Unused
      BY <1>2, <1>5, <2>2, <2>3, <3>1 DEF SA!Unused
    <3>3. CASE j \in SA!Unused
      BY <1>5, <2>1, <2>3, <3>1, <3>2, <3>3 DEF SA!Spaced
    <3>4. CASE j = Len(v5) + 1
      BY <1>2, <1>5, <2>3, <3>2, <3>4
    <3>. QED
      BY <2>2, <3>3, <3>4
  <2>5. SA!SenderAlone'
    BY <1>6, <2>1 DEF SA!SenderAlone
  <2>. QED
    BY <2>4, <2>5
<1>. QED
  BY <1>1, <1>7, <1>8, <1>9 DEF SA!IInv

\* Who asks for a code while another is sending one makes the exception
LEMMA StaffAskedAlone ==
  ASSUME SA!IInv, SA!TypeOK', SA!LoggedOutAtOnce', NEW b \in Requests, NEW for \in {"login", "reset"}, SA!Ask(b, for)
  PROVE  SA!IInv'
<1>1. UNCHANGED <<v1, v5>> /\ SA!Unused' = SA!Unused /\ (SA!Spaced => SA!Spaced') /\ SA!CooldownOver' = SA!CooldownOver
  BY DEF SA!Ask, SA!Unused, SA!Spaced, SA!CooldownOver
<1>2. \A c \in Requests : c # b => v7'[c] = v7[c]
  BY StaffTypesAre DEF SA!Ask, SA!IInv, StaffFields
<1>3. ASSUME ~v8' PROVE SA!SenderAlone' /\ ~v8
  <2>1. ~v8 /\ (SA!CooldownOver => \A c \in Requests \ {b} : v7[c].at # "sending")
    BY <1>3 DEF SA!Ask
  <2>2. ~SA!CooldownOver => \A c \in Requests : v7[c].at # "sending"
    BY <2>1 DEF SA!IInv, SA!SenderAlone
  <2>3. ~SA!CooldownOver => v7'[b].at = "pending"
    <3>1. [SA!Out EXCEPT !.at = "pending", !.for = for].at = "pending"
      BY DEF SA!Out
    <3>. QED
      BY <3>1, StaffTypesAre DEF SA!Ask, SA!IInv, StaffFields
  <2>4. \A c \in Requests : v7'[c].at = "sending" => c = b /\ SA!CooldownOver
    BY <1>2, <2>1, <2>2, <2>3
  <2>. QED
    BY <1>1, <2>1, <2>4 DEF SA!SenderAlone
<1>. QED
  BY <1>1, <1>3 DEF SA!IInv

LEMMA StaffStep ==
  ASSUME SA!StaffAccessAssumption, SA!IInv, [SA!Next]_SA!vars
  PROVE  SA!IInv'
<1>0. StaffFields /\ StaffMarks' /\ StaffPointed' /\ SA!LoggedOutAtOnce'
  BY StaffStillMarked, StaffStillPointed, StaffStillLoggedOut, StaffTypesAre DEF SA!IInv
<1>1. CASE StaffFields' /\ StaffEvolved /\ StaffNobodySends
  <2>1. /\ \A k \in DOMAIN v5' : v5'[k].sent <= v1'
        /\ SA!Spaced => SA!Spaced'
        /\ SA!CooldownOver => SA!CooldownOver'
    BY <1>1, StaffEvolvedKeeps
  <2>2. SA!SenderAlone => SA!SenderAlone'
    BY <1>1, <2>1 DEF SA!SenderAlone, StaffNobodySends
  <2>3. SA!TypeOK'
    BY <1>0, <1>1, StaffTypesAre
  <2>. QED
    BY <1>0, <1>1, <2>1, <2>2, <2>3 DEF SA!IInv, StaffNobodySends
<1>2. CASE StaffFields' /\ \E b \in Requests, for \in {"login", "reset"} : SA!Ask(b, for)
  <2>1. SA!TypeOK'
    BY <1>0, <1>2, StaffTypesAre
  <2>. QED
    BY <1>0, <1>2, <2>1, StaffAskedAlone
<1>3. CASE \E b \in Requests : SA!SaveCode(b)
  BY <1>0, <1>3, StaffSaved
<1>. QED
  BY <1>0, <1>1, <1>2, <1>3, StaffOtherSteps

LEMMA StaffStart ==
  ASSUME SA!Init
  PROVE  SA!IInv
<1>1. v5 = <<>> /\ v6 = <<>> /\ v1 = 0 /\ v7 = [b \in Requests |-> SA!Out]
  BY DEF SA!Init
<1>2. v5 \in Seq(SA!Code) /\ v6 \in Seq(SA!UserSession) /\ v1 \in Nat
  BY <1>1
<1>3. v7 \in [Requests -> SA!Browser] /\ \A b \in Requests : v7[b].at # "sending"
  BY <1>1, StaffOutIs
<1>4. /\ v2 \in BOOLEAN /\ v8 \in BOOLEAN /\ v4 \in {"no", "deleted", "kept out"}
      /\ v3 \in {"none", "organization", "super_admin"}
  BY DEF SA!Init
<1>5. DOMAIN v5 = {}
  BY <1>1
<1>6. Len(v5) = 0 /\ Len(v6) = 0 /\ \A b \in Requests : v7[b].code = 0 /\ v7[b].session = 0
  BY <1>1 DEF SA!Out
<1>7. StaffFields /\ StaffMarks /\ StaffPointed
  <2>1. StaffFields
    BY <1>2, <1>3, <1>4 DEF StaffFields
  <2>2. StaffMarks
    BY <1>4 DEF StaffMarks
  <2>3. StaffPointed
    BY <1>6 DEF StaffPointed
  <2>. QED
    BY <2>1, <2>2, <2>3
<1>. QED
  BY <1>1, <1>3, <1>5, <1>7, StaffTypesAre DEF SA!IInv, SA!Spaced, SA!SenderAlone, SA!Unused,
     SA!LoggedOutAtOnce

------------------------------------------------------------------------------
(* How many codes are accepted                                              *)

\* Dividing into pieces of length d
LEMMA StaffPieces ==
  ASSUME NEW a \in Nat, NEW d \in Nat \ {0}
  PROVE  /\ a \div d \in Nat
         /\ d * (a \div d) <= a /\ a < d * (a \div d) + d
OBVIOUS

LEMMA StaffPiecesGrow ==
  ASSUME NEW a \in Nat, NEW b \in Nat, NEW d \in Nat \ {0}, a <= b
  PROVE  a \div d <= b \div d
OBVIOUS

LEMMA StaffPiecesApart ==
  ASSUME NEW a \in Nat, NEW b \in Nat, NEW d \in Nat \ {0}, a + d <= b
  PROVE  a \div d # b \div d
OBVIOUS

LEMMA StaffEnough ==
  ASSUME SA!StaffAccessAssumption, SA!IInv
  PROVE  SA!TypeOK /\ SA!FewCodes /\ SA!LoggedOutAtOnce
<1>. DEFINE C      == OTP_RESEND_COOLDOWN_SECONDS
            valid  == {k \in SA!Unused : SA!is_valid(k)}
            age(k) == v1 - v5[k].sent
            n      == OtpValidity \div C
            f      == [k \in valid |-> age(k) \div C]
<1>1. SUFFICES ASSUME ~v8 PROVE Cardinality(valid) <= n + 1
  BY StaffSizes DEF SA!FewCodes, SA!IInv
<1>2. C \in Nat \ {0} /\ OtpValidity \in Nat /\ v1 \in Nat
  BY StaffTypesAre DEF SA!StaffAccessAssumption, SA!IInv, StaffFields
<1>3. n \in Nat
  BY <1>2, StaffPieces
<1>4. \A k \in valid : k \in Nat /\ v5[k].sent \in Nat /\ age(k) \in Nat /\ age(k) <= OtpValidity
  <2>1. SUFFICES ASSUME NEW k \in valid
                 PROVE  k \in Nat /\ v5[k].sent \in Nat /\ age(k) \in Nat /\ age(k) <= OtpValidity
    OBVIOUS
  <2>2. k \in DOMAIN v5 /\ k \in Nat /\ v5[k] \in SA!Code
    BY StaffTypesAre DEF SA!Unused, SA!IInv, StaffFields
  <2>3. v5[k].sent \in Nat /\ v5[k].sent <= v1
    BY <2>2 DEF SA!Code, SA!IInv
  <2>4. v1 <= v5[k].sent + OtpValidity
    BY DEF SA!is_valid
  <2>. QED
    BY <1>2, <2>2, <2>3, <2>4
<1>5. \A k \in valid : f[k] \in 0 .. n
  <2>1. SUFFICES ASSUME NEW k \in valid PROVE age(k) \div C \in 0 .. n
    OBVIOUS
  <2>2. age(k) \div C \in Nat /\ age(k) \div C <= n
    BY <1>2, <1>4, StaffPieces, StaffPiecesGrow
  <2>. QED
    BY <1>3, <2>2
<1>6. ASSUME NEW i \in valid, NEW j \in valid, i < j PROVE f[i] # f[j]
  <2>1. v5[i].sent + C <= v5[j].sent
    BY <1>1, <1>6 DEF SA!IInv, SA!Spaced
  <2>2. age(j) + C <= age(i)
    BY <1>2, <1>4, <2>1
  <2>. HIDE DEF age
  <2>3. age(j) \div C # age(i) \div C
    BY <1>2, <1>4, <2>2, StaffPiecesApart
  <2>. QED
    BY <2>3
<1>7. f \in Injection(valid, 0 .. n)
  <2>1. f \in [valid -> 0 .. n]
    BY <1>5
  <2>2. \A i, j \in valid : f[i] = f[j] => i = j
    BY <1>4, <1>6
  <2>. HIDE DEF f, valid, n
  <2>. QED
    BY <2>1, <2>2 DEF Injection, IsInjective
<1>. HIDE DEF f, valid, n
<1>8. IsFiniteSet(0 .. n) /\ Cardinality(0 .. n) = n + 1
  BY <1>3, FS_Interval
<1>. QED
  BY <1>7, <1>8, FS_Injection

LEMMA StaffMoves ==
  ASSUME [Next]_vars, part' = "StaffAccess"
  PROVE  part = "StaffAccess" /\ [SA!Next]_SA!vars
BY DEF Next, vars, SA!vars

LEMMA StaffAlways == Spec => [](part = "StaffAccess" => SA!IInv)
<1>1. Init => (part = "StaffAccess" => SA!IInv)
  BY StaffStart, OfficeAssumption DEF Init
<1>2. (part = "StaffAccess" => SA!IInv) /\ [Next]_vars => (part = "StaffAccess" => SA!IInv)'
  BY StaffStep, StaffMoves, OfficeAssumption
<1>. QED
  BY <1>1, <1>2, PTL DEF Spec

------------------------------------------------------------------------------
(* ApiTokens: v1 is allowed, v2 is tokens, v3 is requests.                  *)

LEMMA TokensRequestIs ==
  ASSUME NEW q \in AT!Request
  PROVE  /\ q.token \in 0 .. Bound.tokens
         /\ [q EXCEPT !.next = "answer"] \in AT!Request
         /\ [q EXCEPT !.next = "answer"].next = "answer" /\ [q EXCEPT !.next = "answer"].token = q.token
BY DEF AT!Request

LEMMA TokensIdleIs == Bound.tokens \in Nat => AT!Idle \in AT!Request
BY DEF AT!Request, AT!Idle

\* A token is revoked, is succeeded, is new
LEMMA TokensTokenRevoked ==
  ASSUME NEW k \in AT!Token
  PROVE  /\ [k EXCEPT !.revoked = TRUE] \in AT!Token /\ [k EXCEPT !.revoked = TRUE].revoked
         /\ [k EXCEPT !.revoked = TRUE].successors = k.successors
BY DEF AT!Token

LEMMA TokensTokenSucceeded ==
  ASSUME NEW k \in AT!Token
  PROVE  /\ [k EXCEPT !.successors = @ + 1] \in AT!Token
         /\ [k EXCEPT !.successors = @ + 1].revoked = k.revoked
         /\ [k EXCEPT !.successors = @ + 1].successors = k.successors + 1
BY DEF AT!Token

LEMMA TokensTokenNew ==
  /\ AT!NewToken \in AT!Token /\ AT!NewToken.successors = 0 /\ ~AT!NewToken.revoked
  /\ \A k \in AT!Token : k.revoked \in BOOLEAN /\ k.successors \in Nat
BY DEF AT!Token, AT!NewToken

\* One token changes
LEMMA TokensTokenSet ==
  ASSUME v2 \in Seq(AT!Token), NEW t \in DOMAIN v2, NEW k \in AT!Token
  PROVE  LET after == [v2 EXCEPT ![t] = k] IN
         /\ after \in Seq(AT!Token) /\ Len(after) = Len(v2) /\ DOMAIN after = DOMAIN v2
         /\ after[t] = k /\ \A i \in DOMAIN v2 : i # t => after[i] = v2[i]
OBVIOUS

\* and one is added
LEMMA TokensTokenAdded ==
  ASSUME NEW s \in Seq(AT!Token), NEW k \in AT!Token
  PROVE  LET after == Append(s, k) IN
         /\ after \in Seq(AT!Token) /\ Len(after) = Len(s) + 1
         /\ DOMAIN after = 1 .. Len(s) + 1 /\ DOMAIN s = 1 .. Len(s) /\ Len(s) \in Nat
         /\ after[Len(s) + 1] = k /\ \A i \in DOMAIN s : after[i] = s[i]
OBVIOUS

\* The parts of the invariant that speak of the requests
TokensHas(r)   == v3[r].next # "idle" => v3[r].token \in DOMAIN v2
TokensOwes(r)  == v3[r].next = "answer" =>
                    v2[v3[r].token].revoked /\ v2[v3[r].token].successors = 0
TokensAlone(r) == v3[r].next = "answer" =>
                    \A q \in Requests \ {r} : v3[q].next = "answer" => v3[q].token # v3[r].token

TokensTokens == v1 \in BOOLEAN /\ v2 \in Seq(AT!Token) /\ v3 \in [Requests -> AT!Request]

TokensWithin == \A r \in Requests : v3[r].token <= Len(v2)

LEMMA TokensInvIs ==
  /\ AT!IInv <=> TokensTokens /\ TokensWithin /\ Len(v2) <= Bound.tokens /\ AT!RefreshedOnce
                 /\ \A r \in Requests : TokensHas(r) /\ TokensOwes(r) /\ TokensAlone(r)
  /\ AT!IInv' <=> TokensTokens' /\ TokensWithin' /\ Len(v2)' <= Bound.tokens /\ AT!RefreshedOnce'
                 /\ \A r \in Requests : TokensHas(r)' /\ TokensOwes(r)' /\ TokensAlone(r)'
BY DEF AT!IInv, AT!TypeOK, TokensTokens, TokensWithin, TokensHas, TokensOwes, TokensAlone

LEMMA TokensStart ==
  ASSUME AT!ApiTokensAssumption, AT!Init
  PROVE  AT!IInv
<1>1. v2 = <<>> /\ v3 = [r \in Requests |-> AT!Idle] /\ v1 = TRUE
  BY DEF AT!Init
<1>2. TokensTokens
  BY <1>1, TokensIdleIs DEF TokensTokens, AT!ApiTokensAssumption
<1>3. Len(v2) = 0 /\ Len(v2) <= Bound.tokens /\ DOMAIN v2 = {}
  BY <1>1 DEF AT!ApiTokensAssumption
<1>4. \A r \in Requests : v3[r].next = "idle" /\ v3[r].token = 0
  BY <1>1 DEF AT!Idle
<1>. QED
  BY <1>2, <1>3, <1>4, TokensInvIs DEF TokensWithin, AT!RefreshedOnce, TokensHas, TokensOwes,
     TokensAlone

LEMMA TokensStep ==
  ASSUME AT!ApiTokensAssumption, AT!IInv, [AT!Next]_AT!vars
  PROVE  AT!IInv'
<1>1. /\ v1 \in BOOLEAN /\ v2 \in Seq(AT!Token) /\ v3 \in [Requests -> AT!Request]
      /\ TokensWithin /\ Len(v2) <= Bound.tokens /\ AT!RefreshedOnce /\ \A r \in Requests : TokensHas(r) /\ TokensOwes(r) /\ TokensAlone(r)
  BY TokensInvIs DEF TokensTokens
<1>2. Bound.tokens \in Nat /\ Len(v2) \in Nat /\ DOMAIN v2 = 1 .. Len(v2)
      /\ \A t \in DOMAIN v2 : v2[t] \in AT!Token
  BY <1>1 DEF AT!ApiTokensAssumption
<1>3. CASE AT!login
  <2>1. /\ v2' = Append(v2, AT!NewToken) /\ UNCHANGED <<v1, v3>> /\ Len(v2) < Bound.tokens
    BY <1>3 DEF AT!login
  <2>2. AT!NewToken \in AT!Token /\ AT!NewToken.successors = 0
    BY DEF AT!NewToken, AT!Token
  <2>3. /\ v2' \in Seq(AT!Token) /\ Len(v2') = Len(v2) + 1 /\ DOMAIN v2' = 1 .. Len(v2) + 1
        /\ v2'[Len(v2) + 1] = AT!NewToken /\ \A i \in DOMAIN v2 : v2'[i] = v2[i]
    BY <1>1, <2>1, <2>2, TokensTokenAdded
  <2>4. TokensTokens' /\ Len(v2)' <= Bound.tokens
    BY <1>1, <1>2, <2>1, <2>3 DEF TokensTokens
  <2>5. TokensWithin'
    <3>1. \A r \in Requests : v3[r].token \in 0 .. Bound.tokens
      BY <1>1 DEF AT!Request
    <3>. QED
      BY <1>1, <1>2, <2>1, <2>3, <3>1 DEF TokensWithin
  <2>6. AT!RefreshedOnce'
    BY <1>1, <1>2, <2>2, <2>3 DEF AT!RefreshedOnce
  <2>7. \A r \in Requests : TokensHas(r)' /\ TokensOwes(r)' /\ TokensAlone(r)'
    BY <1>1, <1>2, <2>1, <2>3 DEF TokensHas, TokensOwes, TokensAlone
  <2>. QED
    BY <2>4, <2>5, <2>6, <2>7, TokensInvIs
<1>4. ASSUME NEW r \in Requests, NEW q \in AT!Request, q.next # "answer", q.token <= Len(v2),
             q.next # "idle" => q.token \in DOMAIN v2,
             v3' = [v3 EXCEPT ![r] = q], UNCHANGED <<v1, v2>>
      PROVE  AT!IInv'
  <2>1. v3' \in [Requests -> AT!Request] /\ v3'[r] = q
        /\ \A s \in Requests : s # r => v3'[s] = v3[s]
    BY <1>1, <1>4
  <2>2. TokensTokens' /\ Len(v2)' <= Bound.tokens /\ AT!RefreshedOnce'
    BY <1>1, <1>4, <2>1 DEF TokensTokens, AT!RefreshedOnce
  <2>3. TokensWithin'
    BY <1>1, <1>4, <2>1 DEF TokensWithin
  <2>4. \A s \in Requests : TokensHas(s)' /\ TokensOwes(s)' /\ TokensAlone(s)'
    BY <1>1, <1>4, <2>1 DEF TokensHas, TokensOwes, TokensAlone
  <2>. QED
    BY <2>2, <2>3, <2>4, TokensInvIs
<1>5. ASSUME NEW r \in Requests, NEW t \in DOMAIN v2, AT!refresh(r, t) PROVE AT!IInv'
  <2>. DEFINE q == [next |-> "revoke", token |-> t]
  <2>1. v3' = [v3 EXCEPT ![r] = q] /\ UNCHANGED <<v1, v2>>
    BY <1>5 DEF AT!refresh
  <2>2. t \in 0 .. Bound.tokens /\ t <= Len(v2)
    BY <1>1, <1>2
  <2>3. q \in AT!Request /\ q.next # "answer" /\ q.token = t
    BY <2>2 DEF AT!Request
  <2>. HIDE DEF q
  <2>. QED
    BY <1>4, <2>1, <2>2, <2>3
<1>6. ASSUME NEW r \in Requests, AT!Drop(r) PROVE AT!IInv'
  <2>1. AT!Idle \in AT!Request /\ AT!Idle.next = "idle" /\ AT!Idle.token = 0 /\ 0 <= Len(v2)
    BY <1>2, TokensIdleIs DEF AT!Idle
  <2>2. v3' = [v3 EXCEPT ![r] = AT!Idle] /\ UNCHANGED <<v1, v2>>
    BY <1>6 DEF AT!Drop
  <2>. QED
    BY <1>4, <2>1, <2>2
\* The token was not revoked, so nobody owes its successor
<1>7. ASSUME NEW r \in Requests, AT!Revoke(r) PROVE AT!IInv'
  <2>. DEFINE t == v3[r].token
              k == [v2[t] EXCEPT !.revoked = TRUE]
              q == [v3[r] EXCEPT !.next = "answer"]
  <2>1. /\ v3[r].next = "revoke" /\ ~v2[t].revoked /\ UNCHANGED v1
        /\ v2' = [v2 EXCEPT ![t] = k] /\ v3' = [v3 EXCEPT ![r] = q]
    BY <1>1, <1>7 DEF AT!Revoke, AT!KeyFree
  <2>2. t \in DOMAIN v2 /\ v2[t] \in AT!Token
    BY <1>1, <1>2, <2>1 DEF TokensHas
  <2>3. v2[t].successors = 0
    <3>1. v2[t].successors \in Nat /\ v2[t].successors <= 1 /\ v2[t].successors # 1
      BY <1>1, <2>1, <2>2, TokensTokenNew DEF AT!RefreshedOnce
    <3>. QED
      BY <3>1
  <2>4. k \in AT!Token /\ k.revoked /\ k.successors = 0
    BY <2>2, <2>3, TokensTokenRevoked
  <2>5. q \in AT!Request /\ q.next = "answer" /\ q.token = t
    <3>1. v3[r] \in AT!Request
      BY <1>1
    <3>. QED
      BY <1>2, <3>1, TokensRequestIs
  <2>6. ~\E s \in Requests : v3[s].next = "answer" /\ v3[s].token = t
    BY <1>1, <2>1 DEF TokensOwes
  <2>. HIDE DEF k, q
  <2>7. /\ v2' \in Seq(AT!Token) /\ Len(v2') = Len(v2) /\ DOMAIN v2' = DOMAIN v2
        /\ v2'[t] = k /\ \A i \in DOMAIN v2 : i # t => v2'[i] = v2[i]
    BY <1>1, <2>1, <2>2, <2>4, TokensTokenSet
  <2>8. v3' \in [Requests -> AT!Request] /\ v3'[r] = q
        /\ \A s \in Requests : s # r => v3'[s] = v3[s]
    BY <1>1, <2>1, <2>5
  <2>. HIDE DEF t
  <2>9. TokensTokens' /\ Len(v2)' <= Bound.tokens
    BY <1>1, <2>1, <2>7, <2>8 DEF TokensTokens
  <2>10. TokensWithin'
    BY <1>1, <2>5, <2>7, <2>8 DEF TokensWithin, t
  <2>11. AT!RefreshedOnce'
    BY <1>1, <2>4, <2>7 DEF AT!RefreshedOnce
  <2>12. \A s \in Requests : TokensHas(s)'
    BY <1>1, <2>2, <2>5, <2>7, <2>8 DEF TokensHas
  <2>13. \A s \in Requests : TokensOwes(s)'
    BY <1>1, <2>4, <2>5, <2>7, <2>8 DEF TokensOwes, TokensHas
  <2>14. \A s \in Requests : TokensAlone(s)'
    BY <1>1, <2>5, <2>6, <2>8 DEF TokensAlone
  <2>. QED
    BY <2>9, <2>10, <2>11, <2>12, <2>13, <2>14, TokensInvIs
<1>8. ASSUME NEW r \in Requests, AT!Answer(r) PROVE AT!IInv'
  <2>. DEFINE t == v3[r].token
              k == [v2[t] EXCEPT !.successors = @ + 1]
              m == [v2 EXCEPT ![t] = k]
  <2>1. /\ v3[r].next = "answer" /\ Len(v2) < Bound.tokens /\ UNCHANGED v1
        /\ v2' = Append(m, AT!NewToken) /\ v3' = [v3 EXCEPT ![r] = AT!Idle]
    BY <1>1, <1>8 DEF AT!Answer
  <2>2. t \in DOMAIN v2 /\ v2[t] \in AT!Token /\ v2[t].revoked /\ v2[t].successors = 0
    BY <1>1, <1>2, <2>1 DEF TokensHas, TokensOwes
  <2>3. k \in AT!Token /\ k.revoked /\ k.successors = 1 /\ AT!NewToken \in AT!Token /\ AT!NewToken.successors = 0
    BY <2>2, TokensTokenSucceeded, TokensTokenNew
  <2>4. \A s \in Requests : s # r /\ v3[s].next = "answer" => v3[s].token # t
    BY <1>1, <2>1 DEF TokensAlone
  <2>5. AT!Idle \in AT!Request /\ AT!Idle.next = "idle" /\ AT!Idle.token = 0
    BY <1>2, TokensIdleIs DEF AT!Idle
  <2>. HIDE DEF k
  <2>6. /\ m \in Seq(AT!Token) /\ Len(m) = Len(v2) /\ DOMAIN m = DOMAIN v2
        /\ m[t] = k /\ \A i \in DOMAIN v2 : i # t => m[i] = v2[i]
    BY <1>1, <2>2, <2>3, TokensTokenSet
  <2>. HIDE DEF m
  <2>7. /\ v2' \in Seq(AT!Token) /\ Len(v2') = Len(v2) + 1
        /\ DOMAIN v2' = 1 .. Len(v2) + 1
        /\ v2'[Len(v2) + 1] = AT!NewToken /\ \A i \in DOMAIN v2 : v2'[i] = m[i]
    BY <2>1, <2>3, <2>6, TokensTokenAdded
  <2>8. v3' \in [Requests -> AT!Request] /\ v3'[r] = AT!Idle
        /\ \A s \in Requests : s # r => v3'[s] = v3[s]
    BY <1>1, <2>1, <2>5
  <2>9. TokensTokens' /\ Len(v2)' <= Bound.tokens
    BY <1>1, <1>2, <2>1, <2>7, <2>8 DEF TokensTokens
  <2>10. TokensWithin'
    <3>1. \A s \in Requests : v3[s].token \in 0 .. Bound.tokens
      BY <1>1 DEF AT!Request
    <3>. QED
      BY <1>1, <1>2, <2>5, <2>7, <2>8, <3>1 DEF TokensWithin
  <2>. HIDE DEF t
  <2>11. \A i \in DOMAIN v2' : v2'[i] \in {k, AT!NewToken} \/ (i \in DOMAIN v2 /\ i # t /\ v2'[i] = v2[i])
    BY <1>2, <2>6, <2>7
  <2>12. AT!RefreshedOnce'
    BY <1>1, <2>3, <2>11 DEF AT!RefreshedOnce
  <2>13. \A s \in Requests : TokensHas(s)'
    BY <1>1, <1>2, <2>5, <2>7, <2>8 DEF TokensHas
  <2>14. \A s \in Requests : TokensOwes(s)'
    BY <1>1, <2>4, <2>5, <2>6, <2>7, <2>8 DEF TokensOwes, TokensHas
  <2>15. \A s \in Requests : TokensAlone(s)'
    BY <1>1, <2>5, <2>8 DEF TokensAlone
  <2>. QED
    BY <2>9, <2>10, <2>12, <2>13, <2>14, <2>15, TokensInvIs
<1>9. CASE AT!Change
  <2>1. v1' \in BOOLEAN /\ UNCHANGED <<v2, v3>>
    BY <1>9 DEF AT!Change
  <2>. QED
    BY <1>1, <2>1, TokensInvIs DEF TokensTokens, TokensWithin, AT!RefreshedOnce, TokensHas,
       TokensOwes, TokensAlone
<1>10. CASE UNCHANGED AT!vars
  <2>1. UNCHANGED <<v1, v2, v3>>
    BY <1>10 DEF AT!vars
  <2>. QED
    BY <1>1, <2>1, TokensInvIs DEF TokensTokens, TokensWithin, AT!RefreshedOnce, TokensHas,
       TokensOwes, TokensAlone
<1>. QED
  BY <1>3, <1>5, <1>6, <1>7, <1>8, <1>9, <1>10 DEF AT!Next

LEMMA TokensEnough == AT!IInv => AT!TypeOK /\ AT!RefreshedOnce
BY DEF AT!IInv

LEMMA TokensMoves ==
  ASSUME [Next]_vars, part' = "ApiTokens"
  PROVE  part = "ApiTokens" /\ [AT!Next]_AT!vars
BY DEF Next, vars, AT!vars

LEMMA TokensAlways == Spec => [](part = "ApiTokens" => AT!IInv)
<1>1. Init => (part = "ApiTokens" => AT!IInv)
  BY TokensStart, OfficeAssumption DEF Init
<1>2. (part = "ApiTokens" => AT!IInv) /\ [Next]_vars => (part = "ApiTokens" => AT!IInv)'
  BY TokensStep, TokensMoves, OfficeAssumption
<1>. QED
  BY <1>1, <1>2, PTL DEF Spec

------------------------------------------------------------------------------
(* RateLimits: v1 is now, v2 is count, v3 is expires, v4 is requests, v5 is *)
(* refused, v6 is killed.                                                   *)

LEMMA RatesWindowBegins ==
  ASSUME RL!RateLimitsAssumption, RL!Init
  PROVE  RL!TypeOK /\ RL!WindowEnds
<1>1. Bound.attempts_now \in Nat /\ Bound.attempts_now >= 1 /\ window_seconds \in Nat /\ Bound.attempts \in Nat
  BY DEF RL!RateLimitsAssumption
<1>2. v1 \in 0 .. Bound.attempts_now /\ v2 \in 0 .. Bound.attempts /\ v5 \in 0 .. Bound.attempts_now
  BY <1>1 DEF RL!Init
<1>3. v3 \in 0 .. Bound.attempts_now + window_seconds
  BY <1>1 DEF RL!Init
<1>4. v6 \in BOOLEAN
  BY DEF RL!Init
<1>5. v4 \in [Requests -> {RL!Idle} \cup [next : {"expire", "decide"}, count : 1 .. Bound.attempts]]
  BY DEF RL!Init
<1>. QED
  BY <1>2, <1>3, <1>4, <1>5 DEF RL!Init, RL!TypeOK, RL!WindowEnds

\* One request moves at a time
LEMMA RatesTypesKept ==
  ASSUME RL!RateLimitsAssumption, RL!TypeOK, [RL!Next]_RL!vars
  PROVE  RL!TypeOK'
<1>1. ASSUME NEW r \in Requests, RL!Incr(r) PROVE RL!TypeOK'
  <2>1. v2' \in 1 .. Bound.attempts
    BY <1>1 DEF RL!TypeOK, RL!Incr, RL!RateLimitsAssumption
  <2>. QED
    BY <1>1, <2>1 DEF RL!TypeOK, RL!Incr, RL!Idle
<1>2. ASSUME NEW r \in Requests, RL!Expire(r) PROVE RL!TypeOK'
  BY <1>2 DEF RL!TypeOK, RL!Expire, RL!Idle, RL!RateLimitsAssumption
<1>3. ASSUME NEW r \in Requests, RL!Decide(r) PROVE RL!TypeOK'
  BY <1>3 DEF RL!TypeOK, RL!Decide, RL!Idle, RL!RateLimitsAssumption
<1>4. ASSUME NEW r \in Requests, RL!Lost(r) PROVE RL!TypeOK'
  BY <1>4 DEF RL!TypeOK, RL!Lost, RL!Idle, RL!RateLimitsAssumption
<1>5. CASE RL!clear_rate_limit_key
  BY <1>5 DEF RL!TypeOK, RL!clear_rate_limit_key, RL!RateLimitsAssumption
<1>6. CASE RL!Tick
  BY <1>6 DEF RL!TypeOK, RL!Tick, RL!RateLimitsAssumption
<1>7. CASE UNCHANGED RL!vars
  BY <1>7 DEF RL!TypeOK, RL!vars
<1>. QED
  BY <1>1, <1>2, <1>3, <1>4, <1>5, <1>6, <1>7 DEF RL!Next

LEMMA RatesWindowKept ==
  ASSUME RL!RateLimitsAssumption, RL!TypeOK, RL!WindowEnds, [RL!Next]_RL!vars
  PROVE  RL!WindowEnds'
<1>. DEFINE Setting(r) == v4[r].next = "expire"
<1>1. ASSUME NEW r \in Requests, RL!Incr(r) PROVE RL!WindowEnds'
  <2>1. CASE v2 = 0
    <3>1. v4'[r].next = "expire"
      BY <1>1, <2>1 DEF RL!Incr, RL!First, RL!TypeOK
    <3>. QED
      BY <3>1 DEF RL!WindowEnds
  <2>2. CASE v2 # 0
    <3>1. \A s \in Requests : Setting(s) => v4'[s] = v4[s]
      BY <1>1 DEF RL!Incr, RL!Idle, RL!TypeOK
    <3>. QED
      BY <1>1, <2>2, <3>1 DEF RL!Incr, RL!WindowEnds
  <2>. QED
    BY <2>1, <2>2
\* The window is set now, unless the key is gone
<1>2. ASSUME NEW r \in Requests, RL!Expire(r) PROVE RL!WindowEnds'
  <2>1. v1 + window_seconds \in v1 + 1 .. v1 + window_seconds
    BY DEF RL!RateLimitsAssumption, RL!TypeOK
  <2>. QED
    BY <1>2, <2>1 DEF RL!Expire, RL!WindowEnds
<1>3. ASSUME NEW r \in Requests, RL!Decide(r) PROVE RL!WindowEnds'
  <2>1. \A s \in Requests : Setting(s) => v4'[s] = v4[s]
    BY <1>3 DEF RL!Decide, RL!TypeOK
  <2>. QED
    BY <1>3, <2>1 DEF RL!Decide, RL!WindowEnds
<1>4. ASSUME NEW r \in Requests, RL!Lost(r) PROVE RL!WindowEnds'
  <2>1. CASE Setting(r)
    BY <1>4, <2>1 DEF RL!Lost, RL!WindowEnds
  <2>2. CASE ~Setting(r)
    <3>1. \A s \in Requests : Setting(s) => v4'[s] = v4[s]
      BY <1>4, <2>2 DEF RL!Lost, RL!TypeOK
    <3>. QED
      BY <1>4, <2>2, <3>1 DEF RL!Lost, RL!WindowEnds
  <2>. QED
    BY <2>1, <2>2
<1>5. CASE RL!clear_rate_limit_key
  BY <1>5 DEF RL!clear_rate_limit_key, RL!WindowEnds
\* A key that is not over has its end still ahead
<1>6. CASE RL!Tick
  <2>1. CASE v2' # 0 /\ v3 \in v1 + 1 .. v1 + window_seconds
    BY <1>6, <2>1 DEF RL!Tick, RL!WindowEnds, RL!TypeOK, RL!RateLimitsAssumption
  <2>. QED
    BY <1>6, <2>1 DEF RL!Tick, RL!WindowEnds
<1>7. CASE UNCHANGED RL!vars
  BY <1>7 DEF RL!WindowEnds, RL!vars
<1>. QED
  BY <1>1, <1>2, <1>3, <1>4, <1>5, <1>6, <1>7 DEF RL!Next

LEMMA RatesStart ==
  ASSUME RL!RateLimitsAssumption, RL!Init
  PROVE  RL!IInv
BY RatesWindowBegins DEF RL!IInv

LEMMA RatesStep ==
  ASSUME RL!RateLimitsAssumption, RL!IInv, [RL!Next]_RL!vars
  PROVE  RL!IInv'
BY RatesTypesKept, RatesWindowKept DEF RL!IInv

LEMMA RatesEnough == RL!IInv => RL!TypeOK /\ RL!WindowEnds
BY DEF RL!IInv

LEMMA RatesMoves ==
  ASSUME [Next]_vars, part' = "RateLimits"
  PROVE  part = "RateLimits" /\ [RL!Next]_RL!vars
BY DEF Next, vars, RL!vars

LEMMA RatesAlways == Spec => [](part = "RateLimits" => RL!IInv)
<1>1. Init => (part = "RateLimits" => RL!IInv)
  BY RatesStart, OfficeAssumption DEF Init
<1>2. (part = "RateLimits" => RL!IInv) /\ [Next]_vars => (part = "RateLimits" => RL!IInv)'
  BY RatesStep, RatesMoves, OfficeAssumption
<1>. QED
  BY <1>1, <1>2, PTL DEF Spec

------------------------------------------------------------------------------
(* Permissions: v1 is now, v2 is role_permissions, v3 is is_deleted, v4 is  *)
(* role_of, v5 is overrides, v6 is permcache, v7 is requests, v8 is lost.   *)

PermissionsOverride == [allow : SUBSET PermissionCodes, deny : SUBSET PermissionCodes]

PermissionsClock == v1 \in 0 .. Bound.permissions_now /\ v8 \in BOOLEAN

PermissionsRolesOK == /\ v3 \subseteq Roles /\ DOMAIN v2 \subseteq Roles
                      /\ v2 \in [DOMAIN v2 -> SUBSET PermissionCodes]

PermissionsUsersOK == /\ DOMAIN v4 \subseteq Users
                      /\ v4 \in [DOMAIN v4 -> DOMAIN v2 \cup {NoRole}]
                      /\ v5 \in [Users -> PermissionsOverride]

PermissionsCache == v6 \in [Users -> PE!Entry]

PermissionsAsked == v7 \in [Requests -> PE!Request]

LEMMA PermissionsInvIs ==
  /\ PE!IInv <=> PermissionsClock /\ PermissionsRolesOK /\ PermissionsUsersOK /\ PermissionsCache /\ PermissionsAsked /\ PE!Known /\ PE!ChangesTakeEffect
  /\ PE!IInv' <=> PermissionsClock' /\ PermissionsRolesOK' /\ PermissionsUsersOK' /\ PermissionsCache' /\ PermissionsAsked' /\ PE!Known' /\ PE!ChangesTakeEffect'
BY DEF PE!IInv, PE!TypeOK, PermissionsClock, PermissionsRolesOK, PermissionsUsersOK,
   PermissionsOverride, PermissionsCache, PermissionsAsked

LEMMA PermissionsIdleIs == PE!Idle \in PE!Request /\ PE!Idle.next = "idle"
BY DEF PE!Idle, PE!Request

LEMMA PermissionsRequestIs ==
  ASSUME NEW q \in PE!Request
  PROVE  /\ q.user \in Users \cup {NoUser} /\ q.role \in Roles \cup {NoRole} /\ q.codes \in SUBSET PermissionCodes
         /\ q.next \in {"idle", "fill", "clear", "deactivate"}
BY DEF PE!Request

LEMMA PermissionsWithIs ==
  ASSUME NEW f, NEW x, NEW v
  PROVE  /\ DOMAIN PE!With(f, x, v) = DOMAIN f \cup {x} /\ PE!With(f, x, v)[x] = v
         /\ \A y \in DOMAIN f : y # x => PE!With(f, x, v)[y] = f[y]
BY DEF PE!With

LEMMA PermissionsWithType ==
  ASSUME NEW S, NEW f, f \in [DOMAIN f -> S], NEW x, NEW v \in S
  PROVE  PE!With(f, x, v) \in [DOMAIN f \cup {x} -> S]
BY DEF PE!With

\* What a user may do are codes
LEMMA PermissionsComputeIs ==
  ASSUME PE!PermissionsAssumption, PermissionsRolesOK, PermissionsUsersOK, NEW u \in DOMAIN v4
  PROVE  PE!_compute_user_permission_codes(u) \in SUBSET PermissionCodes
<1>1. v4[u] \in DOMAIN v2 \cup {NoRole} /\ u \in Users
  BY DEF PermissionsUsersOK
<1>2. \A x \in {v4[u]} \cap Roles : v2[x] \in SUBSET PermissionCodes
  BY <1>1 DEF PermissionsRolesOK, PE!PermissionsAssumption
<1>3. v5[u].allow \in SUBSET PermissionCodes
  BY <1>1 DEF PermissionsUsersOK, PermissionsOverride
<1>. DEFINE given == UNION {v2[x] : x \in {v4[u]} \cap Roles}
<1>4. given \subseteq PermissionCodes
  BY <1>2
<1>5. PE!_compute_user_permission_codes(u) = (given \cup v5[u].allow) \ v5[u].deny
  BY DEF PE!_compute_user_permission_codes, given
<1>. HIDE DEF given
<1>. QED
  BY <1>3, <1>4, <1>5

\* and stay as they are while the role, its codes and the overrides do
LEMMA PermissionsComputeSame ==
  ASSUME PE!PermissionsAssumption, PermissionsUsersOK, NEW u \in DOMAIN v4, v4'[u] = v4[u],
         v5'[u] = v5[u],
         v4[u] \in DOMAIN v2 => v2'[v4[u]] = v2[v4[u]]
  PROVE  PE!_compute_user_permission_codes(u)' = PE!_compute_user_permission_codes(u)
<1>1. \A x \in {v4[u]} \cap Roles : v2'[x] = v2[x]
  BY DEF PermissionsUsersOK, PE!PermissionsAssumption
<1>2. {v2[x] : x \in {v4[u]} \cap Roles} = {v2'[x] : x \in {v4[u]} \cap Roles}
  BY <1>1
<1>. QED
  BY <1>2 DEF PE!_compute_user_permission_codes

LEMMA PermissionsStart ==
  ASSUME PE!PermissionsAssumption, PE!Init
  PROVE  PE!IInv
<1>1. PermissionsClock /\ PermissionsRolesOK
  <2>1. v1 = 0 /\ v8 = FALSE /\ v3 = {} /\ v2 = [x \in {} |-> {}]
    BY DEF PE!Init
  <2>2. PermissionsClock
    <3>1. Bound.permissions_now \in Nat
      BY DEF PE!PermissionsAssumption
    <3>2. v1 \in 0 .. Bound.permissions_now
      BY <2>1, <3>1
    <3>. QED
      BY <2>1, <3>2, Zenon DEF PermissionsClock
  <2>3. PermissionsRolesOK
    BY <2>1 DEF PermissionsRolesOK
  <2>. QED
    BY <2>2, <2>3
<1>2. PermissionsUsersOK
  BY DEF PE!Init, PermissionsUsersOK, PermissionsOverride
<1>3. PE!NoEntry \in PE!Entry
  BY DEF PE!NoEntry, PE!Entry, PE!PermissionsAssumption
<1>4. PermissionsCache /\ PermissionsAsked /\ \A u \in Users : ~PE!Cached(u)
  BY <1>3, PermissionsIdleIs DEF PE!Init, PermissionsCache, PermissionsAsked, PE!Cached
<1>5. \A r \in Requests : v7[r].next = "idle"
  BY PermissionsIdleIs DEF PE!Init
<1>. QED
  BY <1>1, <1>2, <1>4, <1>5, PermissionsInvIs DEF PE!Known, PE!ChangesTakeEffect

LEMMA PermissionsStep ==
  ASSUME PE!PermissionsAssumption, PE!IInv, [PE!Next]_PE!vars
  PROVE  PE!IInv'
<1>1. PermissionsClock /\ PermissionsRolesOK /\ PermissionsUsersOK /\ PermissionsCache /\ PermissionsAsked /\ PE!Known /\ PE!ChangesTakeEffect
  BY PermissionsInvIs
<1>2. /\ v6 \in [Users -> PE!Entry] /\ v7 \in [Requests -> PE!Request]
      /\ DOMAIN v4 \subseteq Users /\ Bound.permissions_now \in Nat /\ v1 \in 0 .. Bound.permissions_now
  BY <1>1 DEF PermissionsCache, PermissionsAsked, PermissionsUsersOK, PE!PermissionsAssumption,
     PermissionsClock
<1>3. PE!NoEntry \in PE!Entry
  BY DEF PE!NoEntry, PE!Entry, PE!PermissionsAssumption
<1>4. ASSUME NEW r \in Requests, NEW q \in PE!Request, v7' = [v7 EXCEPT ![r] = q]
      PROVE  /\ PermissionsAsked' /\ v7'[r] = q /\ \A s \in Requests : s # r => v7'[s] = v7[s]
  BY <1>2, <1>4 DEF PermissionsAsked
\* A step that leaves the database as it is, and a clear where it is or done
<1>5. ASSUME UNCHANGED PE!database, PermissionsClock', PermissionsCache', PermissionsAsked', PE!Known', v8 => v8',
             \A u \in Users : PE!Cached(u)' => \/ v6'[u] = v6[u]
                                               \/ v6'[u].late \/ v6'[u].codes = PE!_compute_user_permission_codes(u),
             \A r \in Requests : v7[r].next = "clear" =>
               \/ v8' \/ v7'[r] = v7[r] \/ \A u \in PE!Cleared(v7[r]) : ~PE!Cached(u)'
      PROVE  PE!IInv'
  <2>1. PermissionsRolesOK' /\ PermissionsUsersOK'
    BY <1>1, <1>5 DEF PermissionsRolesOK, PermissionsUsersOK, PE!database
  <2>2. \A u \in Users : PE!_compute_user_permission_codes(u)' = PE!_compute_user_permission_codes(u)
    BY <1>5 DEF PE!_compute_user_permission_codes, PE!database
  <2>3. \A r \in Requests : v7'[r] = v7[r] => PE!Cleared(v7[r])' = PE!Cleared(v7[r])
    BY <1>5 DEF PE!Cleared, PE!Holders, PE!database
  <2>4. PE!ChangesTakeEffect'
    <3>. SUFFICES ASSUME NEW u \in Users, PE!Cached(u)', v6'[u].codes # PE!_compute_user_permission_codes(u)',
                         ~v8', ~v6'[u].late
                  PROVE  \E r \in Requests : v7'[r].next = "clear" /\ u \in PE!Cleared(v7[r])'
      BY DEF PE!ChangesTakeEffect
    <3>1. v6'[u] = v6[u] /\ PE!Cached(u)
      BY <1>5, <2>2 DEF PE!Cached
    <3>2. \E r \in Requests : v7[r].next = "clear" /\ u \in PE!Cleared(v7[r])
      BY <1>1, <1>5, <2>2, <3>1 DEF PE!ChangesTakeEffect
    <3>. QED
      BY <1>5, <2>3, <3>2
  <2>. QED
    BY <1>5, <2>1, <2>4, PermissionsInvIs
<1>6. ASSUME NEW r \in Requests, NEW u \in Users, PE!Miss(r, u) PROVE PE!IInv'
  <2>. DEFINE q == [PE!Idle EXCEPT !.next = "fill", !.user = u, !.codes = PE!_compute_user_permission_codes(u)]
  <2>1. /\ v7[r] = PE!Idle /\ u \in DOMAIN v4 /\ v7' = [v7 EXCEPT ![r] = q]
        /\ UNCHANGED <<v1, PE!database, v6, v8>>
    BY <1>6 DEF PE!Miss
  <2>2. PE!_compute_user_permission_codes(u) \in SUBSET PermissionCodes
    BY <1>1, <2>1, PermissionsComputeIs
  <2>3. q \in PE!Request /\ q.next = "fill" /\ q.user = u
    BY <2>2 DEF PE!Idle, PE!Request
  <2>. HIDE DEF q
  <2>4. PermissionsAsked' /\ v7'[r] = q /\ \A s \in Requests : s # r => v7'[s] = v7[s]
    BY <1>4, <2>1, <2>3
  <2>5. PE!Known'
    BY <1>1, <2>1, <2>3, <2>4 DEF PE!Known, PE!Cached, PE!database
  <2>6. PermissionsClock' /\ PermissionsCache'
    BY <1>1, <2>1 DEF PermissionsClock, PermissionsCache
  <2>7. \A s \in Requests : v7[s].next = "clear" => v7'[s] = v7[s]
    BY <2>1, <2>4, PermissionsIdleIs
  <2>. QED
    BY <1>5, <2>1, <2>4, <2>5, <2>6, <2>7
\* A request is done; a clear only with its entries gone, or lost
<1>7. ASSUME NEW r \in Requests, v7' = [v7 EXCEPT ![r] = PE!Idle]
      PROVE  /\ PermissionsAsked' /\ \A s \in Requests : s # r => v7'[s] = v7[s]
             /\ \A s \in Requests : v7'[s].next \in {"fill", "deactivate"} => v7'[s] = v7[s]
  <2>1. PermissionsAsked' /\ v7'[r] = PE!Idle /\ \A s \in Requests : s # r => v7'[s] = v7[s]
    BY <1>4, <1>7, PermissionsIdleIs
  <2>. QED
    BY <2>1, PermissionsIdleIs
<1>8. ASSUME NEW r \in Requests, PE!Fill(r) PROVE PE!IInv'
  <2>. DEFINE u == v7[r].user
              e == [codes |-> v7[r].codes, expires |-> v1 + PERMISSION_CACHE_SECONDS,
                    late |-> v7[r].codes # PE!_compute_user_permission_codes(u)]
  <2>1. /\ v7[r].next = "fill" /\ v6' = [v6 EXCEPT ![u] = e]
        /\ v7' = [v7 EXCEPT ![r] = PE!Idle] /\ UNCHANGED <<v1, PE!database, v8>>
    BY <1>8 DEF PE!Fill
  <2>2. u \in DOMAIN v4 /\ u \in Users /\ v7[r].codes \in SUBSET PermissionCodes
    BY <1>1, <1>2, <2>1, PermissionsRequestIs DEF PE!Known
  <2>3. e \in PE!Entry
    <3>1. v1 + PERMISSION_CACHE_SECONDS \in 0 .. Bound.permissions_now + PERMISSION_CACHE_SECONDS
      BY <1>2 DEF PE!PermissionsAssumption
    <3>2. (v7[r].codes # PE!_compute_user_permission_codes(u)) \in BOOLEAN
      OBVIOUS
    <3>. QED
      BY <2>2, <3>1, <3>2 DEF PE!Entry
  <2>4. e.late \/ e.codes = PE!_compute_user_permission_codes(u)
    OBVIOUS
  <2>. HIDE DEF e
  <2>5. /\ v6' \in [Users -> PE!Entry] /\ v6'[u] = e
        /\ \A v \in Users : v # u => v6'[v] = v6[v]
    BY <1>2, <2>1, <2>2, <2>3
  <2>6. /\ PermissionsAsked' /\ \A s \in Requests : s # r => v7'[s] = v7[s]
        /\ \A s \in Requests : v7'[s].next \in {"fill", "deactivate"} => v7'[s] = v7[s]
    BY <1>7, <2>1
  <2>. HIDE DEF u
  <2>7. PE!Known'
    BY <1>1, <2>1, <2>2, <2>5, <2>6 DEF PE!Known, PE!Cached, PE!database
  <2>8. PermissionsClock' /\ PermissionsCache'
    BY <1>1, <2>1, <2>5 DEF PermissionsClock, PermissionsCache
  <2>9. \A v \in Users : \/ v6'[v] = v6[v]
                         \/ v6'[v].late \/ v6'[v].codes = PE!_compute_user_permission_codes(v)
    BY <2>4, <2>5 DEF u
  <2>10. \A s \in Requests : v7[s].next = "clear" => v7'[s] = v7[s]
    BY <2>1, <2>6
  <2>. QED
    BY <1>5, <2>1, <2>6, <2>7, <2>8, <2>9, <2>10
<1>9. ASSUME NEW x \in Roles, PE!RoleCreate(x) PROVE PE!IInv'
  <2>1. /\ x \notin DOMAIN v2 /\ v2' = PE!With(v2, x, {})
        /\ UNCHANGED <<v1, v3, v4, v5, v6, v7, v8>>
    BY <1>9 DEF PE!RoleCreate
  <2>2. /\ DOMAIN v2' = DOMAIN v2 \cup {x}
        /\ \A y \in DOMAIN v2 : v2'[y] = v2[y]
        /\ v2' \in [DOMAIN v2 \cup {x} -> SUBSET PermissionCodes]
    <3>1. v2 \in [DOMAIN v2 -> SUBSET PermissionCodes] /\ {} \in SUBSET PermissionCodes
      BY <1>1 DEF PermissionsRolesOK
    <3>2. PE!With(v2, x, {}) \in [DOMAIN v2 \cup {x} -> SUBSET PermissionCodes]
      BY <3>1, PermissionsWithType, Zenon
    <3>3. DOMAIN v2' = DOMAIN v2 \cup {x}
      BY <2>1, PermissionsWithIs, Zenon
    <3>4. \A y \in DOMAIN v2 : v2'[y] = v2[y]
      BY <2>1 DEF PE!With
    <3>. QED
      BY <2>1, <3>2, <3>3, <3>4, Zenon
  <2>3. PermissionsRolesOK' /\ PermissionsUsersOK' /\ PermissionsClock' /\ PermissionsCache' /\ PermissionsAsked' /\ PE!Known'
    BY <1>1, <2>1, <2>2 DEF PermissionsRolesOK, PermissionsUsersOK, PermissionsClock,
       PermissionsCache, PermissionsAsked, PE!Known, PE!Cached
  <2>4. \A u \in DOMAIN v4 : PE!_compute_user_permission_codes(u)' = PE!_compute_user_permission_codes(u)
    BY <1>1, <2>1, <2>2, PermissionsComputeSame
  <2>5. PE!ChangesTakeEffect'
    BY <1>1, <2>1, <2>4 DEF PE!ChangesTakeEffect, PE!Known, PE!Cached, PE!Cleared, PE!Holders
  <2>. QED
    BY <2>3, <2>5, PermissionsInvIs
<1>10. ASSUME NEW x \in Roles \cup {NoRole}, NEW u \in Users, PE!super_admin_create_user(u, x) PROVE PE!IInv'
  <2>1. /\ u \notin DOMAIN v4 /\ x \in DOMAIN v2 \cup {NoRole}
        /\ v4' = PE!With(v4, u, x)
        /\ UNCHANGED <<v1, v2, v3, v5, v6, v7, v8>>
    BY <1>10 DEF PE!super_admin_create_user, PE!Live
  <2>2. /\ DOMAIN v4' = DOMAIN v4 \cup {u}
        /\ \A v \in DOMAIN v4 : v4'[v] = v4[v]
        /\ v4' \in [DOMAIN v4 \cup {u} -> DOMAIN v2 \cup {NoRole}]
    <3>1. v4 \in [DOMAIN v4 -> DOMAIN v2 \cup {NoRole}]
      BY <1>1 DEF PermissionsUsersOK
    <3>2. PE!With(v4, u, x) \in [DOMAIN v4 \cup {u} -> DOMAIN v2 \cup {NoRole}]
      BY <2>1, <3>1, PermissionsWithType, Zenon
    <3>3. DOMAIN v4' = DOMAIN v4 \cup {u}
      BY <2>1, PermissionsWithIs, Zenon
    <3>4. \A v \in DOMAIN v4 : v4'[v] = v4[v]
      BY <2>1 DEF PE!With
    <3>. QED
      BY <2>1, <3>2, <3>3, <3>4, Zenon
  <2>3. PermissionsRolesOK' /\ PermissionsUsersOK' /\ PermissionsClock' /\ PermissionsCache' /\ PermissionsAsked' /\ PE!Known'
    BY <1>1, <2>1, <2>2 DEF PermissionsRolesOK, PermissionsUsersOK, PermissionsClock,
       PermissionsCache, PermissionsAsked, PE!Known, PE!Cached
  <2>4. \A v \in DOMAIN v4 : PE!_compute_user_permission_codes(v)' = PE!_compute_user_permission_codes(v)
    BY <1>1, <1>2, <2>1, <2>2, PermissionsComputeSame
  <2>5. PE!ChangesTakeEffect'
    <3>. SUFFICES ASSUME NEW v \in Users, PE!Cached(v)', v6'[v].codes # PE!_compute_user_permission_codes(v)',
                         ~v8', ~v6'[v].late
                  PROVE  \E r \in Requests : v7'[r].next = "clear" /\ v \in PE!Cleared(v7[r])'
      BY DEF PE!ChangesTakeEffect
    <3>1. PE!Cached(v) /\ v \in DOMAIN v4
      BY <1>1, <2>1 DEF PE!Cached, PE!Known
    <3>2. \E r \in Requests : v7[r].next = "clear" /\ v \in PE!Cleared(v7[r])
      BY <1>1, <2>1, <2>4, <3>1 DEF PE!ChangesTakeEffect
    <3>3. \A r \in Requests : PE!Cleared(v7[r]) \subseteq PE!Cleared(v7[r])'
      BY <2>1, <2>2 DEF PE!Cleared, PE!Holders
    <3>. QED
      BY <2>1, <3>2, <3>3
  <2>. QED
    BY <2>3, <2>5, PermissionsInvIs
\* A change: whom it affects is to be cleared
<1>11. ASSUME NEW r \in Requests, NEW v \in Users \cup {NoUser}, NEW x \in Roles \cup {NoRole},
              v7[r].next # "clear", PE!Committed(r, v, x), PermissionsRolesOK', PermissionsUsersOK', DOMAIN v4' = DOMAIN v4,
              \A u \in DOMAIN v4 :
                \/ /\ v4'[u] = v4[u] /\ v5'[u] = v5[u]
                   /\ v4[u] \in DOMAIN v2 => v2'[v4[u]] = v2[v4[u]]
                \/ x = NoRole /\ u = v
                \/ x # NoRole /\ v4'[u] = x
       PROVE  PE!IInv'
  <2>. DEFINE q == [PE!Idle EXCEPT !.next = "clear", !.user = v, !.role = x]
  <2>1. v7' = [v7 EXCEPT ![r] = q] /\ UNCHANGED <<v1, v6, v8>>
    BY <1>11 DEF PE!Committed
  <2>2. q \in PE!Request /\ q.next = "clear" /\ q.user = v /\ q.role = x
    BY DEF PE!Idle, PE!Request
  <2>. HIDE DEF q
  <2>3. PermissionsAsked' /\ v7'[r] = q /\ \A s \in Requests : s # r => v7'[s] = v7[s]
    BY <1>4, <2>1, <2>2
  <2>4. PermissionsClock' /\ PermissionsCache' /\ PE!Known'
    BY <1>1, <1>11, <2>1, <2>2, <2>3 DEF PermissionsClock, PermissionsCache, PE!Known, PE!Cached
  <2>5. PE!ChangesTakeEffect'
    <3>. SUFFICES ASSUME NEW u \in Users, PE!Cached(u)', v6'[u].codes # PE!_compute_user_permission_codes(u)',
                         ~v8', ~v6'[u].late
                  PROVE  \E s \in Requests : v7'[s].next = "clear" /\ u \in PE!Cleared(v7[s])'
      BY DEF PE!ChangesTakeEffect
    <3>1. PE!Cached(u) /\ u \in DOMAIN v4
      BY <1>1, <2>1 DEF PE!Cached, PE!Known
    <3>2. CASE /\ v4'[u] = v4[u] /\ v5'[u] = v5[u]
               /\ v4[u] \in DOMAIN v2 => v2'[v4[u]] = v2[v4[u]]
      <4>1. PE!_compute_user_permission_codes(u)' = PE!_compute_user_permission_codes(u)
        BY <1>1, <3>1, <3>2, PermissionsComputeSame
      <4>2. PICK s \in Requests : v7[s].next = "clear" /\ u \in PE!Cleared(v7[s])
        BY <1>1, <2>1, <3>1, <4>1 DEF PE!ChangesTakeEffect
      <4>3. v7'[s] = v7[s]
        BY <1>11, <2>3, <4>2
      <4>4. u \in PE!Cleared(v7[s])'
        BY <1>11, <3>1, <3>2, <4>2, <4>3 DEF PE!Cleared, PE!Holders
      <4>. QED
        BY <4>2, <4>3, <4>4
    <3>3. CASE x = NoRole /\ u = v
      <4>1. u \in PE!Cleared(v7[r])'
        BY <2>2, <2>3, <3>3 DEF PE!Cleared
      <4>. QED
        BY <2>2, <2>3, <4>1
    <3>4. CASE x # NoRole /\ v4'[u] = x
      <4>1. u \in PE!Cleared(v7[r])'
        BY <1>11, <2>2, <2>3, <3>1, <3>4 DEF PE!Cleared, PE!Holders
      <4>. QED
        BY <2>2, <2>3, <4>1
    <3>. QED
      BY <1>11, <3>1, <3>2, <3>3, <3>4
  <2>. QED
    BY <1>11, <2>3, <2>4, <2>5, PermissionsInvIs
\* The codes of a role
<1>12. ASSUME NEW r \in Requests, NEW x \in Roles, PE!Live(x), v7[r] = PE!Idle, NEW cs \in SUBSET PermissionCodes,
              v2' = [v2 EXCEPT ![x] = cs],
              UNCHANGED <<v3, v4, v5>>, PE!Committed(r, NoUser, x)
       PROVE  PE!IInv'
  <2>1. /\ DOMAIN v2' = DOMAIN v2
        /\ v2' \in [DOMAIN v2 -> SUBSET PermissionCodes]
        /\ \A y \in DOMAIN v2 : y # x => v2'[y] = v2[y]
    BY <1>1, <1>12 DEF PermissionsRolesOK, PE!Live
  <2>2. PermissionsRolesOK' /\ PermissionsUsersOK'
    BY <1>1, <1>12, <2>1 DEF PermissionsRolesOK, PermissionsUsersOK
  <2>3. v7[r].next # "clear" /\ x # NoRole
    BY <1>12, PermissionsIdleIs DEF PE!PermissionsAssumption
  <2>. QED
    BY <1>11, <1>12, <2>1, <2>2, <2>3
<1>13. ASSUME NEW r \in Requests, NEW x \in Roles, NEW cs \in SUBSET PermissionCodes,
              PE!super_admin_roles_permissions(r, x, cs)
       PROVE  PE!IInv'
  BY <1>12, <1>13 DEF PE!super_admin_roles_permissions
<1>14. ASSUME NEW r \in Requests, NEW x \in Roles, NEW m \in DOMAIN v4, NEW cs \in SUBSET PermissionCodes,
              PE!organization_roles(r, m, x, cs)
       PROVE  PE!IInv'
  <2>1. /\ v7[r] = PE!Idle /\ PE!Live(x) /\ UNCHANGED <<v3, v4, v5>> /\ PE!Committed(r, NoUser, x)
        /\ v2' = [v2 EXCEPT ![x] = (v2[x] \ PE!Delegable(m)) \cup cs]
    BY <1>14 DEF PE!organization_roles
  <2>2. v2[x] \in SUBSET PermissionCodes
    BY <1>1, <2>1 DEF PermissionsRolesOK, PE!Live
  <2>3. (v2[x] \ PE!Delegable(m)) \cup cs \in SUBSET PermissionCodes
    BY <2>2
  <2>. QED
    BY <1>12, <2>1, <2>3
<1>15. ASSUME NEW r \in Requests, NEW u \in Users, NEW allow \in SUBSET PermissionCodes,
              NEW deny \in SUBSET PermissionCodes, PE!super_admin_user_permission_overrides(r, u, allow, deny)
       PROVE  PE!IInv'
  <2>. DEFINE o == [allow |-> allow, deny |-> deny]
  <2>1. /\ v7[r] = PE!Idle /\ u \in DOMAIN v4 /\ v5' = [v5 EXCEPT ![u] = o]
        /\ UNCHANGED <<v2, v3, v4>> /\ PE!Committed(r, u, NoRole)
    BY <1>15 DEF PE!super_admin_user_permission_overrides
  <2>2. o \in PermissionsOverride
    BY DEF PermissionsOverride
  <2>. HIDE DEF o
  <2>3. v5' \in [Users -> PermissionsOverride] /\ \A v \in Users : v # u => v5'[v] = v5[v]
    BY <1>1, <2>1, <2>2 DEF PermissionsUsersOK
  <2>4. PermissionsRolesOK' /\ PermissionsUsersOK'
    BY <1>1, <2>1, <2>3 DEF PermissionsRolesOK, PermissionsUsersOK
  <2>5. v7[r].next # "clear"
    BY <2>1, PermissionsIdleIs
  <2>. QED
    BY <1>2, <1>11, <2>1, <2>3, <2>4, <2>5
<1>16. ASSUME NEW r \in Requests, NEW x \in Roles \cup {NoRole}, NEW u \in Users, PE!AssignRole(r, u, x) PROVE PE!IInv'
  <2>1. /\ v7[r] = PE!Idle /\ u \in DOMAIN v4 /\ x \in DOMAIN v2 \cup {NoRole}
        /\ v4' = [v4 EXCEPT ![u] = x]
        /\ UNCHANGED <<v2, v3, v5>> /\ PE!Committed(r, u, NoRole)
    BY <1>16 DEF PE!AssignRole, PE!Live
  <2>2. /\ DOMAIN v4' = DOMAIN v4 /\ v4' \in [DOMAIN v4 -> DOMAIN v2 \cup {NoRole}]
        /\ \A v \in DOMAIN v4 : v # u => v4'[v] = v4[v]
    BY <1>1, <2>1 DEF PermissionsUsersOK
  <2>3. PermissionsRolesOK' /\ PermissionsUsersOK'
    BY <1>1, <2>1, <2>2 DEF PermissionsRolesOK, PermissionsUsersOK
  <2>4. v7[r].next # "clear"
    BY <2>1, PermissionsIdleIs
  <2>. QED
    BY <1>11, <2>1, <2>2, <2>3, <2>4
<1>17. ASSUME NEW r \in Requests, NEW x \in Roles, PE!CountUsers(r, x) PROVE PE!IInv'
  <2>. DEFINE q == [PE!Idle EXCEPT !.next = "deactivate", !.role = x]
  <2>1. /\ v7[r] = PE!Idle /\ v7' = [v7 EXCEPT ![r] = q]
        /\ UNCHANGED <<v1, PE!database, v6, v8>>
    BY <1>17 DEF PE!CountUsers
  <2>2. q \in PE!Request /\ q.next = "deactivate" /\ q.role = x
    BY DEF PE!Idle, PE!Request
  <2>. HIDE DEF q
  <2>3. PermissionsAsked' /\ v7'[r] = q /\ \A s \in Requests : s # r => v7'[s] = v7[s]
    BY <1>4, <2>1, <2>2
  <2>4. PE!Known' /\ PermissionsClock' /\ PermissionsCache'
    BY <1>1, <2>1, <2>2, <2>3 DEF PE!Known, PE!Cached, PE!database, PermissionsClock,
       PermissionsCache
  <2>5. \A s \in Requests : v7[s].next = "clear" => v7'[s] = v7[s]
    BY <2>1, <2>3, PermissionsIdleIs
  <2>. QED
    BY <1>5, <2>1, <2>3, <2>4, <2>5
<1>18. ASSUME NEW r \in Requests, PE!Deactivate(r) PROVE PE!IInv'
  <2>1. /\ v7[r].next = "deactivate" /\ v3' = v3 \cup {v7[r].role}
        /\ UNCHANGED <<v2, v4, v5>> /\ v7[r].role \in Roles
    BY <1>1, <1>18 DEF PE!Deactivate, PE!Known
  <2>2. PermissionsRolesOK' /\ PermissionsUsersOK'
    BY <1>1, <2>1 DEF PermissionsRolesOK, PermissionsUsersOK
  <2>3. CASE PE!Committed(r, NoUser, v7[r].role)
    BY <1>11, <2>1, <2>2, <2>3
  <2>4. CASE v7' = [v7 EXCEPT ![r] = PE!Idle] /\ UNCHANGED <<v1, v6, v8>>
    <3>1. /\ PermissionsAsked' /\ \A s \in Requests : s # r => v7'[s] = v7[s]
          /\ \A s \in Requests : v7'[s].next \in {"fill", "deactivate"} => v7'[s] = v7[s]
      BY <1>7, <2>4
    <3>2. PE!Known' /\ PermissionsClock' /\ PermissionsCache'
      BY <1>1, <2>1, <2>4, <3>1 DEF PE!Known, PE!Cached, PermissionsClock, PermissionsCache
    <3>3. \A s \in Requests : v7[s].next = "clear" => v7'[s] = v7[s]
      BY <2>1, <3>1
    <3>4. \A u \in Users : PE!_compute_user_permission_codes(u)' = PE!_compute_user_permission_codes(u)
      BY <2>1 DEF PE!_compute_user_permission_codes
    <3>5. \A s \in Requests : v7'[s] = v7[s] => PE!Cleared(v7[s])' = PE!Cleared(v7[s])
      BY <2>1 DEF PE!Cleared, PE!Holders
    <3>6. PE!ChangesTakeEffect'
      BY <1>1, <2>4, <3>3, <3>4, <3>5 DEF PE!ChangesTakeEffect, PE!Cached
    <3>. QED
      BY <2>2, <3>1, <3>2, <3>6, PermissionsInvIs
  <2>. QED
    BY <1>18, <2>3, <2>4 DEF PE!Deactivate
<1>19. ASSUME NEW r \in Requests, PE!Clear(r) PROVE PE!IInv'
  <2>. DEFINE gone == PE!Cleared(v7[r])
  <2>1. /\ v6' = [u \in Users |-> IF u \in gone THEN PE!NoEntry ELSE v6[u]]
        /\ v7' = [v7 EXCEPT ![r] = PE!Idle] /\ UNCHANGED <<v1, PE!database, v8>>
        /\ v7[r].next = "clear"
    BY <1>19 DEF PE!Clear
  <2>2. /\ PermissionsAsked' /\ \A s \in Requests : s # r => v7'[s] = v7[s]
        /\ \A s \in Requests : v7'[s].next \in {"fill", "deactivate"} => v7'[s] = v7[s]
    BY <1>7, <2>1
  <2>3. \A u \in Users : IF u \in gone THEN ~PE!Cached(u)' ELSE v6'[u] = v6[u]
    BY <2>1 DEF PE!Cached
  <2>4. PermissionsCache' /\ PermissionsClock'
    BY <1>1, <1>2, <1>3, <2>1 DEF PermissionsCache, PermissionsClock
  <2>5. gone \subseteq Users
    BY <1>2 DEF PE!Cleared, PE!Holders
  <2>. HIDE DEF gone
  <2>6. PE!Known'
    BY <1>1, <2>1, <2>2, <2>3 DEF PE!Known, PE!Cached, PE!database
  <2>7. \A s \in Requests : v7'[s] = v7[s] \/ \A u \in PE!Cleared(v7[s]) : ~PE!Cached(u)'
    BY <2>2, <2>3, <2>5 DEF gone
  <2>. QED
    BY <1>5, <2>1, <2>2, <2>3, <2>4, <2>6, <2>7
<1>20. ASSUME NEW r \in Requests, PE!Lose(r) PROVE PE!IInv'
  <2>1. /\ v7' = [v7 EXCEPT ![r] = PE!Idle] /\ UNCHANGED <<v1, PE!database, v6>>
        /\ v8' = (v8 \/ v7[r].next = "clear")
    BY <1>20 DEF PE!Lose
  <2>2. /\ PermissionsAsked' /\ \A s \in Requests : s # r => v7'[s] = v7[s]
        /\ \A s \in Requests : v7'[s].next \in {"fill", "deactivate"} => v7'[s] = v7[s]
    BY <1>7, <2>1
  <2>3. PE!Known' /\ PermissionsClock' /\ PermissionsCache'
    BY <1>1, <2>1, <2>2 DEF PE!Known, PE!Cached, PE!database, PermissionsClock, PermissionsCache
  <2>4. \A s \in Requests : v7[s].next = "clear" => v8' \/ v7'[s] = v7[s]
    BY <2>1, <2>2
  <2>. QED
    BY <1>5, <2>1, <2>2, <2>3, <2>4
<1>21. CASE PE!Tick
  <2>1. /\ v1' = v1 + 1 /\ v1 < Bound.permissions_now /\ UNCHANGED <<PE!database, v7, v8>>
        /\ v6' = [u \in Users |-> IF v6[u].expires <= v1' THEN PE!NoEntry ELSE v6[u]]
    BY <1>21 DEF PE!Tick
  <2>2. PermissionsClock' /\ PermissionsCache' /\ PermissionsAsked'
    BY <1>1, <1>2, <1>3, <2>1 DEF PermissionsClock, PermissionsCache, PermissionsAsked
  <2>3. \A u \in Users : PE!Cached(u)' => v6'[u] = v6[u]
    BY <2>1 DEF PE!Cached
  <2>4. PE!Known'
    BY <1>1, <2>1, <2>3 DEF PE!Known, PE!Cached, PE!database
  <2>. QED
    BY <1>5, <2>1, <2>2, <2>3, <2>4
<1>22. CASE UNCHANGED PE!vars
  <2>1. PermissionsClock' /\ PermissionsCache' /\ PermissionsAsked' /\ PE!Known'
    BY <1>1, <1>22 DEF PE!vars, PermissionsClock, PermissionsCache, PermissionsAsked, PE!Known,
       PE!Cached
  <2>. QED
    BY <1>5, <1>22, <2>1 DEF PE!vars, PE!database
<1>23. ASSUME NEW x \in Roles, NEW u \in Users, NEW m \in DOMAIN v4, PE!organization_user_create(m, u, x) PROVE PE!IInv'
  BY <1>10, <1>23 DEF PE!organization_user_create
<1>24. ASSUME NEW r \in Requests, NEW x \in Roles, NEW m \in DOMAIN v4, NEW u \in Users,
              PE!organization_user_edit(r, m, u, x)
       PROVE  PE!IInv'
  BY <1>16, <1>24 DEF PE!organization_user_edit
<1>. QED
  BY <1>6, <1>8, <1>9, <1>10, <1>13, <1>14, <1>15, <1>16, <1>17, <1>18, <1>19, <1>20, <1>21,
     <1>22, <1>23, <1>24
  DEF PE!Next

LEMMA PermissionsEnough == PE!IInv => PE!TypeOK /\ PE!ChangesTakeEffect
BY DEF PE!IInv

LEMMA PermissionsMoves ==
  ASSUME [Next]_vars, part' = "Permissions"
  PROVE  part = "Permissions" /\ [PE!Next]_PE!vars
BY DEF Next, vars, PE!vars

LEMMA PermissionsAlways == Spec => [](part = "Permissions" => PE!IInv)
<1>1. Init => (part = "Permissions" => PE!IInv)
  BY PermissionsStart, OfficeAssumption DEF Init
<1>2. (part = "Permissions" => PE!IInv) /\ [Next]_vars => (part = "Permissions" => PE!IInv)'
  BY PermissionsStep, PermissionsMoves, OfficeAssumption
<1>. QED
  BY <1>1, <1>2, PTL DEF Spec

------------------------------------------------------------------------------
(* ReportCache: v1 is now, v2 is data, v3 is redis, v4 is client, v5 is     *)
(* entry, v6 is doing.                                                      *)

ReportsEntry == [data : -1 .. Bound.data, expires : 0 .. Bound.reports_now + DEFAULT_TTL_SECONDS,
                 causes : SUBSET RC!Causes]

ReportsDoing == [next : {"idle", "store", "clear"}, data : -1 .. Bound.data]

LEMMA ReportsNoneIs ==
  ASSUME RC!ReportCacheAssumption
  PROVE  /\ RC!NoEntry \in ReportsEntry /\ RC!Idle \in ReportsDoing /\ RC!Idle.next = "idle"
         /\ [RC!Idle EXCEPT !.next = "clear"] \in ReportsDoing /\ [RC!Idle EXCEPT !.next = "clear"].next = "clear"
BY DEF RC!ReportCacheAssumption, RC!NoEntry, RC!Idle, ReportsEntry, ReportsDoing

LEMMA ReportsStart ==
  ASSUME RC!ReportCacheAssumption, RC!Init
  PROVE  RC!IInv
<1>1. RC!TypeOK
  <2>1. v1 \in 0 .. Bound.reports_now /\ v2 \in 0 .. Bound.data
    BY DEF RC!Init, RC!ReportCacheAssumption
  <2>2. v3 \in BOOLEAN /\ v5 = RC!NoEntry
    BY DEF RC!Init
  <2>3. /\ v4 \in [Processes -> {"untried", "connected", "disabled"}]
        /\ v6 \in [Processes -> ReportsDoing]
    BY ReportsNoneIs DEF RC!Init
  <2>. QED
    BY <2>1, <2>2, <2>3, ReportsNoneIs DEF RC!TypeOK, ReportsEntry, ReportsDoing
<1>. QED
  BY <1>1 DEF RC!Init, RC!IInv, RC!ReportsKeepUp

\* A report that something happened to
LEMMA ReportsMarkedIs ==
  ASSUME v5 \in ReportsEntry, NEW cause \in RC!Causes
  PROVE  /\ RC!Marked(cause) \in ReportsEntry /\ RC!Marked(cause).data = v5.data
         /\ v5 = RC!NoEntry => RC!Marked(cause) = RC!NoEntry
         /\ v5 # RC!NoEntry => RC!Marked(cause).causes # {}
<1>1. CASE v5 = RC!NoEntry
  BY <1>1 DEF RC!Marked
<1>2. CASE v5 # RC!NoEntry
  BY <1>2 DEF RC!Marked, ReportsEntry
<1>. QED
  BY <1>1, <1>2

LEMMA ReportsStep ==
  ASSUME RC!ReportCacheAssumption, RC!IInv, [RC!Next]_RC!vars
  PROVE  RC!IInv'
<1>0. /\ v1 \in 0 .. Bound.reports_now /\ v2 \in 0 .. Bound.data /\ v3 \in BOOLEAN
      /\ v4 \in [Processes -> {"untried", "connected", "disabled"}]
      /\ v5 \in ReportsEntry /\ v6 \in [Processes -> ReportsDoing] /\ RC!ReportsKeepUp
  BY DEF RC!IInv, RC!TypeOK, ReportsEntry, ReportsDoing
<1>1. \A p \in Processes : RC!_get_redis_client(p) \in {"untried", "connected", "disabled"}
  BY <1>0 DEF RC!_get_redis_client
<1>2. ASSUME NEW p \in Processes, RC!cached_report(p) PROVE RC!IInv'
  <2>. DEFINE w == [next |-> "store", data |-> v2]
  <2>1. w \in ReportsDoing /\ w.next # "clear"
    BY <1>0 DEF ReportsDoing
  <2>2. v6' = [v6 EXCEPT ![p] = w] /\ v4' = [v4 EXCEPT ![p] = RC!_get_redis_client(p)]
        /\ UNCHANGED <<v1, v2, v3, v5>> /\ v6[p] = RC!Idle
    BY <1>2 DEF RC!cached_report
  <2>. HIDE DEF w
  <2>3. RC!TypeOK'
    BY <1>0, <1>1, <2>1, <2>2 DEF RC!TypeOK, ReportsEntry, ReportsDoing
  <2>4. \A q \in Processes : v6[q].next = "clear" => v6'[q].next = "clear"
    BY <1>0, <2>2, ReportsNoneIs
  <2>. QED
    BY <1>0, <2>2, <2>3, <2>4 DEF RC!IInv, RC!ReportsKeepUp
<1>3. ASSUME NEW p \in Processes, RC!Store(p) PROVE RC!IInv'
  <2>. DEFINE e == [data |-> v6[p].data, expires |-> v1 + DEFAULT_TTL_SECONDS,
                    causes |-> IF v6[p].data # v2 THEN {"late"} ELSE {}]
  <2>1. e \in ReportsEntry /\ (e.data # v2 => e.causes # {})
    <3>1. v6[p].data \in -1 .. Bound.data
      BY <1>0 DEF ReportsDoing
    <3>2. v1 + DEFAULT_TTL_SECONDS \in 0 .. Bound.reports_now + DEFAULT_TTL_SECONDS
      BY <1>0 DEF RC!ReportCacheAssumption
    <3>. QED
      BY <3>1, <3>2 DEF ReportsEntry, RC!Causes
  <2>2. v5' \in {e, v5} /\ v6' = [v6 EXCEPT ![p] = RC!Idle]
        /\ UNCHANGED <<v1, v2, v3, v4>> /\ v6[p].next = "store"
    BY <1>3 DEF RC!Store
  <2>. HIDE DEF e
  <2>3. RC!TypeOK'
    BY <1>0, <2>1, <2>2, ReportsNoneIs DEF RC!TypeOK, ReportsEntry, ReportsDoing
  <2>4. \A q \in Processes : v6[q].next = "clear" => v6'[q].next = "clear"
    BY <1>0, <2>2
  <2>. QED
    BY <1>0, <2>1, <2>2, <2>3, <2>4 DEF RC!IInv, RC!ReportsKeepUp
<1>4. ASSUME NEW p \in Processes, RC!Change(p) PROVE RC!IInv'
  <2>. DEFINE w == [RC!Idle EXCEPT !.next = "clear"]
  <2>1. v2' = v2 + 1 /\ v2 < Bound.data /\ v6' = [v6 EXCEPT ![p] = w]
        /\ UNCHANGED <<v1, v3, v4, v5>>
    BY <1>4 DEF RC!Change
  <2>2. w \in ReportsDoing /\ w.next = "clear"
    BY ReportsNoneIs
  <2>. HIDE DEF w
  <2>3. RC!TypeOK'
    BY <1>0, <2>1, <2>2 DEF RC!TypeOK, ReportsEntry, ReportsDoing, RC!ReportCacheAssumption
  <2>4. v6'[p].next = "clear"
    BY <1>0, <2>1, <2>2
  <2>. QED
    BY <2>3, <2>4 DEF RC!IInv, RC!ReportsKeepUp
<1>5. ASSUME NEW p \in Processes, RC!invalidate_report_cache(p) PROVE RC!IInv'
  <2>1. /\ v5' = RC!NoEntry \/ v5' = RC!Marked("missed")
        /\ v6' = [v6 EXCEPT ![p] = RC!Idle] /\ v4' = [v4 EXCEPT ![p] = RC!_get_redis_client(p)]
        /\ UNCHANGED <<v1, v2, v3>>
    BY <1>5 DEF RC!invalidate_report_cache, RC!Emptied
  <2>2. RC!TypeOK'
    BY <1>0, <1>1, <2>1, ReportsNoneIs, ReportsMarkedIs DEF RC!TypeOK, ReportsEntry,
       ReportsDoing, RC!Causes
  <2>3. v5' # RC!NoEntry => v5'.causes # {}
    BY <1>0, <2>1, ReportsMarkedIs DEF RC!Causes
  <2>. QED
    BY <2>2, <2>3 DEF RC!IInv, RC!ReportsKeepUp
<1>6. ASSUME NEW p \in Processes, RC!ClearCache(p) PROVE RC!IInv'
  <2>1. /\ v5' = RC!NoEntry \/ v5' = RC!Marked("missed")
        /\ v4' = [v4 EXCEPT ![p] = RC!_get_redis_client(p)]
        /\ UNCHANGED <<v1, v2, v3, v6>>
    BY <1>6 DEF RC!ClearCache, RC!Emptied
  <2>2. RC!TypeOK'
    BY <1>0, <1>1, <2>1, ReportsNoneIs, ReportsMarkedIs DEF RC!TypeOK, ReportsEntry,
       ReportsDoing, RC!Causes
  <2>3. v5' # RC!NoEntry => v5'.causes # {}
    BY <1>0, <2>1, ReportsMarkedIs DEF RC!Causes
  <2>. QED
    BY <2>2, <2>3 DEF RC!IInv, RC!ReportsKeepUp
<1>7. ASSUME NEW p \in Processes, RC!Restart(p) PROVE RC!IInv'
  <2>1. v4' = [v4 EXCEPT ![p] = "untried"] /\ v6' = [v6 EXCEPT ![p] = RC!Idle]
        /\ v5' = (IF v6[p].next = "clear" THEN RC!Marked("missed") ELSE v5)
        /\ UNCHANGED <<v1, v2, v3>>
    BY <1>7 DEF RC!Restart
  <2>2. RC!TypeOK'
    BY <1>0, <2>1, ReportsNoneIs, ReportsMarkedIs DEF RC!TypeOK, ReportsEntry, ReportsDoing,
       RC!Causes
  <2>3. \A q \in Processes : v6[q].next = "clear" => q = p \/ v6'[q].next = "clear"
    BY <1>0, <2>1
  <2>4. CASE v6[p].next = "clear"
    BY <1>0, <2>1, <2>2, <2>4, ReportsMarkedIs DEF RC!IInv, RC!ReportsKeepUp, RC!Causes
  <2>5. CASE v6[p].next # "clear"
    BY <1>0, <2>1, <2>2, <2>3, <2>5 DEF RC!IInv, RC!ReportsKeepUp
  <2>. QED
    BY <2>4, <2>5
<1>8. CASE RC!Redis
  <2>1. RC!TypeOK'
    BY <1>0, <1>8 DEF RC!Redis, RC!TypeOK, ReportsEntry, ReportsDoing
  <2>. QED
    BY <1>0, <1>8, <2>1 DEF RC!Redis, RC!IInv, RC!ReportsKeepUp
<1>9. CASE RC!Tick
  <2>1. v5' \in {RC!NoEntry, v5} /\ v1' = v1 + 1 /\ v1 < Bound.reports_now
        /\ UNCHANGED <<v2, v3, v4, v6>>
    BY <1>9 DEF RC!Tick
  <2>2. RC!TypeOK'
    BY <1>0, <2>1, ReportsNoneIs DEF RC!TypeOK, ReportsEntry, ReportsDoing,
       RC!ReportCacheAssumption
  <2>. QED
    BY <1>0, <2>1, <2>2 DEF RC!IInv, RC!ReportsKeepUp
<1>10. CASE RC!UnannouncedChange
  <2>1. /\ v2 < Bound.data /\ v2' = v2 + 1 /\ v5' = RC!Marked("unannounced")
        /\ UNCHANGED <<v1, v3, v4, v6>>
    BY <1>10 DEF RC!UnannouncedChange
  <2>2. RC!TypeOK'
    BY <1>0, <2>1, ReportsMarkedIs DEF RC!TypeOK, ReportsEntry, ReportsDoing, RC!Causes,
       RC!ReportCacheAssumption
  <2>. QED
    BY <1>0, <2>1, <2>2, ReportsMarkedIs DEF RC!IInv, RC!ReportsKeepUp, RC!Causes
<1>11. CASE UNCHANGED RC!vars
  BY <1>11 DEF RC!IInv, RC!TypeOK, RC!ReportsKeepUp, RC!vars
<1>. QED
  BY <1>2, <1>3, <1>4, <1>5, <1>6, <1>7, <1>8, <1>9, <1>10, <1>11 DEF RC!Next

LEMMA ReportsEnough == RC!IInv => RC!TypeOK /\ RC!ReportsKeepUp
BY DEF RC!IInv

LEMMA ReportsMoves ==
  ASSUME [Next]_vars, part' = "ReportCache"
  PROVE  part = "ReportCache" /\ [RC!Next]_RC!vars
BY DEF Next, vars, RC!vars

LEMMA ReportsAlways == Spec => [](part = "ReportCache" => RC!IInv)
<1>1. Init => (part = "ReportCache" => RC!IInv)
  BY ReportsStart, OfficeAssumption DEF Init
<1>2. (part = "ReportCache" => RC!IInv) /\ [Next]_vars => (part = "ReportCache" => RC!IInv)'
  BY ReportsStep, ReportsMoves, OfficeAssumption
<1>. QED
  BY <1>1, <1>2, PTL DEF Spec
------------------------------------------------------------------------------
\* Not more codes are valid together than cooldowns fit into their validity, whoever
\* asks for one, unless two requests sent one at the same time (send_login_otp).
THEOREM CodesAreFew == Spec => []FewCodes
<1>1. (part = "StaffAccess" => SA!IInv) => FewCodes
  BY StaffEnough, OfficeAssumption DEF FewCodes
<1>. QED
  BY StaffAlways, <1>1, PTL

\* Nobody whom the organization deactivated is in, in whatever browsers, and however
\* the requests that log in and that deactivate overlap (login_required).
THEOREM DeactivatedIsLoggedOut == Spec => []LoggedOutAtOnce
<1>1. (part = "StaffAccess" => SA!IInv) => LoggedOutAtOnce
  BY StaffEnough, OfficeAssumption DEF LoggedOutAtOnce
<1>. QED
  BY StaffAlways, <1>1, PTL

\* A key that counts attempts expires, unless its worker was killed between the two
\* commands (RateLimiter).
THEOREM WindowsEnd == Spec => []WindowEnds
<1>1. (part = "RateLimits" => RL!IInv) => WindowEnds
  BY RatesEnough DEF WindowEnds
<1>. QED
  BY RatesAlways, <1>1, PTL

\* An answer out of a cache that is older than its data has one of the causes that the
\* properties of the two components name: for the permissions of a user and for the
\* reports, with any number of requests and processes, and although changes of the
\* reports' data that clear nothing come in between (invalidate_report_cache).
THEOREM CachesAreCurrent == Spec => []CachesKeepUp
<1>1. (part = "Permissions" => PE!IInv) => (part = "Permissions" => PE!ChangesTakeEffect)
  BY PermissionsEnough
<1>2. (part = "ReportCache" => RC!IInv) => (part = "ReportCache" => RC!ReportsKeepUp)
  BY ReportsEnough
<1>3. (part = "Permissions" => PE!IInv) /\ (part = "ReportCache" => RC!IInv) => CachesKeepUp
  BY <1>1, <1>2 DEF CachesKeepUp
<1>. QED
  BY PermissionsAlways, ReportsAlways, <1>3, PTL
==============================================================================
