-------------------------- MODULE OfficeTimesProofs --------------------------
(***************************************************************************)
(* Proofs about what is due at a time: document reminders, notification    *)
(* schedules, follow-ups and the call centre, laid out like                *)
(* OfficeRecordsProofs; and what takes several components together.        *)
(***************************************************************************)
EXTENDS OfficeRecordsProofs, OfficeAccessProofs

------------------------------------------------------------------------------
(* Reminders: v1 is day, v2 is step, v3 is joined, v4 is missing, v5 is     *)
(* logged, v6 is run, v7 is mails, v8 is twice.                             *)

RemindersCalendar == /\ v1 \in 0 .. Bound.days /\ v2 \in Steps
                     /\ v3 \in [Placed -> 0 .. Bound.days] /\ v4 \subseteq Placed
                     /\ v5 \in [Placed -> SUBSET (1 .. Bound.days)]
                     /\ v8 \subseteq Placed \X (1 .. Bound.days)

RemindersSound(r) == r \in RM!Run /\ r.now <= v1 /\ r.mail \subseteq v7 /\ \A m, n \in r.mail : m = n

RemindersRuns == DOMAIN v6 \subseteq Processes /\ \A p \in DOMAIN v6 : RemindersSound(v6[p])

LEMMA RemindersInvIs ==
  /\ RM!IInv <=> RemindersCalendar /\ v7 \subseteq RM!Mail /\ RemindersRuns /\ RM!MailsInGrace /\ RM!MailsKnown
  /\ RM!IInv' <=> RemindersCalendar' /\ (v7 \subseteq RM!Mail)' /\ RemindersRuns' /\ RM!MailsInGrace' /\ RM!MailsKnown'
<1>1. RM!IInv <=> RemindersCalendar /\ v7 \subseteq RM!Mail /\ RemindersRuns /\ RM!MailsInGrace /\ RM!MailsKnown
  BY DEF RM!IInv, RM!TypeOK, RemindersCalendar, RemindersRuns, RemindersSound, RM!MailsOfRuns
<1>2. RM!IInv' <=> RemindersCalendar' /\ (v7 \subseteq RM!Mail)' /\ RemindersRuns' /\ RM!MailsInGrace' /\ RM!MailsKnown'
  BY DEF RM!IInv, RM!TypeOK, RemindersCalendar, RemindersRuns, RemindersSound, RM!MailsOfRuns
<1>. QED
  BY <1>1, <1>2

\* Multiples of a number that differ, differ by it at least
LEMMA RemindersSentApart ==
  ASSUME NEW R \in Nat, NEW a \in Int, NEW b \in Int, a * R < b * R
  PROVE  b * R - a * R >= R
<1>1. a < b
  <2>. SUFFICES ASSUME a >= b PROVE FALSE
    OBVIOUS
  <2>. DEFINE d == a - b
  <2>1. d \in Nat /\ a = b + d
    OBVIOUS
  <2>2. d * R \in Nat /\ (b + d) * R = b * R + d * R
    BY <2>1
  <2>. QED
    BY <2>1, <2>2
<1>. DEFINE d == b - a - 1
<1>2. d \in Nat /\ b = a + d + 1
  BY <1>1
<1>3. d * R \in Nat /\ (a + d + 1) * R = a * R + d * R + R
  BY <1>2
<1>. QED
  BY <1>2, <1>3

\* The due day of a candidate whose days have come
LEMMA RemindersDueIs ==
  ASSUME RM!RemindersAssumption, NEW s \in Steps, NEW days \in 0 .. Bound.days, days >= s
  PROVE  LET k == (days - s) \div REPEAT_DAYS
             due == s + k * REPEAT_DAYS
         IN  k \in 0 .. Bound.days /\ due \in 1 .. Bound.days /\ due <= days
<1>. DEFINE e == days - s
            k == e \div REPEAT_DAYS
            R == REPEAT_DAYS
<1>1. R \in Nat \ {0} /\ s \in Nat \ {0} /\ Bound.days \in Nat /\ e \in Nat /\ e < Bound.days
  BY DEF RM!RemindersAssumption
<1>2. k \in Int /\ R * k <= e /\ e < R * (k + 1)
  BY <1>1
<1>3. k \in Nat
  <2>. SUFFICES ASSUME k + 1 <= 0 PROVE FALSE
    BY <1>2
  <2>. DEFINE j == 0 - (k + 1)
  <2>1. j \in Nat /\ k + 1 = 0 - j
    BY <1>2
  <2>2. R * j \in Nat /\ R * (0 - j) = 0 - R * j
    BY <1>1, <2>1
  <2>. QED
    BY <1>1, <1>2, <2>1, <2>2
<1>4. k * R = R * k /\ R * k \in Nat /\ k <= R * k
  <2>. DEFINE q == R - 1
  <2>1. q \in Nat /\ R = q + 1
    BY <1>1
  <2>2. q * k \in Nat /\ (q + 1) * k = q * k + k
    <3>1. \A m, n \in Nat : m * n \in Nat /\ (m + 1) * n = m * n + n
      OBVIOUS
    <3>. HIDE DEF q, k
    <3>. QED
      BY <1>3, <2>1, <3>1
  <2>. QED
    BY <1>1, <1>3, <2>1, <2>2
<1>. QED
  BY <1>1, <1>2, <1>3, <1>4

LEMMA RemindersFinishIs ==
  ASSUME NEW p \in DOMAIN v6, v6[p] \in RM!Run, NEW c \in Placed, RM!Finish(p, c)
  PROVE  /\ DOMAIN v6 \ {p} \subseteq DOMAIN v6' /\ DOMAIN v6' \subseteq DOMAIN v6
         /\ \A q \in DOMAIN v6 \ {p} : v6'[q] = v6[q]
         /\ p \in DOMAIN v6' => /\ v6'[p] \in RM!Run /\ v6'[p].now = v6[p].now
                                /\ v6'[p].seen = v6[p].seen /\ v6'[p].mail = {}
                                /\ v6'[p].left = v6[p].left \ {c}
<1>1. CASE v6[p].left = {c}
  BY <1>1 DEF RM!Finish
<1>2. CASE v6[p].left # {c}
  <2>. DEFINE new == [[v6[p] EXCEPT !.left = @ \ {c}] EXCEPT !.mail = {}]
  <2>1. v6' = [v6 EXCEPT ![p] = new]
    BY <1>2 DEF RM!Finish
  <2>2. /\ new \in RM!Run /\ new.now = v6[p].now /\ new.seen = v6[p].seen /\ new.mail = {}
        /\ new.left = v6[p].left \ {c}
    BY DEF RM!Run
  <2>. HIDE DEF new
  <2>. QED
    BY <2>1, <2>2
<1>. QED
  BY <1>1, <1>2

\* A run that is done with a candidate holds no mail and has less to do
LEMMA RemindersRunsAfter ==
  ASSUME RemindersRuns, NEW p \in DOMAIN v6, NEW c \in Placed, RM!Finish(p, c), UNCHANGED <<v1, v7>>
  PROVE  RemindersRuns'
<1>1. \A q \in DOMAIN v6 : q \in Processes /\ RemindersSound(v6[q])
  BY DEF RemindersRuns
<1>2. \A q \in DOMAIN v6' : q \in DOMAIN v6 /\ RemindersSound(v6'[q])
  BY <1>1, RemindersFinishIs DEF RemindersSound
<1>. QED
  BY <1>1, <1>2 DEF RemindersRuns, RemindersSound

LEMMA RemindersBegins ==
  ASSUME RM!RemindersAssumption, RM!Init
  PROVE  RM!IInv
BY RemindersInvIs DEF RM!Init, RM!RemindersAssumption, RemindersCalendar, RemindersRuns,
   RM!MailsInGrace, RM!MailsKnown

LEMMA RemindersStep ==
  ASSUME RM!RemindersAssumption, RM!IInv, [RM!Next]_RM!vars
  PROVE  RM!IInv'
<1>1. RemindersCalendar /\ v7 \subseteq RM!Mail /\ RemindersRuns /\ RM!MailsInGrace /\ RM!MailsKnown
  BY RemindersInvIs
<1>2. Bound.days \in Nat
  BY DEF RM!RemindersAssumption
<1>3. \A p \in DOMAIN v6 : p \in Processes /\ RemindersSound(v6[p])
  BY <1>1 DEF RemindersRuns
\* What the runs, the mails and the log are stays
<1>4. ASSUME UNCHANGED <<v5, v6, v7, v8>>, RemindersCalendar', v1' >= v1 PROVE RM!IInv'
  <2>1. RM!MailsInGrace' /\ RM!MailsKnown'
    BY <1>1, <1>4 DEF RM!MailsInGrace, RM!MailsKnown, RM!Held, RM!Known
  <2>2. RemindersRuns'
    BY <1>1, <1>3, <1>4, <1>2 DEF RemindersRuns, RemindersSound, RemindersCalendar, RM!Run
  <2>. QED
    BY <1>1, <1>4, <2>1, <2>2, RemindersInvIs
<1>5. ASSUME RM!Tick PROVE RM!IInv'
  BY <1>1, <1>2, <1>4, <1>5 DEF RM!Tick, RemindersCalendar
<1>6. ASSUME NEW n \in Steps, RM!SetStep(n) PROVE RM!IInv'
  BY <1>1, <1>2, <1>4, <1>6 DEF RM!SetStep, RemindersCalendar
<1>7. ASSUME NEW c \in Placed, RM!Join(c) PROVE RM!IInv'
  BY <1>1, <1>2, <1>4, <1>7 DEF RM!Join, RemindersCalendar
<1>8. ASSUME NEW c \in Placed, RM!SetMissing(c) PROVE RM!IInv'
  BY <1>1, <1>2, <1>4, <1>8 DEF RM!SetMissing, RemindersCalendar
<1>9. ASSUME NEW p \in Processes, RM!Start(p) PROVE RM!IInv'
  <2>1. /\ p \notin DOMAIN v6 /\ DOMAIN v6' = {p} \cup DOMAIN v6 /\ v6'[p] = RM!NewRun
        /\ \A q \in DOMAIN v6 : v6'[q] = v6[q]
        /\ UNCHANGED <<v1, v2, v3, v4, v5, v7, v8>>
    BY <1>9 DEF RM!Start
  <2>2. RemindersSound(RM!NewRun) /\ RM!NewRun.seen = v5 /\ RM!NewRun.mail = {}
    BY <1>1, <1>2 DEF RM!NewRun, RemindersSound, RM!Run, RemindersCalendar
  <2>3. RemindersRuns'
    BY <1>3, <2>1, <2>2 DEF RemindersRuns, RemindersSound
  <2>4. RemindersCalendar' /\ RM!MailsInGrace'
    BY <1>1, <2>1 DEF RemindersCalendar, RM!MailsInGrace
  <2>5. ASSUME NEW m \in v7 PROVE (RM!Held(m) => RM!Held(m)') /\ (RM!Known(m) => RM!Known(m)')
    BY <2>1, <2>2 DEF RM!Held, RM!Known
  <2>6. RM!MailsKnown'
    BY <1>1, <2>1, <2>5 DEF RM!MailsKnown
  <2>. QED
    BY <1>1, <2>1, <2>3, <2>4, <2>6, RemindersInvIs
<1>10. ASSUME NEW p \in Processes, RM!Fail(p) PROVE RM!IInv'
  <2>1. /\ p \in DOMAIN v6 /\ v6' = [q \in DOMAIN v6 \ {p} |-> v6[q]]
        /\ v8' = v8 \cup {<<m.cand, m.due>> : m \in v6[p].mail}
        /\ UNCHANGED <<v1, v2, v3, v4, v5, v7>>
    BY <1>10 DEF RM!Fail
  <2>2. RemindersRuns'
    BY <1>3, <2>1 DEF RemindersRuns, RemindersSound
  <2>3. \A m \in v6[p].mail : m.cand \in Placed /\ m.due \in 1 .. Bound.days
    BY <1>1, <1>3, <2>1 DEF RemindersSound, RM!Mail
  <2>4. RemindersCalendar' /\ RM!MailsInGrace'
    BY <1>1, <2>1, <2>3 DEF RemindersCalendar, RM!MailsInGrace
  <2>5. ASSUME NEW m \in v7 PROVE /\ RM!Held(m) => <<m.cand, m.due>> \in v8' \/ RM!Held(m)'
                                  /\ RM!Known(m) => RM!Known(m)'
    BY <2>1 DEF RM!Held, RM!Known
  <2>6. RM!MailsKnown'
    BY <1>1, <2>1, <2>5 DEF RM!MailsKnown
  <2>. QED
    BY <1>1, <2>1, <2>2, <2>4, <2>6, RemindersInvIs
<1>11. ASSUME NEW p \in Processes, NEW c \in Placed, RM!Pass(p, c) PROVE RM!IInv'
  <2>1. /\ p \in DOMAIN v6 /\ v6[p].mail = {} /\ RM!Finish(p, c)
        /\ UNCHANGED <<v1, v2, v3, v4, v5, v7, v8>>
    BY <1>11 DEF RM!Pass
  <2>2. RemindersRuns'
    BY <1>1, <2>1, RemindersRunsAfter
  <2>3. RemindersCalendar' /\ RM!MailsInGrace'
    BY <1>1, <2>1 DEF RemindersCalendar, RM!MailsInGrace
  <2>4. /\ \A q \in DOMAIN v6 : v6[q].mail # {} => q \in DOMAIN v6' /\ v6'[q] = v6[q]
        /\ \A q \in DOMAIN v6' : /\ q \in DOMAIN v6 /\ v6'[q].seen = v6[q].seen
                                 /\ v6'[q].left \subseteq v6[q].left
    BY <1>3, <2>1, RemindersFinishIs DEF RemindersSound
  <2>5. ASSUME NEW m \in v7 PROVE (RM!Held(m) => RM!Held(m)') /\ (RM!Known(m) => RM!Known(m)')
    BY <2>1, <2>4 DEF RM!Held, RM!Known
  <2>6. RM!MailsKnown'
    BY <1>1, <2>1, <2>5 DEF RM!MailsKnown
  <2>. QED
    BY <1>1, <2>1, <2>2, <2>3, <2>6, RemindersInvIs
<1>12. ASSUME NEW p \in Processes, NEW c \in Placed, RM!Send(p, c) PROVE RM!IInv'
  <2>. DEFINE m == [cand |-> c, due |-> RM!Due(p, c), joined |-> v3[c], step |-> v6[p].step,
                    now |-> v6[p].now]
              new == [v6[p] EXCEPT !.mail = {m}]
              k == (RM!Days(p, c) - v6[p].step) \div REPEAT_DAYS
  <2>1. /\ p \in DOMAIN v6 /\ v6[p].mail = {} /\ RM!ToSend(p, c)
        /\ v7' = v7 \cup {m} /\ v6' = [v6 EXCEPT ![p] = new]
        /\ v8' = v8 \/ v8' = v8 \cup {<<c, RM!Due(p, c)>>}
        /\ UNCHANGED <<v1, v2, v3, v4, v5>>
    BY <1>12 DEF RM!Send
  <2>2. /\ v6[p] \in RM!Run /\ v6[p].now \in 0 .. Bound.days /\ v6[p].step \in Steps
        /\ v3[c] \in 0 .. Bound.days /\ v6[p].now <= v1
    BY <1>1, <1>3, <2>1 DEF RemindersSound, RM!Run, RemindersCalendar
  <2>3. /\ RM!Days(p, c) = v6[p].now - v3[c] /\ RM!Days(p, c) >= v6[p].step
        /\ RM!Days(p, c) - RM!Due(p, c) < GRACE_DAYS
        /\ RM!Due(p, c) = v6[p].step + k * REPEAT_DAYS
    BY <2>1 DEF RM!ToSend, RM!Due, RM!Days, RM!InGrace
  <2>4. Steps \subseteq Nat /\ GRACE_DAYS \in Nat
    BY DEF RM!RemindersAssumption
  <2>5. RM!Days(p, c) \in 0 .. Bound.days
    <3>1. v6[p].step \in Nat
      BY <2>2, <2>4
    <3>. QED
      BY <1>2, <2>2, <2>3, <3>1
  <2>. HIDE DEF k
  <2>6. k \in 0 .. Bound.days /\ RM!Due(p, c) \in 1 .. Bound.days /\ RM!Due(p, c) <= RM!Days(p, c)
    BY <2>2, <2>3, <2>5, RemindersDueIs DEF k
  <2>7. m \in RM!Mail
    BY <2>2, <2>6 DEF RM!Mail
  <2>8. /\ m.cand = c /\ m.due = RM!Due(p, c) /\ m.joined = v3[c] /\ m.step = v6[p].step
        /\ m.now = v6[p].now
    OBVIOUS
  <2>. HIDE DEF m
  <2>9. /\ new \in RM!Run /\ new.mail = {m} /\ new.now = v6[p].now /\ new.left = v6[p].left
        /\ new.seen = v6[p].seen
    BY <2>1, <2>2, <2>7 DEF RM!Run
  <2>. HIDE DEF new
  <2>10. /\ DOMAIN v6' = DOMAIN v6 /\ v6'[p] = new
         /\ \A q \in DOMAIN v6 : q # p => v6'[q] = v6[q]
    BY <2>1
  <2>11. RemindersRuns'
    BY <1>3, <2>1, <2>2, <2>9, <2>10 DEF RemindersRuns, RemindersSound
  <2>12. RemindersCalendar'
    BY <1>1, <2>1, <2>6 DEF RemindersCalendar
  <2>13. m.now - m.joined - m.due \in 0 .. GRACE_DAYS - 1
    BY <1>2, <2>2, <2>3, <2>4, <2>6, <2>8
  <2>14. RM!MailsInGrace'
    BY <1>1, <2>1, <2>3, <2>6, <2>8, <2>13 DEF RM!MailsInGrace
  <2>15. ASSUME NEW n \in v7 PROVE (RM!Held(n) => RM!Held(n)') /\ (RM!Known(n) => RM!Known(n)')
    BY <2>1, <2>9, <2>10 DEF RM!Held, RM!Known
  <2>16. ASSUME NEW CONSTANT n, n = m PROVE RM!Held(n)'
    <3>1. p \in DOMAIN v6' /\ n \in v6'[p].mail
      BY <2>1, <2>9, <2>10, <2>16
    <3>. QED
      BY <3>1 DEF RM!Held
  <2>17. RM!MailsKnown'
    BY <1>1, <2>1, <2>15, <2>16 DEF RM!MailsKnown
  <2>. QED
    BY <1>1, <2>1, <2>7, <2>11, <2>12, <2>14, <2>17, RemindersInvIs
<1>13. ASSUME NEW p \in Processes, NEW m \in v7, RM!Record(p, m) PROVE RM!IInv'
  <2>1. /\ p \in DOMAIN v6 /\ m \in v6[p].mail /\ RM!Finish(p, m.cand)
        /\ v5' = [v5 EXCEPT ![m.cand] = @ \cup {m.due}]
        /\ v8' = v8 \/ v8' = v8 \cup {<<m.cand, m.due>>}
        /\ UNCHANGED <<v1, v2, v3, v4, v7>>
    BY <1>13 DEF RM!Record
  <2>2. m.cand \in Placed /\ m.due \in 1 .. Bound.days
    BY <1>1 DEF RM!Mail
  <2>3. RemindersRuns'
    BY <1>1, <2>1, <2>2, RemindersRunsAfter
  <2>4. RemindersCalendar' /\ RM!MailsInGrace'
    BY <1>1, <2>1, <2>2 DEF RemindersCalendar, RM!MailsInGrace
  <2>5. /\ DOMAIN v6 \ {p} \subseteq DOMAIN v6' /\ DOMAIN v6' \subseteq DOMAIN v6
        /\ \A q \in DOMAIN v6 \ {p} : v6'[q] = v6[q]
        /\ p \in DOMAIN v6' => /\ v6'[p].seen = v6[p].seen
                               /\ v6'[p].left = v6[p].left \ {m.cand}
    BY <1>3, <2>1, <2>2, RemindersFinishIs DEF RemindersSound
  <2>6. v5'[m.cand] = v5[m.cand] \cup {m.due} /\ \A c \in Placed : v5[c] \subseteq v5'[c]
    BY <1>1, <2>1, <2>2 DEF RemindersCalendar
  <2>7. ASSUME NEW n \in v7, RM!Known(n) PROVE RM!Known(n)'
    <3>1. n.cand \in Placed
      BY <1>1 DEF RM!Mail
    <3>. QED
      BY <2>5, <2>6, <2>7, <3>1 DEF RM!Known
  \* The mails that the run held are this one, and it is in the log now
  <2>8. ASSUME NEW n \in v7, RM!Held(n) PROVE <<n.cand, n.due>> \in v8' \/ RM!Held(n)' \/ RM!Known(n)'
    <3>1. PICK q \in DOMAIN v6 : \E x \in v6[q].mail : x.cand = n.cand /\ x.due = n.due
      BY <2>8 DEF RM!Held
    <3>2. CASE q # p
      BY <2>5, <3>1, <3>2 DEF RM!Held
    <3>3. CASE q = p
      <4>1. n.cand = m.cand /\ n.due = m.due
        BY <1>3, <2>1, <3>1, <3>3 DEF RemindersSound
      <4>2. CASE \E r \in DOMAIN v6 \ {p} : m.cand \in v6[r].left /\ m.due \notin v6[r].seen[m.cand]
        BY <1>13, <4>1, <4>2 DEF RM!Record
      <4>3. CASE \A r \in DOMAIN v6 \ {p} : m.cand \in v6[r].left => m.due \in v6[r].seen[m.cand]
        BY <2>5, <2>6, <4>1, <4>3 DEF RM!Known
      <4>. QED
        BY <4>2, <4>3
    <3>. QED
      BY <3>2, <3>3
  <2>9. RM!MailsKnown'
    BY <1>1, <2>1, <2>7, <2>8 DEF RM!MailsKnown
  <2>. QED
    BY <1>1, <2>1, <2>3, <2>4, <2>9, RemindersInvIs
<1>14. ASSUME UNCHANGED RM!vars PROVE RM!IInv'
  BY <1>1, <1>2, <1>4, <1>14 DEF RM!vars, RemindersCalendar
<1>. QED
  BY <1>5, <1>6, <1>7, <1>8, <1>9, <1>10, <1>11, <1>12, <1>13, <1>14 DEF RM!Next

\* The due days of the same series are repetitions of its period, and what is sent
\* late is less late than the grace
LEMMA RemindersEnough ==
  ASSUME RM!RemindersAssumption
  PROVE  RM!IInv => RM!RemindersApart
<1>. SUFFICES ASSUME RM!IInv, NEW m \in v7, NEW n \in v7,
                     m.joined = n.joined, m.step = n.step, m.due < n.due
              PROVE  n.now - m.now > REPEAT_DAYS - GRACE_DAYS
  BY DEF RM!RemindersApart
<1>1. v7 \subseteq RM!Mail /\ RM!MailsInGrace
  BY RemindersInvIs
<1>2. REPEAT_DAYS \in Nat /\ GRACE_DAYS \in Nat /\ Bound.days \in Nat /\ Steps \subseteq Nat
  BY DEF RM!RemindersAssumption
<1>3. /\ m.step \in Nat /\ m.joined \in Nat /\ m.now \in Nat /\ m.due \in Nat
      /\ n.now \in Nat /\ n.due \in Nat
  <2>1. m \in RM!Mail /\ n \in RM!Mail
    BY <1>1
  <2>2. \A x \in RM!Mail : x.step \in Steps /\ {x.joined, x.now, x.due} \subseteq 0 .. Bound.days
    BY <1>2 DEF RM!Mail
  <2>3. 0 .. Bound.days \subseteq Nat
    BY <1>2
  <2>. QED
    BY <1>2, <2>1, <2>2, <2>3
<1>4. /\ m.now - m.joined - m.due \in 0 .. GRACE_DAYS - 1
      /\ n.now - m.joined - n.due \in 0 .. GRACE_DAYS - 1
  BY <1>1 DEF RM!MailsInGrace
<1>5. PICK a \in 0 .. Bound.days : m.due = m.step + a * REPEAT_DAYS
  BY <1>1 DEF RM!MailsInGrace
<1>6. PICK b \in 0 .. Bound.days : n.due = m.step + b * REPEAT_DAYS
  BY <1>1 DEF RM!MailsInGrace
<1>7. n.due - m.due >= REPEAT_DAYS
  <2>. DEFINE x == a * REPEAT_DAYS
              y == b * REPEAT_DAYS
  <2>1. a \in Int /\ b \in Int /\ x \in Int /\ y \in Int
    BY <1>2
  <2>2. m.due = m.step + x /\ n.due = m.step + y
    BY <1>5, <1>6
  <2>3. x < y => y - x >= REPEAT_DAYS
    BY <1>2, <2>1, RemindersSentApart
  <2>. HIDE DEF x, y
  <2>. QED
    BY <1>2, <1>3, <2>1, <2>2, <2>3
<1>. QED
  BY <1>2, <1>3, <1>4, <1>7

\* Only Send fills a run's hands, with what its log does not hold
LEMMA RemindersSendsOnce ==
  ASSUME RM!RemindersAssumption, RM!IInv, RM!Next
  PROVE  RM!SentOnce
<1>. SUFFICES ASSUME NEW q \in DOMAIN v6', NEW x \in v6'[q].mail,
                     NEW n \in v7, n.cand = x.cand, n.due = x.due
              PROVE  <<x.cand, x.due>> \in v8' \/ \E p \in DOMAIN v6 : x \in v6[p].mail
  BY DEF RM!SentOnce
<1>1. RemindersCalendar /\ v7 \subseteq RM!Mail /\ RemindersRuns /\ RM!MailsKnown
  BY RemindersInvIs
<1>2. \A p \in DOMAIN v6 : p \in Processes /\ RemindersSound(v6[p])
  BY <1>1 DEF RemindersRuns
<1>3. ASSUME DOMAIN v6' \subseteq DOMAIN v6, \A p \in DOMAIN v6' : v6'[p].mail \subseteq v6[p].mail
      PROVE  \E p \in DOMAIN v6 : x \in v6[p].mail
  BY <1>3
<1>4. ASSUME NEW p \in DOMAIN v6, NEW c \in Placed, RM!Finish(p, c)
      PROVE  \E r \in DOMAIN v6 : x \in v6[r].mail
  <2>1. v6[p] \in RM!Run
    BY <1>2 DEF RemindersSound
  <2>. QED
    BY <1>3, <1>4, <2>1, RemindersFinishIs
<1>5. ASSUME NEW p \in Processes, NEW c \in Placed, RM!Send(p, c)
      PROVE  <<x.cand, x.due>> \in v8' \/ \E r \in DOMAIN v6 : x \in v6[r].mail
  <2>. DEFINE m == [cand |-> c, due |-> RM!Due(p, c), joined |-> v3[c], step |-> v6[p].step,
                    now |-> v6[p].now]
              new == [v6[p] EXCEPT !.mail = {m}]
  <2>1. /\ p \in DOMAIN v6 /\ c \in v6[p].left /\ RM!Due(p, c) \notin v6[p].seen[c]
        /\ v6' = [v6 EXCEPT ![p] = new]
        /\ (\E r \in DOMAIN v6, y \in v7 : y \in v6[r].mail /\ y.cand = c /\ y.due = RM!Due(p, c)) =>
             <<c, RM!Due(p, c)>> \in v8'
        /\ v8 \subseteq v8'
    BY <1>5 DEF RM!Send, RM!ToSend, RM!NotSent
  <2>2. m.cand = c /\ m.due = RM!Due(p, c)
    OBVIOUS
  <2>. HIDE DEF m
  <2>3. new.mail = {m}
    BY <1>2, <2>1 DEF RemindersSound, RM!Run
  <2>. HIDE DEF new
  <2>4. q \in DOMAIN v6 /\ (q # p => x \in v6[q].mail) /\ (q = p => x = m)
    BY <2>1, <2>3
  <2>5. ASSUME x = m PROVE <<x.cand, x.due>> \in v8'
    <3>1. ~RM!Known(n)
      BY <2>1, <2>2, <2>5 DEF RM!Known
    <3>2. CASE RM!Held(n)
      BY <1>2, <2>1, <2>2, <2>5, <3>2 DEF RM!Held, RemindersSound
    <3>. QED
      BY <1>1, <2>1, <2>2, <2>5, <3>1, <3>2 DEF RM!MailsKnown
  <2>. QED
    BY <2>4, <2>5
<1>6. ASSUME NEW p \in Processes, RM!Start(p) PROVE \E r \in DOMAIN v6 : x \in v6[r].mail
  BY <1>6 DEF RM!Start, RM!NewRun
<1>7. ASSUME NEW p \in Processes, NEW m \in v7, RM!Record(p, m) PROVE \E r \in DOMAIN v6 : x \in v6[r].mail
  BY <1>1, <1>4, <1>7 DEF RM!Record, RM!Mail
<1>8. ASSUME NEW p \in Processes, NEW c \in Placed, RM!Pass(p, c) PROVE \E r \in DOMAIN v6 : x \in v6[r].mail
  BY <1>4, <1>8 DEF RM!Pass
<1>9. ASSUME NEW p \in Processes, RM!Fail(p) PROVE \E r \in DOMAIN v6 : x \in v6[r].mail
  BY <1>9 DEF RM!Fail
<1>10. ASSUME UNCHANGED v6 PROVE \E r \in DOMAIN v6 : x \in v6[r].mail
  BY <1>10
<1>. QED
  BY <1>5, <1>6, <1>7, <1>8, <1>9, <1>10 DEF RM!Next, RM!Tick, RM!SetStep, RM!Join, RM!SetMissing

LEMMA RemindersMoves ==
  ASSUME [Next]_vars, part' = "Reminders"
  PROVE  part = "Reminders" /\ [RM!Next]_RM!vars
BY DEF Next, vars, RM!vars

LEMMA RemindersAlways == Spec => [](part = "Reminders" => RM!IInv)
<1>1. Init => (part = "Reminders" => RM!IInv)
  BY RemindersBegins, OfficeAssumption DEF Init
<1>2. (part = "Reminders" => RM!IInv) /\ [Next]_vars => (part = "Reminders" => RM!IInv)'
  BY RemindersStep, RemindersMoves, OfficeAssumption
<1>. QED
  BY <1>1, <1>2, PTL DEF Spec

------------------------------------------------------------------------------
(* Schedules: v1 is hour, v2 is template, v3 is rows, v4 is run, v5 is      *)
(* served, v6 is passed, v7 is again.                                       *)

\* The day of an hour
LEMMA SchedulesDayIs ==
  ASSUME SC!SchedulesAssumption
  PROVE  /\ \A h \in Int : SC!Day(h) \in Int
         /\ \A h \in Nat : SC!Day(h) \in Nat
         /\ \A g, h \in Int : g <= h => SC!Day(g) <= SC!Day(h)
<1>1. HOURS \in Nat \ {0}
  BY DEF SC!SchedulesAssumption
<1>2. \A h \in Int : SC!Day(h) \in Int /\ HOURS * SC!Day(h) <= h /\ h < HOURS * (SC!Day(h) + 1)
  BY <1>1 DEF SC!Day
<1>3. ASSUME NEW a \in Int, NEW b \in Int, HOURS * a < HOURS * (b + 1) PROVE a <= b
  <2>. SUFFICES ASSUME a > b PROVE FALSE
    OBVIOUS
  <2>. DEFINE e == a - (b + 1)
  <2>1. e \in Nat /\ a = (b + 1) + e
    OBVIOUS
  <2>2. HOURS * e \in Nat /\ HOURS * ((b + 1) + e) = HOURS * (b + 1) + HOURS * e
    BY <1>1, <2>1
  <2>3. HOURS * (b + 1) \in Int
    BY <1>1
  <2>. QED
    BY <1>3, <2>1, <2>2, <2>3
<1>4. ASSUME NEW g \in Int, NEW h \in Int, g <= h PROVE SC!Day(g) <= SC!Day(h)
  <2>1. HOURS * SC!Day(g) \in Int /\ HOURS * (SC!Day(h) + 1) \in Int
    BY <1>1, <1>2
  <2>2. HOURS * SC!Day(g) < HOURS * (SC!Day(h) + 1)
    BY <1>2, <1>4, <2>1
  <2>. QED
    BY <1>2, <1>3, <2>2
<1>5. ASSUME NEW h \in Nat PROVE SC!Day(h) \in Nat
  <2>1. HOURS * 0 = 0 /\ HOURS * (SC!Day(h) + 1) \in Int
    BY <1>1, <1>2
  <2>2. HOURS * 0 < HOURS * (SC!Day(h) + 1)
    BY <1>2, <2>1
  <2>. QED
    BY <1>2, <1>3, <2>2
<1>. QED
  BY <1>2, <1>4, <1>5

\* The instance has its own name for what FiniteSets defines
LEMMA SchedulesSizes ==
  /\ \A S : SC!Cardinality(S) = Cardinality(S)
  /\ \A S : SC!IsFiniteSet(S) <=> IsFiniteSet(S)
<1>1. ASSUME NEW S PROVE SC!Cardinality(S) = Cardinality(S)
  BY Zenon DEF SC!Cardinality, Cardinality
<1>2. ASSUME NEW S PROVE SC!IsFiniteSet(S) <=> IsFiniteSet(S)
  BY Zenon DEF SC!IsFiniteSet, IsFiniteSet
<1>. QED
  BY <1>1, <1>2

\* The month of an hour is the one that its day lies in
LEMMA SchedulesMonthIs ==
  ASSUME SC!SchedulesAssumption, NEW h \in 0 .. Bound.hours
  PROVE  /\ SC!Month(h) \in 1 .. MONTHS /\ SC!Day(h) \in Nat
         /\ FIRST_DAY[SC!Month(h)] \in Nat /\ FIRST_DAY[SC!Month(h) + 1] \in Nat
         /\ FIRST_DAY[SC!Month(h)] <= SC!Day(h) /\ SC!Day(h) < FIRST_DAY[SC!Month(h) + 1]
         /\ \A m \in 1 .. MONTHS :
              FIRST_DAY[m] <= SC!Day(h) /\ SC!Day(h) < FIRST_DAY[m + 1] => m = SC!Month(h)
<1>1. /\ Bound.hours \in Nat /\ MONTHS \in Nat /\ \A m \in 1 .. MONTHS + 1 : FIRST_DAY[m] \in Nat
      /\ \A m, n \in 1 .. MONTHS + 1 : m < n => FIRST_DAY[m] < FIRST_DAY[n]
      /\ \E m \in 1 .. MONTHS : FIRST_DAY[m] <= SC!Day(h) /\ SC!Day(h) < FIRST_DAY[m + 1]
  BY DEF SC!SchedulesAssumption, SC!Day
<1>2. SC!Month(h) \in 1 .. MONTHS /\ FIRST_DAY[SC!Month(h)] <= SC!Day(h) /\ SC!Day(h) < FIRST_DAY[SC!Month(h) + 1]
  BY <1>1 DEF SC!Month
<1>3. SC!Day(h) \in Nat
  BY <1>1, SchedulesDayIs
<1>4. ASSUME NEW m \in 1 .. MONTHS, NEW n \in 1 .. MONTHS, m < n,
             FIRST_DAY[n] <= SC!Day(h), SC!Day(h) < FIRST_DAY[m + 1]
      PROVE  FALSE
  <2>1. FIRST_DAY[m + 1] <= FIRST_DAY[n]
    BY <1>1, <1>4
  <2>2. FIRST_DAY[m + 1] \in Nat /\ FIRST_DAY[n] \in Nat
    BY <1>1
  <2>. QED
    BY <1>3, <1>4, <2>1, <2>2
<1>5. ASSUME NEW m \in 1 .. MONTHS, FIRST_DAY[m] <= SC!Day(h), SC!Day(h) < FIRST_DAY[m + 1]
      PROVE  m = SC!Month(h)
  <2>1. m < SC!Month(h) \/ SC!Month(h) < m \/ m = SC!Month(h)
    BY <1>1, <1>2
  <2>. QED
    BY <1>2, <1>4, <1>5, <2>1
<1>6. FIRST_DAY[SC!Month(h)] \in Nat /\ FIRST_DAY[SC!Month(h) + 1] \in Nat
  BY <1>1, <1>2
<1>. QED
  BY <1>2, <1>3, <1>5, <1>6

\* A month has days, and the day that is due is one of them
LEMMA SchedulesDueDayIs ==
  ASSUME SC!SchedulesAssumption, NEW h \in 0 .. Bound.hours, NEW row \in SC!Row
  PROVE  /\ SC!MonthLength(SC!Month(h)) \in Nat \ {0} /\ SC!DueDay(row, h) \in Nat
         /\ SC!DueDay(row, h) <= SC!MonthLength(SC!Month(h)) /\ SC!DayOfMonth(h) \in Int
         /\ row.frequency = "monthly" => SC!DueDay(row, h) >= 1
<1>1. SC!MonthLength(SC!Month(h)) \in Nat \ {0} /\ SC!DayOfMonth(h) \in Int
  BY SchedulesMonthIs DEF SC!MonthLength, SC!DayOfMonth
<1>2. row.day \in Nat /\ (row.frequency = "monthly" => row.day # 0)
  BY DEF SC!Row
<1>. QED
  BY <1>1, <1>2 DEF SC!DueDay

\* Another firing, another count of them
LEMMA SchedulesMoreFires ==
  ASSUME Fires \subseteq Nat, NEW g \in Nat, NEW h \in Nat, g <= h,
         NEW f \in Fires, g < f, f <= h
  PROVE  Cardinality({x \in Fires : x <= g}) # Cardinality({x \in Fires : x <= h})
<1>1. {x \in Fires : x <= h} \in SUBSET (0 .. h)
  <2>1. ASSUME NEW x \in Fires, x <= h PROVE x \in 0 .. h
    <3>1. x \in Nat
      OBVIOUS
    <3>. QED
      BY <2>1, <3>1
  <2>. QED
    BY <2>1
<1>2. IsFiniteSet({x \in Fires : x <= h})
  <2>1. IsFiniteSet(0 .. h)
    BY FS_Interval
  <2>. QED
    BY <1>1, <2>1, FS_Subset
<1>3. {x \in Fires : x <= g} \in SUBSET {x \in Fires : x <= h}
  <2>1. \A x \in Fires : x <= g => x <= h
    OBVIOUS
  <2>. QED
    BY <2>1
<1>4. f \in {x \in Fires : x <= h} /\ f \notin {x \in Fires : x <= g}
  OBVIOUS
<1>. QED
  BY <1>2, <1>3, <1>4, FS_Subset

\* What was sent is not due again in the same period
LEMMA SchedulesNoRepeat ==
  ASSUME SC!SchedulesAssumption, NEW row \in SC!Row, NEW g \in 0 .. Bound.hours, NEW h \in 0 .. Bound.hours,
         row.last_run_at <= h, g <= row.last_run_at,
         row.frequency = "monthly" => SC!DayOfMonth(g) >= SC!DueDay(row, g),
         SC!_is_due(row, h)
  PROVE  SC!Period(row, g) # SC!Period(row, h)
<1>. DEFINE last == row.last_run_at
<1>1. last \in Int /\ last # SC!Never /\ Bound.hours \in Nat /\ row.frequency \in SC!FREQUENCIES
  BY DEF SC!Row, SC!Never, SC!SchedulesAssumption
<1>2. SC!Day(g) \in Nat /\ SC!Day(h) \in Nat /\ SC!Day(last) \in Int /\ SC!Day(g) <= SC!Day(last) /\ SC!Day(last) <= SC!Day(h)
  BY <1>1, SchedulesDayIs
<1>3. CASE row.frequency = "daily" \/ row.frequency = "weekly"
  BY <1>1, <1>2, <1>3 DEF SC!_is_due, SC!Period
<1>4. CASE row.frequency = "monthly"
  <2>1. SC!MonthlyDue(row, h) /\ SC!Period(row, g) = SC!Month(g) /\ SC!Period(row, h) = SC!Month(h)
    BY <1>4 DEF SC!_is_due, SC!Period
  <2>2. SC!Day(last) < FIRST_DAY[SC!Month(h)] + SC!DueDay(row, h) - 1
    BY <1>1, <2>1 DEF SC!MonthlyDue
  <2>3. SC!Day(g) - FIRST_DAY[SC!Month(g)] + 1 >= SC!DueDay(row, g)
    BY <1>4 DEF SC!DayOfMonth
  <2>4. SC!Month(g) = SC!Month(h) => SC!DueDay(row, g) = SC!DueDay(row, h)
    BY DEF SC!DueDay
  <2>5. FIRST_DAY[SC!Month(h)] \in Nat /\ SC!DueDay(row, h) \in Nat
    BY SchedulesMonthIs, SchedulesDueDayIs
  <2>6. SUFFICES ASSUME SC!Month(g) = SC!Month(h) PROVE FALSE
    BY <2>1
  <2>7. SC!Day(g) - FIRST_DAY[SC!Month(h)] + 1 >= SC!DueDay(row, h)
    BY <2>3, <2>4, <2>6
  <2>. QED
    BY <1>2, <2>2, <2>5, <2>7
<1>5. CASE row.frequency = "custom"
  <2>1. PICK f \in Fires : last < f /\ f <= h
    BY <1>1, <1>5 DEF SC!_is_due, SC!CronDue
  <2>2. Fires \subseteq Nat
    BY DEF SC!SchedulesAssumption
  <2>3. g \in Nat /\ h \in Nat /\ f \in Nat
    BY <1>1, <2>2
  <2>4. g <= h /\ g < f
    BY <1>1, <2>1, <2>3
  <2>5. Cardinality({x \in Fires : x <= g}) # Cardinality({x \in Fires : x <= h})
    BY <2>1, <2>2, <2>3, <2>4, SchedulesMoreFires
  <2>. QED
    BY <1>5, <2>5, SchedulesSizes DEF SC!Period
<1>. QED
  BY <1>1, <1>3, <1>4, <1>5 DEF SC!FREQUENCIES

\* What is not due on the last day of a period ran in that period
LEMMA SchedulesNotDue ==
  ASSUME SC!SchedulesAssumption, NEW row \in SC!Row, NEW h \in 0 .. Bound.hours,
         row.last_run_at \in SC!Never .. h, ~SC!_is_due(row, h), row.frequency # "custom",
         row.frequency = "weekly" => SC!WeekDay(h) = row.day,
         row.frequency = "monthly" => SC!DayOfMonth(h) = SC!MonthLength(SC!Month(h))
  PROVE  row.last_run_at # SC!Never /\ SC!Period(row, row.last_run_at) = SC!Period(row, h)
<1>. DEFINE last == row.last_run_at
<1>1. last \in Int /\ last <= h /\ Bound.hours \in Nat /\ row.frequency \in SC!FREQUENCIES
  BY DEF SC!Row, SC!Never, SC!SchedulesAssumption
<1>2. CASE row.frequency = "daily" \/ row.frequency = "weekly"
  BY <1>2 DEF SC!_is_due, SC!Period
<1>3. CASE row.frequency = "monthly"
  <2>1. SC!DayOfMonth(h) >= SC!DueDay(row, h)
    BY <1>3, SchedulesDueDayIs
  <2>2. /\ last # SC!Never
        /\ SC!Day(last) = SC!Day(h) \/ ~(SC!Day(last) < FIRST_DAY[SC!Month(h)] + SC!DueDay(row, h) - 1)
    BY <1>3, <2>1 DEF SC!_is_due, SC!MonthlyDue
  <2>3. last \in 0 .. Bound.hours
    BY <1>1, <2>2 DEF SC!Never
  <2>4. SC!Day(last) \in Nat /\ SC!Day(last) <= SC!Day(h)
    BY <1>1, <2>3, SchedulesDayIs
  <2>5. SC!DueDay(row, h) \in Nat /\ SC!DueDay(row, h) >= 1
    BY <1>3, SchedulesDueDayIs
  <2>6. FIRST_DAY[SC!Month(h)] <= SC!Day(last) /\ SC!Day(last) < FIRST_DAY[SC!Month(h) + 1]
    BY <2>2, <2>4, <2>5, SchedulesMonthIs
  <2>7. SC!Month(last) = SC!Month(h)
    BY <2>3, <2>6, SchedulesMonthIs
  <2>. QED
    BY <1>3, <2>2, <2>7 DEF SC!Period
<1>. QED
  BY <1>1, <1>2, <1>3 DEF SC!FREQUENCIES

------------------------------------------------------------------------------

SchedulesTimes == /\ v1 \in 0 .. Bound.hours /\ v7 \subseteq TemplateSlots
                  /\ v5 \in [TemplateSlots -> SUBSET (0 .. v1)] /\ v6 \in [TemplateSlots -> SC!Never .. v1]

SchedulesRows == DOMAIN v3 \subseteq TemplateSlots
                 /\ \A s \in DOMAIN v3 : v3[s] \in SC!Row /\ v3[s].last_run_at \in SC!Never .. v1

SchedulesOneOf(r) == r.sending \subseteq r.left /\ \A s, t \in r.sending : s = t

SchedulesRuns == DOMAIN v4 \subseteq Processes
                 /\ \A p \in DOMAIN v4 : v4[p] \in SC!Run /\ v4[p].now <= v1 /\ SchedulesOneOf(v4[p])

SchedulesLone(s) ==
  \A p \in DOMAIN v4 : s \in v4[p].left =>
    /\ \A q \in DOMAIN v4 : s \in v4[q].left => q = p
    /\ v3[s].last_run_at <= v4[p].now
    /\ s \in v4[p].sending => v4[p].now \in v5[s]

SchedulesNoted(s) ==
  \A h \in v5[s] :
    /\ h <= v3[s].last_run_at \/ \E p \in DOMAIN v4 : s \in v4[p].sending /\ v4[p].now = h
    /\ v3[s].frequency = "monthly" => SC!DayOfMonth(h) >= SC!DueDay(v3[s], h)

SchedulesOnce(s) == \A g, h \in v5[s] : SC!Period(v3[s], g) = SC!Period(v3[s], h) => g = h

SchedulesLastDay(row, h) == /\ row.frequency = "weekly" => SC!WeekDay(h) = row.day
                            /\ row.frequency = "monthly" => SC!DayOfMonth(h) = SC!MonthLength(SC!Month(h))

SchedulesEvery(s) ==
  v3[s].frequency # "custom" /\ v6[s] # SC!Never /\ SchedulesLastDay(v3[s], v6[s]) =>
    \/ \E h \in v5[s] : SC!Period(v3[s], h) = SC!Period(v3[s], v6[s])
    \/ /\ v3[s].last_run_at # SC!Never
       /\ SC!Period(v3[s], v3[s].last_run_at) = SC!Period(v3[s], v6[s])

SchedulesGood(s) == SchedulesLone(s) /\ SchedulesNoted(s) /\ SchedulesOnce(s) /\ SchedulesEvery(s)

LEMMA SchedulesInvIs ==
  /\ SC!IInv <=> /\ SchedulesTimes /\ SchedulesRows /\ SchedulesRuns /\ v2 \in {"none", "active", "off"}
                 /\ \A s \in DOMAIN v3 \ v7 : SchedulesGood(s)
  /\ SC!IInv' <=> /\ SchedulesTimes' /\ SchedulesRows' /\ SchedulesRuns' /\ v2' \in {"none", "active", "off"}
                  /\ \A s \in DOMAIN v3' \ v7' : SchedulesGood(s)'
<1>1. /\ SC!TypeOK <=> SchedulesTimes /\ SchedulesRows /\ SchedulesRuns /\ v2 \in {"none", "active", "off"}
      /\ SC!TypeOK' <=> SchedulesTimes' /\ SchedulesRows' /\ SchedulesRuns' /\ v2' \in {"none", "active", "off"}
  <2>1. SC!TypeOK <=> SchedulesTimes /\ SchedulesRows /\ SchedulesRuns /\ v2 \in {"none", "active", "off"}
    BY DEF SC!TypeOK, SchedulesTimes, SchedulesRows, SchedulesRuns, SchedulesOneOf
  <2>2. SC!TypeOK' <=> SchedulesTimes' /\ SchedulesRows' /\ SchedulesRuns' /\ v2' \in {"none", "active", "off"}
    BY DEF SC!TypeOK, SchedulesTimes, SchedulesRows, SchedulesRuns, SchedulesOneOf
  <2>. QED
    BY <2>1, <2>2
<1>2. /\ SC!OneRunEach <=> \A s \in DOMAIN v3 \ v7 : SchedulesLone(s)
      /\ SC!OneRunEach' <=> \A s \in DOMAIN v3' \ v7' : SchedulesLone(s)'
  BY Zenon DEF SC!OneRunEach, SchedulesLone
<1>3. /\ SC!ServedNoted <=> \A s \in DOMAIN v3 \ v7 : SchedulesNoted(s)
      /\ SC!ServedNoted' <=> \A s \in DOMAIN v3' \ v7' : SchedulesNoted(s)'
  BY Zenon DEF SC!ServedNoted, SchedulesNoted
<1>4. /\ SC!OncePerPeriod <=> \A s \in DOMAIN v3 \ v7 : SchedulesOnce(s)
      /\ SC!OncePerPeriod' <=> \A s \in DOMAIN v3' \ v7' : SchedulesOnce(s)'
  BY Zenon DEF SC!OncePerPeriod, SchedulesOnce
<1>5. /\ SC!EveryPeriod <=> \A s \in DOMAIN v3 \ v7 : SchedulesEvery(s)
      /\ SC!EveryPeriod' <=> \A s \in DOMAIN v3' \ v7' : SchedulesEvery(s)'
  BY Zenon DEF SC!EveryPeriod, SchedulesEvery, SchedulesLastDay
<1>. QED
  BY <1>1, <1>2, <1>3, <1>4, <1>5 DEF SC!IInv, SchedulesGood

\* A row keeps what its periods depend on
SchedulesAlike(r, q) == r.frequency = q.frequency /\ r.day = q.day

LEMMA SchedulesAlikePeriods ==
  ASSUME NEW r, NEW q, SchedulesAlike(r, q)
  PROVE  \A h : /\ SC!Period(r, h) = SC!Period(q, h) /\ SC!DueDay(r, h) = SC!DueDay(q, h)
                /\ SchedulesLastDay(r, h) <=> SchedulesLastDay(q, h)
<1>1. r.frequency = q.frequency /\ r.day = q.day
  BY DEF SchedulesAlike
<1>2. \A h : SC!Period(r, h) = SC!Period(q, h)
  BY <1>1, Zenon DEF SC!Period
<1>3. \A h : SC!DueDay(r, h) = SC!DueDay(q, h)
  BY <1>1, Zenon DEF SC!DueDay
<1>4. \A h : SchedulesLastDay(r, h) <=> SchedulesLastDay(q, h)
  BY <1>1, Zenon DEF SchedulesLastDay
<1>. QED
  BY <1>2, <1>3, <1>4

\* What the runs do with a schedule stays: no new run has it to look at, and one that
\* is sending it goes on
SchedulesSameRuns(s) ==
  /\ \A p \in DOMAIN v4' : s \in v4'[p].left =>
       /\ p \in DOMAIN v4 /\ s \in v4[p].left /\ v4'[p].now = v4[p].now
       /\ s \in v4'[p].sending => s \in v4[p].sending
  /\ \A p \in DOMAIN v4 : s \in v4[p].sending =>
       p \in DOMAIN v4' /\ s \in v4'[p].sending /\ v4'[p].now = v4[p].now

LEMMA SchedulesKept ==
  ASSUME NEW s, SchedulesGood(s), SchedulesSameRuns(s), SchedulesAlike(v3[s], v3'[s]),
         v3'[s].last_run_at = v3[s].last_run_at,
         v5'[s] = v5[s], v6'[s] = v6[s]
  PROVE  SchedulesGood(s)'
<1>1. \A h : /\ SC!Period(v3'[s], h) = SC!Period(v3[s], h) /\ SC!DueDay(v3'[s], h) = SC!DueDay(v3[s], h)
             /\ SchedulesLastDay(v3'[s], h) <=> SchedulesLastDay(v3[s], h)
  BY SchedulesAlikePeriods
<1>2. v3'[s].frequency = v3[s].frequency
  BY DEF SchedulesAlike
<1>3. SchedulesLone(s)'
  BY DEF SchedulesGood, SchedulesLone, SchedulesSameRuns
<1>4. SchedulesNoted(s)'
  BY <1>1, <1>2 DEF SchedulesGood, SchedulesNoted, SchedulesSameRuns
<1>5. SchedulesOnce(s)'
  BY <1>1 DEF SchedulesGood, SchedulesOnce
<1>6. SchedulesEvery(s)'
  BY <1>1, <1>2 DEF SchedulesGood, SchedulesEvery
<1>. QED
  BY <1>3, <1>4, <1>5, <1>6 DEF SchedulesGood

LEMMA SchedulesFinishIs ==
  ASSUME NEW p \in DOMAIN v4, v4[p] \in SC!Run, NEW s \in TemplateSlots, SC!Finish(p, s)
  PROVE  /\ DOMAIN v4 \ {p} \subseteq DOMAIN v4' /\ DOMAIN v4' \subseteq DOMAIN v4
         /\ \A q \in DOMAIN v4 \ {p} : v4'[q] = v4[q]
         /\ p \in DOMAIN v4' => /\ v4'[p] \in SC!Run /\ v4'[p].now = v4[p].now
                                /\ v4'[p].left = v4[p].left \ {s} /\ v4'[p].sending = {}
         /\ p \notin DOMAIN v4' => v4[p].left = {s}
<1>1. CASE v4[p].left = {s}
  BY <1>1 DEF SC!Finish
<1>2. CASE v4[p].left # {s}
  <2>. DEFINE new == [[v4[p] EXCEPT !.left = @ \ {s}] EXCEPT !.sending = {}]
  <2>1. v4' = [v4 EXCEPT ![p] = new]
    BY <1>2 DEF SC!Finish
  <2>2. /\ new \in SC!Run /\ new.now = v4[p].now /\ new.sending = {} /\ new.left = v4[p].left \ {s}
    BY DEF SC!Run
  <2>. HIDE DEF new
  <2>. QED
    BY <2>1, <2>2
<1>. QED
  BY <1>1, <1>2

\* A run has nothing in the air but the schedule it is done with
LEMMA SchedulesRunsAfter ==
  ASSUME SchedulesRuns, NEW p \in DOMAIN v4, NEW s \in TemplateSlots, SC!Finish(p, s), v1' = v1,
         v4[p].sending \subseteq {s}
  PROVE  /\ SchedulesRuns' /\ \A t : t # s => SchedulesSameRuns(t)
         /\ \A q \in DOMAIN v4' : s \in v4'[q].left => q \in DOMAIN v4 \ {p} /\ v4'[q] = v4[q]
<1>1. \A q \in DOMAIN v4 : /\ q \in Processes /\ v4[q] \in SC!Run /\ v4[q].now <= v1
                           /\ SchedulesOneOf(v4[q])
  BY DEF SchedulesRuns, SchedulesOneOf
<1>2. /\ DOMAIN v4 \ {p} \subseteq DOMAIN v4' /\ DOMAIN v4' \subseteq DOMAIN v4
      /\ \A q \in DOMAIN v4 \ {p} : v4'[q] = v4[q]
      /\ p \in DOMAIN v4' => /\ v4'[p] \in SC!Run /\ v4'[p].now = v4[p].now
                             /\ v4'[p].left = v4[p].left \ {s} /\ v4'[p].sending = {}
  BY <1>1, SchedulesFinishIs
<1>3. SchedulesRuns'
  BY <1>1, <1>2 DEF SchedulesRuns, SchedulesOneOf
<1>4. \A t : t # s => SchedulesSameRuns(t)
  BY <1>2 DEF SchedulesSameRuns
<1>. QED
  BY <1>2, <1>3, <1>4

LEMMA SchedulesBegins ==
  ASSUME SC!SchedulesAssumption, SC!Init
  PROVE  SC!IInv
BY SchedulesInvIs DEF SC!Init, SC!SchedulesAssumption, SchedulesTimes, SchedulesRows,
   SchedulesRuns, SchedulesOneOf, SC!Never

\* Nothing was sent: rows go or are switched on or off
LEMMA SchedulesRowsChange ==
  ASSUME SC!IInv, UNCHANGED <<v1, v4, v5, v6, v7>>, v2' \in {"none", "active", "off"},
         DOMAIN v3' \subseteq DOMAIN v3,
         \A s \in DOMAIN v3' : /\ v3'[s] \in SC!Row /\ SchedulesAlike(v3[s], v3'[s])
                               /\ v3'[s].last_run_at = v3[s].last_run_at
  PROVE  SC!IInv'
<1>1. SchedulesTimes /\ SchedulesRows /\ SchedulesRuns /\ \A s \in DOMAIN v3 \ v7 : SchedulesGood(s)
  BY SchedulesInvIs
<1>2. SchedulesTimes' /\ SchedulesRows' /\ SchedulesRuns'
  BY <1>1 DEF SchedulesTimes, SchedulesRows, SchedulesRuns, SchedulesOneOf
<1>3. \A s : SchedulesSameRuns(s)
  BY DEF SchedulesSameRuns
<1>4. \A s \in DOMAIN v3' \ v7' : SchedulesGood(s)'
  BY <1>1, <1>3, SchedulesKept
<1>. QED
  BY <1>2, <1>4, SchedulesInvIs

LEMMA SchedulesStarts ==
  ASSUME SC!SchedulesAssumption, SC!IInv, NEW p \in Processes, SC!Start(p)
  PROVE  SC!IInv'
<1>. DEFINE found == {s \in DOMAIN v3 : v3[s].is_active}
            new == [left |-> found, now |-> v1, sending |-> {}]
<1>1. /\ SchedulesTimes /\ SchedulesRows /\ SchedulesRuns /\ v2 \in {"none", "active", "off"}
      /\ \A s \in DOMAIN v3 \ v7 : SchedulesGood(s)
  BY SchedulesInvIs
<1>2. /\ p \notin DOMAIN v4
      /\ v4' = [q \in {p} \cup DOMAIN v4 |-> IF q = p THEN new ELSE v4[q]]
      /\ v7' = IF DOMAIN v4 = {} THEN v7 ELSE TemplateSlots
      /\ UNCHANGED <<v1, v2, v3, v5, v6>>
  BY DEF SC!Start
<1>3. v1 \in Nat /\ found \subseteq TemplateSlots
  BY <1>1 DEF SchedulesTimes, SchedulesRows, SC!SchedulesAssumption
<1>4. new \in SC!Run /\ new.now = v1 /\ new.sending = {}
  BY <1>3 DEF SC!Run
<1>. HIDE DEF new
<1>5. DOMAIN v4' = {p} \cup DOMAIN v4 /\ v4'[p] = new /\ \A q \in DOMAIN v4 : v4'[q] = v4[q]
  BY <1>2
<1>6. SchedulesTimes'
  BY <1>1, <1>2 DEF SchedulesTimes
<1>7. SchedulesRows'
  BY <1>1, <1>2 DEF SchedulesRows
<1>8. SchedulesRuns'
  BY <1>1, <1>2, <1>3, <1>4, <1>5 DEF SchedulesRuns, SchedulesOneOf
<1>9. ASSUME NEW s \in DOMAIN v3 \ v7' PROVE SchedulesGood(s)'
  <2>1. DOMAIN v4 = {} /\ s \notin v7 /\ SchedulesGood(s) /\ v3[s].last_run_at \in SC!Never .. v1
    BY <1>1, <1>2, <1>9 DEF SchedulesRows
  <2>2. SchedulesLone(s)'
    BY <1>2, <1>3, <1>4, <1>5, <2>1 DEF SchedulesLone, SC!Never
  <2>3. SchedulesNoted(s)'
    BY <1>2, <2>1 DEF SchedulesGood, SchedulesNoted
  <2>4. SchedulesOnce(s)' /\ SchedulesEvery(s)'
    BY <1>2, <2>1 DEF SchedulesGood, SchedulesOnce, SchedulesEvery
  <2>. QED
    BY <2>2, <2>3, <2>4 DEF SchedulesGood
<1>. QED
  BY <1>1, <1>2, <1>6, <1>7, <1>8, <1>9, SchedulesInvIs

LEMMA SchedulesSkips ==
  ASSUME SC!SchedulesAssumption, SC!IInv, NEW p \in Processes, NEW s \in TemplateSlots, SC!Skip(p, s)
  PROVE  SC!IInv'
<1>1. /\ SchedulesTimes /\ SchedulesRows /\ SchedulesRuns /\ v2 \in {"none", "active", "off"}
      /\ \A t \in DOMAIN v3 \ v7 : SchedulesGood(t)
  BY SchedulesInvIs
<1>2. /\ p \in DOMAIN v4 /\ s \in v4[p].left /\ v4[p].sending = {} /\ SC!Finish(p, s)
      /\ s \in DOMAIN v3 => v2 # "active" \/ ~SC!_is_due(v3[s], v4[p].now)
      /\ v6' = IF v2 = "active" /\ s \in DOMAIN v3 THEN [v6 EXCEPT ![s] = v4[p].now] ELSE v6
      /\ UNCHANGED <<v1, v2, v3, v5, v7>>
  BY DEF SC!Skip
<1>3. /\ SchedulesRuns' /\ \A t : t # s => SchedulesSameRuns(t)
      /\ \A q \in DOMAIN v4' : s \in v4'[q].left => q \in DOMAIN v4 \ {p} /\ v4'[q] = v4[q]
  BY <1>1, <1>2, SchedulesRunsAfter
<1>4. v1 \in Nat /\ v1 <= Bound.hours /\ Bound.hours \in Nat /\ v4[p].now \in 0 .. v1
  BY <1>1, <1>2 DEF SchedulesTimes, SchedulesRuns, SC!Run, SC!SchedulesAssumption
<1>5. SchedulesTimes'
  BY <1>1, <1>2, <1>4 DEF SchedulesTimes, SC!Never
<1>6. SchedulesRows'
  BY <1>1, <1>2 DEF SchedulesRows
<1>7. ASSUME NEW t \in DOMAIN v3 \ v7, t # s PROVE SchedulesGood(t)'
  <2>1. v6'[t] = v6[t] /\ SchedulesAlike(v3[t], v3'[t])
    BY <1>1, <1>2, <1>7 DEF SchedulesTimes, SchedulesRows, SchedulesAlike
  <2>. QED
    BY <1>1, <1>2, <1>3, <1>7, <2>1, SchedulesKept
<1>8. ASSUME s \in DOMAIN v3 \ v7 PROVE SchedulesGood(s)'
  <2>1. SchedulesGood(s) /\ v3[s] \in SC!Row /\ v3[s].last_run_at \in SC!Never .. v1
    BY <1>1, <1>8 DEF SchedulesRows
  <2>2. \A q \in DOMAIN v4 : s \in v4[q].left => q = p
    BY <1>2, <2>1 DEF SchedulesGood, SchedulesLone
  <2>3. SchedulesLone(s)'
    BY <1>3, <2>2 DEF SchedulesLone
  <2>4. \A q \in DOMAIN v4 : s \notin v4[q].sending
    BY <1>1, <1>2, <2>2 DEF SchedulesRuns, SchedulesOneOf
  <2>5. SchedulesNoted(s)'
    BY <1>2, <2>1, <2>4 DEF SchedulesGood, SchedulesNoted
  <2>6. SchedulesOnce(s)'
    BY <1>2, <2>1 DEF SchedulesGood, SchedulesOnce
  <2>7. SchedulesEvery(s)'
    <3>1. CASE v6' = v6
      BY <1>2, <2>1, <3>1 DEF SchedulesGood, SchedulesEvery
    <3>2. CASE v2 = "active"
      <4>1. v6'[s] = v4[p].now /\ ~SC!_is_due(v3[s], v4[p].now)
        BY <1>1, <1>2, <1>8, <3>2 DEF SchedulesTimes
      <4>2. v3[s].last_run_at \in SC!Never .. v4[p].now /\ v4[p].now \in 0 .. Bound.hours
        BY <1>2, <1>4, <2>1 DEF SchedulesGood, SchedulesLone, SC!Never
      <4>3. v3[s].frequency # "custom" /\ SchedulesLastDay(v3[s], v4[p].now) =>
              v3[s].last_run_at # SC!Never /\ SC!Period(v3[s], v3[s].last_run_at) = SC!Period(v3[s], v4[p].now)
        BY <2>1, <4>1, <4>2, SchedulesNotDue DEF SchedulesLastDay
      <4>. QED
        BY <1>2, <4>1, <4>3 DEF SchedulesEvery
    <3>. QED
      BY <1>2, <3>1, <3>2
  <2>. QED
    BY <2>3, <2>5, <2>6, <2>7 DEF SchedulesGood
<1>. QED
  BY <1>1, <1>2, <1>3, <1>5, <1>6, <1>7, <1>8, SchedulesInvIs

LEMMA SchedulesSends ==
  ASSUME SC!SchedulesAssumption, SC!IInv, NEW p \in Processes, NEW s \in TemplateSlots, SC!Send(p, s)
  PROVE  SC!IInv'
<1>. DEFINE new == [v4[p] EXCEPT !.sending = {s}]
            now == v4[p].now
<1>1. /\ SchedulesTimes /\ SchedulesRows /\ SchedulesRuns /\ v2 \in {"none", "active", "off"}
      /\ \A t \in DOMAIN v3 \ v7 : SchedulesGood(t)
  BY SchedulesInvIs
<1>2. /\ p \in DOMAIN v4 /\ s \in v4[p].left /\ v4[p].sending = {}
      /\ s \in DOMAIN v3 /\ SC!_is_due(v3[s], now)
      /\ v4' = [v4 EXCEPT ![p] = new]
      /\ v5' = [v5 EXCEPT ![s] = @ \cup {now}]
      /\ UNCHANGED <<v1, v2, v3, v6, v7>>
  BY DEF SC!Send
<1>3. /\ v1 \in Nat /\ v1 <= Bound.hours /\ Bound.hours \in Nat /\ v4[p] \in SC!Run /\ now \in 0 .. v1
  BY <1>1, <1>2 DEF SchedulesTimes, SchedulesRuns, SC!Run, SC!SchedulesAssumption
<1>4. new \in SC!Run /\ new.now = now /\ new.left = v4[p].left /\ new.sending = {s}
  BY <1>3 DEF SC!Run
<1>. HIDE DEF new
<1>5. DOMAIN v4' = DOMAIN v4 /\ v4'[p] = new /\ \A q \in DOMAIN v4 : q # p => v4'[q] = v4[q]
  BY <1>2
<1>6. v5'[s] = v5[s] \cup {now} /\ \A t \in TemplateSlots : t # s => v5'[t] = v5[t]
  BY <1>1, <1>2 DEF SchedulesTimes
<1>7. SchedulesTimes'
  BY <1>1, <1>2, <1>3 DEF SchedulesTimes
<1>8. SchedulesRows'
  BY <1>1, <1>2 DEF SchedulesRows
<1>9. SchedulesRuns'
  BY <1>1, <1>2, <1>3, <1>4, <1>5 DEF SchedulesRuns, SchedulesOneOf
<1>10. ASSUME NEW t \in DOMAIN v3 \ v7, t # s PROVE SchedulesGood(t)'
  <2>1. t \in TemplateSlots /\ SchedulesAlike(v3[t], v3'[t])
    BY <1>1, <1>2 DEF SchedulesRows, SchedulesAlike
  <2>2. SchedulesSameRuns(t)
    BY <1>2, <1>4, <1>5, <1>10 DEF SchedulesSameRuns
  <2>. QED
    BY <1>1, <1>2, <1>6, <1>10, <2>1, <2>2, SchedulesKept
<1>11. ASSUME s \notin v7 PROVE SchedulesGood(s)'
  <2>1. /\ SchedulesGood(s) /\ v3[s] \in SC!Row /\ v3[s].last_run_at \in SC!Never .. v1
        /\ v3[s].last_run_at <= now
    BY <1>1, <1>2, <1>11 DEF SchedulesRows, SchedulesGood, SchedulesLone
  <2>2. \A q \in DOMAIN v4 : s \in v4[q].left => q = p
    BY <1>2, <2>1 DEF SchedulesGood, SchedulesLone
  <2>3. SchedulesLone(s)'
    BY <1>2, <1>4, <1>5, <1>6, <2>1, <2>2 DEF SchedulesLone
  <2>4. \A h \in v5[s] : h \in 0 .. Bound.hours /\ h <= v3[s].last_run_at
    <3>1. \A q \in DOMAIN v4 : s \notin v4[q].sending
      BY <1>1, <1>2, <2>2 DEF SchedulesRuns, SchedulesOneOf
    <3>2. \A h \in v5[s] : h \in 0 .. Bound.hours
      BY <1>1, <1>3 DEF SchedulesTimes
    <3>. QED
      BY <2>1, <3>1, <3>2 DEF SchedulesGood, SchedulesNoted
  <2>5. now \in 0 .. Bound.hours
    BY <1>3
  <2>6. \A h \in v5[s] : SC!Period(v3[s], h) # SC!Period(v3[s], now)
    BY <1>2, <2>1, <2>4, <2>5, SchedulesNoRepeat DEF SchedulesGood, SchedulesNoted
  <2>7. v3[s].frequency = "monthly" => SC!DayOfMonth(now) >= SC!DueDay(v3[s], now)
    BY <1>2 DEF SC!_is_due, SC!MonthlyDue
  <2>8. SchedulesNoted(s)'
    <3>1. ASSUME NEW h \in v5'[s]
          PROVE  /\ h <= v3[s].last_run_at \/ \E q \in DOMAIN v4' : s \in v4'[q].sending /\ v4'[q].now = h
                 /\ v3[s].frequency = "monthly" => SC!DayOfMonth(h) >= SC!DueDay(v3[s], h)
      <4>1. CASE h = now
        BY <1>2, <1>4, <1>5, <2>7, <4>1
      <4>2. CASE h \in v5[s]
        BY <2>1, <2>4, <4>2 DEF SchedulesGood, SchedulesNoted
      <4>. QED
        BY <1>6, <4>1, <4>2
    <3>. QED
      BY <1>2, <3>1 DEF SchedulesNoted
  <2>9. SchedulesOnce(s)'
    BY <1>2, <1>6, <2>1, <2>6 DEF SchedulesGood, SchedulesOnce
  <2>10. SchedulesEvery(s)'
    BY <1>2, <1>6, <2>1 DEF SchedulesGood, SchedulesEvery
  <2>. QED
    BY <2>3, <2>8, <2>9, <2>10 DEF SchedulesGood
<1>. QED
  BY <1>1, <1>2, <1>7, <1>8, <1>9, <1>10, <1>11, SchedulesInvIs

LEMMA SchedulesEnds ==
  ASSUME SC!SchedulesAssumption, SC!IInv, NEW p \in Processes, NEW s \in TemplateSlots, SC!Sent(p, s)
  PROVE  SC!IInv'
<1>. DEFINE new == [v3[s] EXCEPT !.last_run_at = v1]
<1>1. /\ SchedulesTimes /\ SchedulesRows /\ SchedulesRuns /\ v2 \in {"none", "active", "off"}
      /\ \A t \in DOMAIN v3 \ v7 : SchedulesGood(t)
  BY SchedulesInvIs
<1>2. /\ p \in DOMAIN v4 /\ s \in v4[p].sending /\ s \in DOMAIN v3 /\ SC!Finish(p, s)
      /\ v3' = [v3 EXCEPT ![s] = new]
      /\ v6' = [v6 EXCEPT ![s] = v4[p].now]
      /\ UNCHANGED <<v1, v2, v5, v7>>
  BY DEF SC!Sent
<1>0. v4[p].sending \subseteq {s}
  BY <1>1, <1>2 DEF SchedulesRuns, SchedulesOneOf
<1>3. /\ SchedulesRuns' /\ \A t : t # s => SchedulesSameRuns(t)
      /\ \A q \in DOMAIN v4' : s \in v4'[q].left => q \in DOMAIN v4 \ {p} /\ v4'[q] = v4[q]
  BY <1>0, <1>1, <1>2, SchedulesRunsAfter
<1>4. /\ v1 \in Nat /\ v1 <= Bound.hours /\ Bound.hours \in Nat /\ v4[p].now \in 0 .. v1
      /\ v3[s] \in SC!Row /\ s \in v4[p].left
  BY <1>1, <1>2 DEF SchedulesTimes, SchedulesRuns, SchedulesRows, SC!Run, SchedulesOneOf,
     SC!SchedulesAssumption
<1>5. new \in SC!Row /\ new.last_run_at = v1 /\ SchedulesAlike(v3[s], new)
  BY <1>4 DEF SC!Row, SchedulesAlike
<1>. HIDE DEF new
<1>6. DOMAIN v3' = DOMAIN v3 /\ v3'[s] = new /\ \A t \in DOMAIN v3 : t # s => v3'[t] = v3[t]
  BY <1>2
<1>7. SchedulesTimes'
  BY <1>1, <1>2, <1>4 DEF SchedulesTimes, SC!Never
<1>8. SchedulesRows'
  BY <1>1, <1>2, <1>4, <1>5, <1>6 DEF SchedulesRows, SC!Never
<1>9. ASSUME NEW t \in DOMAIN v3 \ v7, t # s PROVE SchedulesGood(t)'
  <2>1. v6'[t] = v6[t] /\ v3'[t] = v3[t] /\ SchedulesAlike(v3[t], v3'[t])
    BY <1>1, <1>2, <1>6, <1>9 DEF SchedulesTimes, SchedulesRows, SchedulesAlike
  <2>. QED
    BY <1>1, <1>2, <1>3, <1>9, <2>1, SchedulesKept
<1>10. ASSUME s \notin v7 PROVE SchedulesGood(s)'
  <2>1. SchedulesGood(s)
    BY <1>1, <1>2, <1>10
  <2>2. v4[p].now \in v5[s] /\ \A q \in DOMAIN v4 : s \in v4[q].left => q = p
    BY <1>2, <1>4, <2>1 DEF SchedulesGood, SchedulesLone
  <2>3. SchedulesLone(s)'
    BY <1>3, <2>2 DEF SchedulesLone
  <2>4. \A h : SC!Period(v3'[s], h) = SC!Period(v3[s], h) /\ SC!DueDay(v3'[s], h) = SC!DueDay(v3[s], h)
    BY <1>5, <1>6, SchedulesAlikePeriods
  <2>5. \A h \in v5[s] : h <= v1
    BY <1>1 DEF SchedulesTimes
  <2>6. v3'[s].frequency = v3[s].frequency
    BY <1>5, <1>6 DEF SchedulesAlike
  <2>7. SchedulesNoted(s)'
    BY <1>2, <1>5, <1>6, <2>1, <2>4, <2>5, <2>6 DEF SchedulesGood, SchedulesNoted
  <2>8. SchedulesOnce(s)'
    BY <1>2, <2>1, <2>4 DEF SchedulesGood, SchedulesOnce
  <2>9. SchedulesEvery(s)'
    <3>1. v6'[s] = v4[p].now
      BY <1>1, <1>2 DEF SchedulesTimes
    <3>. QED
      BY <1>2, <2>2, <3>1 DEF SchedulesEvery
  <2>. QED
    BY <2>3, <2>7, <2>8, <2>9 DEF SchedulesGood
<1>. QED
  BY <1>1, <1>2, <1>3, <1>6, <1>7, <1>8, <1>9, <1>10, SchedulesInvIs
\* A schedule is left as it was: it may run again
LEMMA SchedulesFails ==
  ASSUME SC!IInv, NEW p \in Processes, NEW s \in TemplateSlots, SC!Failed(p, s)
  PROVE  SC!IInv'
<1>1. /\ SchedulesTimes /\ SchedulesRows /\ SchedulesRuns /\ v2 \in {"none", "active", "off"}
      /\ \A t \in DOMAIN v3 \ v7 : SchedulesGood(t)
  BY SchedulesInvIs
<1>2. /\ p \in DOMAIN v4 /\ s \in v4[p].sending /\ SC!Finish(p, s)
      /\ v7' = v7 \cup {s} /\ UNCHANGED <<v1, v2, v3, v5, v6>>
  BY DEF SC!Failed
<1>3. v4[p].sending \subseteq {s}
  BY <1>1, <1>2 DEF SchedulesRuns, SchedulesOneOf
<1>4. SchedulesRuns' /\ \A t : t # s => SchedulesSameRuns(t)
  BY <1>1, <1>2, <1>3, SchedulesRunsAfter
<1>5. SchedulesTimes' /\ SchedulesRows'
  BY <1>1, <1>2 DEF SchedulesTimes, SchedulesRows
<1>6. \A t \in DOMAIN v3 \ v7' : t # s /\ SchedulesGood(t) /\ SchedulesAlike(v3[t], v3'[t])
  BY <1>1, <1>2 DEF SchedulesAlike
<1>7. \A t \in DOMAIN v3 \ v7' : SchedulesGood(t)'
  BY <1>2, <1>4, <1>6, SchedulesKept
<1>. QED
  BY <1>1, <1>2, <1>4, <1>5, <1>7, SchedulesInvIs

LEMMA SchedulesCrashes ==
  ASSUME SC!IInv, NEW p \in Processes, SC!Crash(p)
  PROVE  SC!IInv'
<1>1. /\ SchedulesTimes /\ SchedulesRows /\ SchedulesRuns /\ v2 \in {"none", "active", "off"}
      /\ \A t \in DOMAIN v3 \ v7 : SchedulesGood(t)
  BY SchedulesInvIs
<1>2. /\ p \in DOMAIN v4 /\ v4' = [q \in DOMAIN v4 \ {p} |-> v4[q]]
      /\ v7' = v7 \cup v4[p].left /\ UNCHANGED <<v1, v2, v3, v5, v6>>
  BY DEF SC!Crash
<1>3. v4[p].left \subseteq TemplateSlots /\ v4[p].sending \subseteq v4[p].left
  BY <1>1, <1>2 DEF SchedulesRuns, SchedulesOneOf, SC!Run
<1>4. SchedulesRuns' /\ \A t : t \notin v4[p].left => SchedulesSameRuns(t)
  BY <1>1, <1>2, <1>3 DEF SchedulesRuns, SchedulesSameRuns
<1>5. SchedulesTimes' /\ SchedulesRows'
  BY <1>1, <1>2, <1>3 DEF SchedulesTimes, SchedulesRows
<1>6. \A t \in DOMAIN v3 \ v7' : t \notin v4[p].left /\ SchedulesGood(t) /\ SchedulesAlike(v3[t], v3'[t])
  BY <1>1, <1>2 DEF SchedulesAlike
<1>7. \A t \in DOMAIN v3 \ v7' : SchedulesGood(t)'
  BY <1>2, <1>4, <1>6, SchedulesKept
<1>. QED
  BY <1>1, <1>2, <1>4, <1>5, <1>7, SchedulesInvIs

LEMMA SchedulesFormDaysAre ==
  ASSUME SC!SchedulesAssumption, NEW f \in SC!FREQUENCIES, NEW d \in SC!FormDays(f)
  PROVE  d \in Nat /\ (f = "monthly" => d # 0)
<1>1. CASE f = "weekly"
  BY <1>1 DEF SC!FormDays, SC!SchedulesAssumption
<1>2. CASE f = "monthly"
  <2>1. SC!FormDays(f) = UNION {1 .. SC!MonthLength(m) : m \in 1 .. MONTHS}
    BY <1>2 DEF SC!FormDays
  <2>2. PICK m \in 1 .. MONTHS : d \in 1 .. SC!MonthLength(m)
    BY <2>1
  <2>. QED
    BY <2>2
<1>3. CASE f # "weekly" /\ f # "monthly"
  <2>1. SC!FormDays(f) = {0}
    BY <1>3 DEF SC!FormDays
  <2>. QED
    BY <1>3, <2>1
<1>. QED
  BY <1>1, <1>2, <1>3

LEMMA SchedulesCreates ==
  ASSUME SC!SchedulesAssumption, SC!IInv, NEW s \in TemplateSlots, NEW f \in SC!FREQUENCIES, NEW active \in BOOLEAN,
         NEW d \in SC!FormDays(f), SC!Create(s, f, d, active)
  PROVE  SC!IInv'
<1>. DEFINE row == [frequency |-> f, is_active |-> active, last_run_at |-> SC!Never, day |-> d]
<1>1. /\ SchedulesTimes /\ SchedulesRows /\ SchedulesRuns /\ v2 \in {"none", "active", "off"}
      /\ \A t \in DOMAIN v3 \ v7 : SchedulesGood(t)
  BY SchedulesInvIs
<1>2. /\ s \notin DOMAIN v3 /\ \A p \in DOMAIN v4 : s \notin v4[p].left
      /\ v3' = [x \in {s} \cup DOMAIN v3 |-> IF x = s THEN row ELSE v3[x]]
      /\ v5' = [v5 EXCEPT ![s] = {}] /\ v6' = [v6 EXCEPT ![s] = SC!Never]
      /\ v7' = v7 \ {s} /\ UNCHANGED <<v1, v2, v4>>
  BY DEF SC!Create
<1>3. v1 \in Nat
  BY <1>1 DEF SchedulesTimes, SC!SchedulesAssumption
<1>4. row \in SC!Row /\ row.last_run_at = SC!Never
  BY SchedulesFormDaysAre DEF SC!Row, SC!Never
<1>. HIDE DEF row
<1>5. DOMAIN v3' = {s} \cup DOMAIN v3 /\ v3'[s] = row /\ \A t \in DOMAIN v3 : v3'[t] = v3[t]
  BY <1>2
<1>6. /\ v5'[s] = {} /\ v6'[s] = SC!Never
      /\ \A t \in TemplateSlots : t # s => v5'[t] = v5[t] /\ v6'[t] = v6[t]
  BY <1>1, <1>2 DEF SchedulesTimes
<1>7. SchedulesTimes'
  BY <1>1, <1>2, <1>3 DEF SchedulesTimes, SC!Never
<1>8. SchedulesRows'
  BY <1>1, <1>2, <1>3, <1>4, <1>5 DEF SchedulesRows, SC!Never
<1>9. SchedulesRuns'
  BY <1>1, <1>2 DEF SchedulesRuns
<1>10. ASSUME NEW t \in DOMAIN v3 \ v7 PROVE SchedulesGood(t)'
  <2>1. t \in TemplateSlots /\ t # s /\ v3'[t] = v3[t] /\ SchedulesAlike(v3[t], v3'[t]) /\ SchedulesGood(t)
    BY <1>1, <1>2, <1>5 DEF SchedulesRows, SchedulesAlike
  <2>2. SchedulesSameRuns(t)
    BY <1>2 DEF SchedulesSameRuns
  <2>. QED
    BY <1>6, <2>1, <2>2, SchedulesKept
<1>11. SchedulesGood(s)'
  BY <1>2, <1>6 DEF SchedulesGood, SchedulesLone, SchedulesNoted, SchedulesOnce, SchedulesEvery
<1>. QED
  BY <1>1, <1>2, <1>5, <1>7, <1>8, <1>9, <1>10, <1>11, SchedulesInvIs

LEMMA SchedulesStep ==
  ASSUME SC!SchedulesAssumption, SC!IInv, [SC!Next]_SC!vars
  PROVE  SC!IInv'
<1>1. /\ SchedulesTimes /\ SchedulesRows /\ SchedulesRuns /\ v2 \in {"none", "active", "off"}
      /\ \A t \in DOMAIN v3 \ v7 : SchedulesGood(t)
  BY SchedulesInvIs
<1>2. ASSUME NEW p \in Processes, SC!Start(p) \/ SC!Crash(p) PROVE SC!IInv'
  BY <1>2, SchedulesStarts, SchedulesCrashes
<1>3. ASSUME NEW p \in Processes, NEW s \in TemplateSlots, SC!Skip(p, s) \/ SC!Send(p, s) \/ SC!Sent(p, s) \/ SC!Failed(p, s)
      PROVE  SC!IInv'
  BY <1>3, SchedulesSkips, SchedulesSends, SchedulesEnds, SchedulesFails
<1>4. ASSUME NEW s \in TemplateSlots, NEW f \in SC!FREQUENCIES, NEW active \in BOOLEAN, NEW d \in SC!FormDays(f),
             SC!Create(s, f, d, active)
      PROVE  SC!IInv'
  BY <1>4, SchedulesCreates
<1>5. \A s \in DOMAIN v3 : v3[s] \in SC!Row /\ SchedulesAlike(v3[s], v3[s])
  BY <1>1 DEF SchedulesRows, SchedulesAlike
<1>6. ASSUME NEW s \in TemplateSlots, SC!Toggle(s) PROVE SC!IInv'
  <2>. DEFINE new == [v3[s] EXCEPT !.is_active = ~@]
  <2>1. /\ s \in DOMAIN v3 /\ v3' = [v3 EXCEPT ![s] = new]
        /\ UNCHANGED <<v1, v2, v4, v5, v6, v7>>
    BY <1>6 DEF SC!Toggle
  <2>2. new \in SC!Row /\ SchedulesAlike(v3[s], new) /\ new.last_run_at = v3[s].last_run_at
    BY <1>5, <2>1 DEF SC!Row, SchedulesAlike
  <2>. HIDE DEF new
  <2>3. DOMAIN v3' = DOMAIN v3 /\ v3'[s] = new /\ \A t \in DOMAIN v3 : t # s => v3'[t] = v3[t]
    BY <2>1
  <2>. QED
    BY <1>1, <1>5, <2>1, <2>2, <2>3, SchedulesRowsChange
<1>7. ASSUME NEW s \in TemplateSlots, SC!Delete(s) PROVE SC!IInv'
  BY <1>1, <1>5, <1>7, SchedulesRowsChange DEF SC!Delete
<1>8. ASSUME NEW state \in {"active", "off"}, SC!CreateTemplate(state) \/ SC!EditTemplate(state) PROVE SC!IInv'
  BY <1>1, <1>5, <1>8, SchedulesRowsChange DEF SC!CreateTemplate, SC!EditTemplate
<1>9. ASSUME SC!DeleteTemplate PROVE SC!IInv'
  BY <1>1, <1>9, SchedulesRowsChange DEF SC!DeleteTemplate
<1>10. ASSUME SC!Tick PROVE SC!IInv'
  <2>1. v1 < Bound.hours /\ v1' = v1 + 1 /\ UNCHANGED <<v2, v3, v4, v5, v6, v7>>
    BY <1>10 DEF SC!Tick
  <2>2. v1 \in Nat /\ Bound.hours \in Nat
    BY <1>1 DEF SchedulesTimes, SC!SchedulesAssumption
  <2>3. SchedulesTimes' /\ SchedulesRows' /\ SchedulesRuns'
    BY <1>1, <2>1, <2>2 DEF SchedulesTimes, SchedulesRows, SchedulesRuns, SC!Run, SC!Never
  <2>4. \A t : SchedulesSameRuns(t)
    BY <2>1 DEF SchedulesSameRuns
  <2>5. \A t \in DOMAIN v3 \ v7 : SchedulesGood(t)'
    BY <1>1, <1>5, <2>1, <2>4, SchedulesKept
  <2>. QED
    BY <1>1, <2>1, <2>3, <2>5, SchedulesInvIs
<1>11. ASSUME UNCHANGED SC!vars PROVE SC!IInv'
  BY <1>1, <1>5, <1>11, SchedulesRowsChange DEF SC!vars
<1>. QED
  BY <1>2, <1>3, <1>4, <1>6, <1>7, <1>8, <1>9, <1>10, <1>11 DEF SC!Next

LEMMA SchedulesEnough ==
  SC!IInv => SC!OncePerPeriod /\ SC!EveryPeriod
BY DEF SC!IInv

LEMMA SchedulesMoves ==
  ASSUME [Next]_vars, part' = "Schedules"
  PROVE  part = "Schedules" /\ [SC!Next]_SC!vars
BY DEF Next, vars, SC!vars

LEMMA SchedulesAlways == Spec => [](part = "Schedules" => SC!IInv)
<1>1. Init => (part = "Schedules" => SC!IInv)
  BY SchedulesBegins, OfficeAssumption DEF Init
<1>2. (part = "Schedules" => SC!IInv) /\ [Next]_vars => (part = "Schedules" => SC!IInv)'
  BY SchedulesStep, SchedulesMoves, OfficeAssumption
<1>. QED
  BY <1>1, <1>2, PTL DEF Spec

------------------------------------------------------------------------------
(* FollowUps: v1 is full_name, v2 is joining_date, v3 is today, v4 is       *)
(* checkpoints, v5 is notifications, v6 is made, v7 is work, v8 is raced.   *)

FollowUpsCalendar == v1 \in [Placed -> Names] /\ v2 \in [Placed -> 0 .. FU!NoDate] /\ v3 \in 0 .. Bound.today

FollowUpsRows == /\ v6 \in Nat /\ v8 \subseteq Placed
                 /\ v4 \subseteq FU!Checkpoint /\ v5 \subseteq FU!Notification
                 /\ \A x \in v4 : x.first <= v6
                 /\ \A x \in v5 : x.first <= v6

FollowUpsJobs == FU!Ensuring \cup {w \in FU!Syncing : w.new \subseteq w.left}

FollowUpsWorks == DOMAIN v7 \subseteq Requests /\ v7 \in [DOMAIN v7 -> FollowUpsJobs]

\* An e-mail a checkpoint: the title says whose name and which label
FollowUpsSameTold == \A m, n \in v5 : m.name = n.name /\ m.label = n.label => m.first = n.first

FollowUpsTellerAlone ==
  \A r \in DOMAIN v7 : FU!Telling(r) =>
    (\A k \in v7[r].new : ~FU!Told(k)) /\ \A q \in DOMAIN v7 : FU!Telling(q) => q = r

LEMMA FollowUpsJobIs ==
  ASSUME NEW w \in FollowUpsJobs
  PROVE  /\ w.does \in {"ensure", "sync"}
         /\ w.does = "ensure" => w.cand \in Placed
         /\ w.does = "sync" => /\ w.left \subseteq FU!Checkpoint /\ w.new \subseteq w.left
                               /\ \A k : LET x == [w EXCEPT !.left = @ \ {k}, !.new = {}]
                                         IN  x \in FollowUpsJobs /\ x.does = "sync" /\ x.new = {}
                               /\ \A k \in w.left : LET x == [w EXCEPT !.new = {k}]
                                         IN  x \in FollowUpsJobs /\ x.does = "sync" /\ x.new = {k}
BY DEF FollowUpsJobs, FU!Ensuring, FU!Syncing

LEMMA FollowUpsJobsAre ==
  /\ \A w \in FU!Ensuring : w \in FollowUpsJobs
  /\ \A w \in FU!Ensuring \cup FU!Syncing : w \in FollowUpsJobs <=> (w.does = "sync" => w.new \subseteq w.left)
BY DEF FollowUpsJobs, FU!Ensuring, FU!Syncing

LEMMA FollowUpsWorksAre ==
  /\ FollowUpsWorks <=> /\ DOMAIN v7 \subseteq Requests /\ v7 \in [DOMAIN v7 -> FU!Ensuring \cup FU!Syncing]
                        /\ \A r \in DOMAIN v7 : v7[r].does = "sync" => v7[r].new \subseteq v7[r].left
  /\ FollowUpsWorks' <=> /\ DOMAIN v7' \subseteq Requests /\ v7' \in [DOMAIN v7' -> FU!Ensuring \cup FU!Syncing]
                         /\ \A r \in DOMAIN v7' : v7'[r].does = "sync" => v7'[r].new \subseteq v7'[r].left
<1>1. FollowUpsJobs \subseteq FU!Ensuring \cup FU!Syncing
  BY DEF FollowUpsJobs
<1>. QED
  BY <1>1, FollowUpsJobsAre DEF FollowUpsWorks

LEMMA FollowUpsInvIs ==
  /\ FU!IInv <=> /\ FollowUpsCalendar /\ FollowUpsRows /\ FollowUpsWorks /\ FU!OneCheckpointEach /\ FU!FirstRows
                 /\ Placed \subseteq v8 \/ (FollowUpsSameTold /\ FollowUpsTellerAlone)
  /\ FU!IInv' <=> /\ FollowUpsCalendar' /\ FollowUpsRows' /\ FollowUpsWorks' /\ FU!OneCheckpointEach' /\ FU!FirstRows'
                  /\ (Placed \subseteq v8)' \/ (FollowUpsSameTold' /\ FollowUpsTellerAlone')
<1>1. FU!TypeOK <=> FollowUpsCalendar /\ FollowUpsRows /\ FollowUpsWorks
  BY FollowUpsWorksAre DEF FU!TypeOK, FollowUpsCalendar, FollowUpsRows
<1>2. FU!TypeOK' <=> FollowUpsCalendar' /\ FollowUpsRows' /\ FollowUpsWorks'
  BY FollowUpsWorksAre DEF FU!TypeOK, FollowUpsCalendar, FollowUpsRows
<1>. QED
  BY <1>1, <1>2 DEF FU!IInv, FU!FirstTold, FollowUpsSameTold, FollowUpsTellerAlone

LEMMA FollowUpsBeginIs ==
  ASSUME FollowUpsWorks, NEW r \in Requests \ DOMAIN v7, NEW w \in FollowUpsJobs, FU!Begin(r, w)
  PROVE  /\ FollowUpsWorks' /\ DOMAIN v7' = DOMAIN v7 \cup {r} /\ v7'[r] = w
         /\ \A q \in DOMAIN v7 : v7'[q] = v7[q] /\ q # r
BY DEF FollowUpsWorks, FU!Begin

LEMMA FollowUpsDropIs ==
  ASSUME FollowUpsWorks, NEW r \in DOMAIN v7, FU!Drop(r)
  PROVE  /\ FollowUpsWorks' /\ DOMAIN v7' = DOMAIN v7 \ {r}
         /\ \A q \in DOMAIN v7' : v7'[q] = v7[q]
BY DEF FollowUpsWorks, FU!Drop

LEMMA FollowUpsSetIs ==
  ASSUME FollowUpsWorks, NEW r \in DOMAIN v7, NEW w \in FollowUpsJobs, v7' = [v7 EXCEPT ![r] = w]
  PROVE  /\ FollowUpsWorks' /\ DOMAIN v7' = DOMAIN v7 /\ v7'[r] = w
         /\ \A q \in DOMAIN v7 : q # r => v7'[q] = v7[q]
BY DEF FollowUpsWorks

LEMMA FollowUpsStart ==
  ASSUME FU!FollowUpsAssumption, FU!Init
  PROVE  FU!IInv
<1>1. /\ v1 \in [Placed -> Names] /\ v2 = [c \in Placed |-> FU!NoDate]
      /\ v3 = 0 /\ v4 = {} /\ v5 = {} /\ v6 = 0
      /\ v7 = [r \in {} |-> {}] /\ v8 = {} /\ Bound.today \in Nat
  BY DEF FU!Init, FU!FollowUpsAssumption
<1>2. FollowUpsCalendar
  BY <1>1 DEF FollowUpsCalendar, FU!NoDate
<1>3. FollowUpsRows
  BY <1>1 DEF FollowUpsRows
<1>4. FollowUpsWorks /\ DOMAIN v7 = {}
  BY <1>1 DEF FollowUpsWorks
<1>. QED
  BY <1>1, <1>2, <1>3, <1>4, FollowUpsInvIs DEF FU!OneCheckpointEach, FU!FirstRows,
     FollowUpsSameTold, FollowUpsTellerAlone

LEMMA FollowUpsStep ==
  ASSUME FU!FollowUpsAssumption, FU!IInv, [FU!Next]_FU!vars
  PROVE  FU!IInv'
<1>1. /\ FollowUpsCalendar /\ FollowUpsRows /\ FollowUpsWorks /\ FU!OneCheckpointEach /\ FU!FirstRows
      /\ Placed \subseteq v8 \/ (FollowUpsSameTold /\ FollowUpsTellerAlone)
  BY FollowUpsInvIs
<1>2. /\ v2 \in [Placed -> 0 .. FU!NoDate] /\ v3 \in 0 .. Bound.today /\ Bound.today \in Nat
      /\ v1 \in [Placed -> Names]
  BY <1>1 DEF FollowUpsCalendar, FU!FollowUpsAssumption
<1>3. \A r \in DOMAIN v7 : r \in Requests /\ v7[r] \in FollowUpsJobs
  BY <1>1 DEF FollowUpsWorks
\* Only a request's part changes, which inserts nothing: it is not about to insert more
<1>4. ASSUME UNCHANGED <<v1, v4, v5, v6, v8>>, FollowUpsCalendar', FollowUpsWorks',
             \A r \in DOMAIN v7' : r \in DOMAIN v7 /\ (v7'[r] = v7[r] \/ (v7'[r].does = "sync" /\ v7'[r].new = {}))
      PROVE  FU!IInv'
  <2>1. FollowUpsRows' /\ FU!OneCheckpointEach' /\ FollowUpsSameTold' = FollowUpsSameTold
    BY <1>1, <1>4 DEF FollowUpsRows, FU!OneCheckpointEach, FollowUpsSameTold
  <2>2. FU!FirstRows'
    BY <1>1, <1>4 DEF FU!FirstRows, FU!RowsOf
  <2>3. FollowUpsTellerAlone => FollowUpsTellerAlone'
    BY <1>4 DEF FollowUpsTellerAlone, FU!Telling, FU!Told
  <2>. QED
    BY <1>1, <1>4, <2>1, <2>2, <2>3, FollowUpsInvIs
\* Only days change
<1>5. ASSUME UNCHANGED <<v1, v4, v5, v6, v7, v8>>, FollowUpsCalendar' PROVE FU!IInv'
  BY <1>1, <1>4, <1>5 DEF FollowUpsWorks
<1>6. ASSUME NEW c \in Placed, FU!Join(c) PROVE FU!IInv'
  <2>1. v2' = [v2 EXCEPT ![c] = v3]
        /\ UNCHANGED <<v1, v3, v4, v5, v6, v7, v8>>
    BY <1>6 DEF FU!Join
  <2>2. v3 \in 0 .. FU!NoDate
    BY <1>2 DEF FU!NoDate
  <2>3. v2' \in [Placed -> 0 .. FU!NoDate]
    BY <1>2, <2>1, <2>2
  <2>. QED
    BY <1>1, <1>5, <2>1, <2>3 DEF FollowUpsCalendar
<1>7. CASE FU!Tick
  <2>1. /\ v3 < Bound.today /\ v3' = v3 + 1
        /\ UNCHANGED <<v1, v2, v4, v5, v6, v7, v8>>
    BY <1>7 DEF FU!Tick
  <2>2. v3' \in 0 .. Bound.today
    BY <1>2, <2>1
  <2>. QED
    BY <1>1, <1>5, <2>1, <2>2 DEF FollowUpsCalendar
<1>8. ASSUME NEW r \in Requests, NEW c \in Placed, FU!Ensure(r, c) PROVE FU!IInv'
  <2>. DEFINE w == [does |-> "ensure", cand |-> c]
  <2>1. /\ r \in Requests \ DOMAIN v7 /\ FU!RowsOf(c) = {} /\ FU!Begin(r, w)
        /\ v8' = IF \E q \in DOMAIN v7 : v7[q].does = "ensure" /\ v7[q].cand = c
                 THEN v8 \cup {c} ELSE v8
        /\ UNCHANGED <<v1, v2, v3, v4, v5, v6>>
    BY <1>8 DEF FU!Ensure
  <2>2. w \in FollowUpsJobs /\ w.does = "ensure" /\ w.cand = c
    BY DEF FollowUpsJobs, FU!Ensuring
  <2>. HIDE DEF w
  <2>3. /\ FollowUpsWorks' /\ DOMAIN v7' = DOMAIN v7 \cup {r} /\ v7'[r] = w
        /\ \A q \in DOMAIN v7 : v7'[q] = v7[q] /\ q # r
    BY <1>1, <2>1, <2>2, FollowUpsBeginIs
  <2>4. v8 \subseteq v8' /\ v8' \subseteq Placed
    BY <1>1, <2>1 DEF FollowUpsRows
  <2>5. FollowUpsCalendar' /\ FollowUpsRows' /\ FU!OneCheckpointEach'
    BY <1>1, <2>1, <2>4 DEF FollowUpsCalendar, FollowUpsRows, FU!OneCheckpointEach
  <2>6. FU!FirstRows'
    <3>. SUFFICES ASSUME NEW s \in DOMAIN v7', v7'[s].does = "ensure", v7'[s].cand \notin v8'
                  PROVE  /\ FU!RowsOf(v7'[s].cand) = {}
                         /\ \A q \in DOMAIN v7' \ {s} : v7'[q].does = "ensure" => v7'[q].cand # v7'[s].cand
      BY <2>1 DEF FU!FirstRows, FU!RowsOf
    <3>1. CASE s = r
      BY <2>1, <2>2, <2>3, <3>1
    <3>2. CASE s # r
      <4>1. s \in DOMAIN v7 /\ v7'[s] = v7[s] /\ v7[s].cand \notin v8
        BY <2>3, <2>4, <3>2
      <4>2. v7[s].cand # c
        BY <2>1, <4>1
      <4>. QED
        BY <1>1, <2>2, <2>3, <4>1, <4>2 DEF FU!FirstRows
    <3>. QED
      BY <3>1, <3>2
  <2>7. FollowUpsSameTold /\ FollowUpsTellerAlone => FollowUpsSameTold' /\ FollowUpsTellerAlone'
    BY <2>1, <2>2, <2>3 DEF FollowUpsSameTold, FollowUpsTellerAlone, FU!Telling, FU!Told
  <2>. QED
    BY <1>1, <2>3, <2>4, <2>5, <2>6, <2>7, FollowUpsInvIs
<1>9. ASSUME NEW r \in Requests, FU!Insert(r) PROVE FU!IInv'
  <2>. DEFINE c == v7[r].cand
              new == {[cand |-> c, label |-> l, due_date |-> v2[c] + FOLLOW_UP_CHECKPOINTS[l],
                       first |-> v6 + 1, status |-> "pending"] : l \in FU!Labels}
  <2>1. /\ r \in DOMAIN v7 /\ v7[r].does = "ensure" /\ v6' = v6 + 1
        /\ v4' = v4 \cup new /\ FU!Drop(r)
        /\ UNCHANGED <<v1, v2, v3, v5, v8>>
    BY <1>9 DEF FU!Insert
  <2>2. c \in Placed
    BY <1>3, <2>1, FollowUpsJobIs
  <2>3. new \subseteq FU!Checkpoint /\ \A k \in new : k.cand = c /\ k.first = v6 + 1
    <3>1. \A l \in FU!Labels : v2[c] + FOLLOW_UP_CHECKPOINTS[l] \in Nat /\ v6 + 1 \in Nat
      BY <1>1, <1>2, <2>2 DEF FU!FollowUpsAssumption, FollowUpsRows, FU!NoDate
    <3>. QED
      BY <2>2, <3>1 DEF FU!Checkpoint, FU!STATUSES
  <2>. HIDE DEF new
  <2>4. FollowUpsWorks' /\ DOMAIN v7' = DOMAIN v7 \ {r} /\ \A q \in DOMAIN v7' : v7'[q] = v7[q]
    BY <1>1, <2>1, FollowUpsDropIs
  <2>. HIDE DEF c
  <2>5. FollowUpsCalendar' /\ FollowUpsRows'
    <3>1. \A x \in v4 \cup new : x.first <= v6 + 1
      BY <1>1, <2>3 DEF FollowUpsRows, FU!Checkpoint
    <3>2. \A x \in v5 : x.first <= v6 + 1
      BY <1>1 DEF FollowUpsRows, FU!Notification
    <3>. QED
      BY <1>1, <2>1, <2>3, <3>1, <3>2 DEF FollowUpsCalendar, FollowUpsRows
  <2>6. FU!OneCheckpointEach'
    <3>. SUFFICES ASSUME NEW k \in v4', NEW l \in v4', k.cand = l.cand, k.label = l.label,
                         k.first # l.first, k.cand \notin v8
                  PROVE  FALSE
      BY <2>1 DEF FU!OneCheckpointEach
    <3>1. CASE k.cand = c
      <4>1. FU!RowsOf(c) = {}
        BY <1>1, <2>1, <3>1 DEF FU!FirstRows, c
      <4>2. k \in new /\ l \in new
        BY <2>1, <3>1, <4>1 DEF FU!RowsOf
      <4>. QED
        BY <2>3, <4>2
    <3>2. CASE k.cand # c
      <4>1. k \in v4 /\ l \in v4
        BY <2>1, <2>3, <3>2
      <4>. QED
        BY <1>1, <4>1 DEF FU!OneCheckpointEach
    <3>. QED
      BY <3>1, <3>2
  <2>7. FU!FirstRows'
    <3>. SUFFICES ASSUME NEW s \in DOMAIN v7', v7'[s].does = "ensure", v7'[s].cand \notin v8'
                  PROVE  /\ {k \in v4' : k.cand = v7'[s].cand} = {}
                         /\ \A q \in DOMAIN v7' \ {s} : v7'[q].does = "ensure" => v7'[q].cand # v7'[s].cand
      BY DEF FU!FirstRows, FU!RowsOf
    <3>1. s \in DOMAIN v7 /\ s # r /\ v7'[s] = v7[s] /\ v7[s].cand \notin v8
      BY <2>1, <2>4
    <3>2. /\ FU!RowsOf(v7[s].cand) = {}
          /\ \A q \in DOMAIN v7 \ {s} : v7[q].does = "ensure" => v7[q].cand # v7[s].cand
      BY <1>1, <2>4, <3>1 DEF FU!FirstRows
    <3>3. v7[s].cand # c
      BY <2>1, <3>1, <3>2 DEF c
    <3>4. {k \in v4' : k.cand = v7[s].cand} = {}
      BY <2>1, <2>3, <3>2, <3>3 DEF FU!RowsOf
    <3>. QED
      BY <2>4, <3>1, <3>2, <3>4
  <2>8. FollowUpsSameTold /\ FollowUpsTellerAlone => FollowUpsSameTold' /\ FollowUpsTellerAlone'
    BY <2>1, <2>4 DEF FollowUpsSameTold, FollowUpsTellerAlone, FU!Telling, FU!Told
  <2>. QED
    BY <1>1, <2>1, <2>4, <2>5, <2>6, <2>7, <2>8, FollowUpsInvIs
\* Checkpoints are fewer, or say the same
<1>10. ASSUME UNCHANGED <<v1, v2, v3, v5, v6, v7, v8>>,
              v4' \subseteq FU!Checkpoint,
              \A k \in v4' : \E l \in v4 : k.cand = l.cand /\ k.label = l.label /\ k.first = l.first
       PROVE  FU!IInv'
  <2>1. FollowUpsCalendar' /\ FollowUpsRows' /\ FollowUpsWorks'
    BY <1>1, <1>10 DEF FollowUpsCalendar, FollowUpsRows, FollowUpsWorks
  <2>2. FU!OneCheckpointEach'
    <3>. SUFFICES ASSUME NEW k \in v4', NEW l \in v4', k.cand = l.cand, k.label = l.label,
                         k.first # l.first
                  PROVE  k.cand \in v8
      BY <1>10 DEF FU!OneCheckpointEach
    <3>1. PICK m \in v4 : k.cand = m.cand /\ k.label = m.label /\ k.first = m.first
      BY <1>10
    <3>2. PICK n \in v4 : l.cand = n.cand /\ l.label = n.label /\ l.first = n.first
      BY <1>10
    <3>. QED
      BY <1>1, <3>1, <3>2 DEF FU!OneCheckpointEach
  <2>3. FU!FirstRows'
    <3>1. \A c : FU!RowsOf(c) = {} => FU!RowsOf(c)' = {}
      BY <1>10 DEF FU!RowsOf
    <3>2. \A r \in DOMAIN v7 : FU!RowsOf(v7[r].cand) = {} => FU!RowsOf(v7[r].cand)' = {}
      BY <1>10 DEF FU!RowsOf
    <3>. QED
      BY <1>1, <1>10, <3>2 DEF FU!FirstRows
  <2>4. FollowUpsSameTold /\ FollowUpsTellerAlone => FollowUpsSameTold' /\ FollowUpsTellerAlone'
    BY <1>10 DEF FollowUpsSameTold, FollowUpsTellerAlone, FU!Telling, FU!Told
  <2>. QED
    BY <1>1, <1>10, <2>1, <2>2, <2>3, <2>4, FollowUpsInvIs
<1>11. ASSUME NEW k \in v4, NEW status \in FU!STATUSES, FU!Update(k, status) PROVE FU!IInv'
  <2>. DEFINE l == [k EXCEPT !.status = status]
  <2>1. v4' = (v4 \ {k}) \cup {l}
        /\ UNCHANGED <<v1, v2, v3, v5, v6, v7, v8>>
    BY <1>11 DEF FU!Update
  <2>2. k \in FU!Checkpoint
    BY <1>1 DEF FollowUpsRows
  <2>3. l \in FU!Checkpoint /\ l.cand = k.cand /\ l.label = k.label /\ l.first = k.first
    BY <2>2 DEF FU!Checkpoint
  <2>. HIDE DEF l
  <2>4. v4' \subseteq FU!Checkpoint
    BY <1>1, <2>1, <2>3 DEF FollowUpsRows
  <2>5. \A m \in v4' : \E n \in v4 : m.cand = n.cand /\ m.label = n.label /\ m.first = n.first
    BY <2>1, <2>3
  <2>. QED
    BY <1>10, <2>1, <2>4, <2>5
<1>12. ASSUME NEW k \in v4, FU!Delete(k) PROVE FU!IInv'
  <2>1. v4' = v4 \ {k}
        /\ UNCHANGED <<v1, v2, v3, v5, v6, v7, v8>>
    BY <1>12 DEF FU!Delete
  <2>2. v4' \subseteq FU!Checkpoint
    BY <1>1, <2>1 DEF FollowUpsRows
  <2>3. \A m \in v4' : \E n \in v4 : m.cand = n.cand /\ m.label = n.label /\ m.first = n.first
    BY <2>1
  <2>. QED
    BY <1>10, <2>1, <2>2, <2>3
<1>13. ASSUME NEW r \in Requests, FU!Sync(r) PROVE FU!IInv'
  <2>. DEFINE overdue == {k \in v4 : k.status = "pending" /\ k.due_date < v3}
              w == [does |-> "sync", left |-> overdue, new |-> {}]
  <2>1. /\ r \in Requests \ DOMAIN v7 /\ FU!Begin(r, w)
        /\ UNCHANGED <<v1, v2, v3, v4, v5, v6, v8>>
    BY <1>13 DEF FU!Sync
  <2>2. overdue \in SUBSET FU!Checkpoint
    BY <1>1 DEF FollowUpsRows
  <2>. HIDE DEF overdue
  <2>3. w \in FollowUpsJobs /\ w.does = "sync" /\ w.new = {}
    BY <2>2 DEF FollowUpsJobs, FU!Syncing
  <2>. HIDE DEF w
  <2>4. /\ FollowUpsWorks' /\ DOMAIN v7' = DOMAIN v7 \cup {r} /\ v7'[r] = w
        /\ \A q \in DOMAIN v7 : v7'[q] = v7[q] /\ q # r
    BY <1>1, <2>1, <2>3, FollowUpsBeginIs
  <2>5. FollowUpsCalendar' /\ FollowUpsRows' /\ FU!OneCheckpointEach'
    BY <1>1, <2>1 DEF FollowUpsCalendar, FollowUpsRows, FU!OneCheckpointEach
  <2>6. FU!FirstRows'
    BY <1>1, <2>1, <2>3, <2>4 DEF FU!FirstRows, FU!RowsOf
  <2>7. FollowUpsSameTold /\ FollowUpsTellerAlone => FollowUpsSameTold' /\ FollowUpsTellerAlone'
    BY <2>1, <2>3, <2>4 DEF FollowUpsSameTold, FollowUpsTellerAlone, FU!Telling, FU!Told
  <2>. QED
    BY <1>1, <2>1, <2>4, <2>5, <2>6, <2>7, FollowUpsInvIs
\* The next one: who syncs is not telling
<1>14. ASSUME NEW r \in DOMAIN v7, v7[r].does = "sync", NEW k, FU!Next1(r, k)
       PROVE  /\ FollowUpsWorks' /\ r \in Requests
              /\ \A q \in DOMAIN v7' : q \in DOMAIN v7 /\ (q # r => v7'[q] = v7[q])
              /\ r \in DOMAIN v7' => v7'[r].does = "sync" /\ v7'[r].new = {}
  <2>. DEFINE w == [v7[r] EXCEPT !.left = @ \ {k}, !.new = {}]
  <2>1. w \in FollowUpsJobs /\ w.does = "sync" /\ w.new = {}
    BY <1>3, <1>14, FollowUpsJobIs
  <2>2. CASE FU!Drop(r)
    BY <1>1, <1>3, <2>2, FollowUpsDropIs
  <2>3. CASE v7' = [v7 EXCEPT ![r] = w]
    <3>. HIDE DEF w
    <3>. QED
      BY <1>1, <1>3, <2>1, <2>3, FollowUpsSetIs
  <2>4. FU!Drop(r) \/ v7' = [v7 EXCEPT ![r] = w]
    BY <1>14 DEF FU!Next1
  <2>. QED
    BY <2>2, <2>3, <2>4
<1>15. ASSUME NEW r \in Requests, NEW k, FU!Skip(r, k) PROVE FU!IInv'
  <2>1. /\ r \in DOMAIN v7 /\ v7[r].does = "sync" /\ FU!Next1(r, k)
        /\ UNCHANGED <<v1, v2, v3, v4, v5, v6, v8>>
    BY <1>15 DEF FU!Skip
  <2>2. /\ FollowUpsWorks' /\ \A q \in DOMAIN v7' : q \in DOMAIN v7 /\ (q # r => v7'[q] = v7[q])
        /\ r \in DOMAIN v7' => v7'[r].does = "sync" /\ v7'[r].new = {}
    BY <1>14, <2>1
  <2>3. FollowUpsCalendar'
    BY <1>1, <2>1 DEF FollowUpsCalendar
  <2>. QED
    BY <1>4, <2>1, <2>2, <2>3
<1>16. ASSUME NEW r \in Requests, NEW k, FU!NotTold(r, k) PROVE FU!IInv'
  <2>. DEFINE w == [v7[r] EXCEPT !.new = {k}]
  <2>1. /\ r \in DOMAIN v7 /\ v7[r].does = "sync" /\ k \in v7[r].left /\ ~FU!Told(k)
        /\ v7' = [v7 EXCEPT ![r] = w]
        /\ v8' = IF \E q \in DOMAIN v7 : FU!Telling(q) THEN Placed ELSE v8
        /\ UNCHANGED <<v1, v2, v3, v4, v5, v6>>
    BY <1>16 DEF FU!NotTold, FU!Telling
  <2>2. w \in FollowUpsJobs /\ w.does = "sync" /\ w.new = {k}
    BY <1>3, <2>1, FollowUpsJobIs
  <2>. HIDE DEF w
  <2>3. /\ FollowUpsWorks' /\ DOMAIN v7' = DOMAIN v7 /\ v7'[r] = w
        /\ \A q \in DOMAIN v7 : q # r => v7'[q] = v7[q]
    BY <1>1, <2>1, <2>2, FollowUpsSetIs
  <2>4. v8 \subseteq v8' /\ v8' \subseteq Placed
    BY <1>1, <2>1 DEF FollowUpsRows
  <2>5. FollowUpsCalendar' /\ FollowUpsRows' /\ FU!OneCheckpointEach'
    BY <1>1, <2>1, <2>4 DEF FollowUpsCalendar, FollowUpsRows, FU!OneCheckpointEach
  <2>6. FU!FirstRows'
    BY <1>1, <2>1, <2>2, <2>3, <2>4 DEF FU!FirstRows, FU!RowsOf
  <2>7. FollowUpsSameTold' = FollowUpsSameTold
    BY <2>1 DEF FollowUpsSameTold
  <2>8. CASE \E q \in DOMAIN v7 : FU!Telling(q)
    <3>1. (Placed \subseteq v8)'
      BY <2>1, <2>8
    <3>. QED
      BY <2>3, <2>5, <2>6, <3>1, FollowUpsInvIs
  <2>9. CASE ~\E q \in DOMAIN v7 : FU!Telling(q)
    <3>1. \A q \in DOMAIN v7' : FU!Telling(q)' => q = r
      BY <2>3, <2>9 DEF FU!Telling
    <3>2. \A x \in v7'[r].new : ~FU!Told(x)'
      BY <2>1, <2>2, <2>3 DEF FU!Told
    <3>3. FollowUpsTellerAlone'
      BY <3>1, <3>2 DEF FollowUpsTellerAlone
    <3>. QED
      BY <1>1, <2>3, <2>4, <2>5, <2>6, <2>7, <3>3, FollowUpsInvIs
  <2>. QED
    BY <2>8, <2>9
<1>17. ASSUME NEW r \in Requests, NEW k, FU!Tell(r, k) PROVE FU!IInv'
  <2>. DEFINE n == [name |-> v1[k.cand], label |-> k.label, cand |-> k.cand, is_read |-> FALSE,
                    first |-> v6 + 1]
  <2>1. /\ r \in DOMAIN v7 /\ v7[r].does = "sync" /\ k \in v7[r].new /\ v6' = v6 + 1
        /\ v5' = v5 \cup {n} /\ FU!Next1(r, k)
        /\ UNCHANGED <<v1, v2, v3, v4, v8>>
    BY <1>17 DEF FU!Tell
  <2>2. k \in FU!Checkpoint
    BY <1>3, <2>1, FollowUpsJobIs
  <2>3. /\ n \in FU!Notification /\ n.first = v6 + 1 /\ n.name = v1[k.cand] /\ n.label = k.label
    BY <1>1, <1>2, <2>2 DEF FU!Checkpoint, FU!Notification, FollowUpsRows
  <2>. HIDE DEF n
  <2>4. /\ FollowUpsWorks' /\ \A q \in DOMAIN v7' : q \in DOMAIN v7 /\ (q # r => v7'[q] = v7[q])
        /\ r \in DOMAIN v7' => v7'[r].does = "sync" /\ v7'[r].new = {}
    BY <1>14, <2>1
  <2>5. FollowUpsCalendar' /\ FU!OneCheckpointEach'
    BY <1>1, <2>1 DEF FollowUpsCalendar, FU!OneCheckpointEach
  <2>6. FollowUpsRows'
    <3>1. \A x \in v5 \cup {n} : x.first <= v6 + 1
      BY <1>1, <2>3 DEF FollowUpsRows, FU!Notification
    <3>2. \A x \in v4 : x.first <= v6 + 1
      BY <1>1 DEF FollowUpsRows, FU!Checkpoint
    <3>. QED
      BY <1>1, <2>1, <2>3, <3>1, <3>2 DEF FollowUpsRows
  <2>7. FU!FirstRows'
    BY <1>1, <2>1, <2>4 DEF FU!FirstRows, FU!RowsOf
  <2>8. ASSUME FollowUpsSameTold, FollowUpsTellerAlone PROVE FollowUpsSameTold' /\ FollowUpsTellerAlone'
    <3>1. ~FU!Told(k) /\ \A q \in DOMAIN v7 : FU!Telling(q) => q = r
      BY <2>1, <2>8 DEF FollowUpsTellerAlone, FU!Telling
    <3>2. \A m \in v5 : ~(m.name = n.name /\ m.label = n.label)
      BY <2>3, <3>1 DEF FU!Told
    <3>3. FollowUpsSameTold'
      BY <2>1, <2>8, <3>2 DEF FollowUpsSameTold
    <3>4. \A q \in DOMAIN v7' : ~FU!Telling(q)'
      BY <2>4, <3>1 DEF FU!Telling
    <3>. QED
      BY <3>3, <3>4 DEF FollowUpsTellerAlone
  <2>. QED
    BY <1>1, <2>1, <2>4, <2>5, <2>6, <2>7, <2>8, FollowUpsInvIs
\* Notifications are fewer, or were read
<1>18. ASSUME UNCHANGED <<v1, v2, v3, v4, v6, v7, v8>>,
              v5' \subseteq FU!Notification,
              \A m \in v5' : \E n \in v5 : m.name = n.name /\ m.label = n.label /\ m.first = n.first
       PROVE  FU!IInv'
  <2>1. FollowUpsCalendar' /\ FollowUpsWorks' /\ FU!OneCheckpointEach' /\ FU!FirstRows'
    BY <1>1, <1>18 DEF FollowUpsCalendar, FollowUpsWorks, FU!OneCheckpointEach, FU!FirstRows,
       FU!RowsOf
  <2>2. FollowUpsRows'
    <3>1. \A x \in v5' : x.first <= v6
      BY <1>1, <1>18 DEF FollowUpsRows
    <3>. QED
      BY <1>1, <1>18, <3>1 DEF FollowUpsRows
  <2>3. ASSUME FollowUpsSameTold PROVE FollowUpsSameTold'
    <3>. SUFFICES ASSUME NEW m \in v5', NEW n \in v5', m.name = n.name, m.label = n.label
                  PROVE  m.first = n.first
      BY DEF FollowUpsSameTold
    <3>1. PICK x \in v5 : m.name = x.name /\ m.label = x.label /\ m.first = x.first
      BY <1>18
    <3>2. PICK y \in v5 : n.name = y.name /\ n.label = y.label /\ n.first = y.first
      BY <1>18
    <3>. QED
      BY <2>3, <3>1, <3>2 DEF FollowUpsSameTold
  <2>4. FollowUpsTellerAlone => FollowUpsTellerAlone'
    <3>1. \A k : ~FU!Told(k) => ~FU!Told(k)'
      BY <1>18 DEF FU!Told
    <3>2. \A r \in DOMAIN v7 : \A k \in v7[r].new : ~FU!Told(k) => ~FU!Told(k)'
      BY <1>18 DEF FU!Told
    <3>. QED
      BY <1>18, <3>2 DEF FollowUpsTellerAlone, FU!Telling
  <2>. QED
    BY <1>1, <1>18, <2>1, <2>2, <2>3, <2>4, FollowUpsInvIs
<1>19. \A n \in v5 : LET m == [n EXCEPT !.is_read = TRUE] IN
         m \in FU!Notification /\ m.name = n.name /\ m.label = n.label /\ m.first = n.first
  BY <1>1 DEF FollowUpsRows, FU!Notification
<1>20. v5 \subseteq FU!Notification
  BY <1>1 DEF FollowUpsRows
<1>21. ASSUME NEW n \in v5, FU!Read(n) PROVE FU!IInv'
  <2>. DEFINE m == [n EXCEPT !.is_read = TRUE]
  <2>1. v5' = (v5 \ {n}) \cup {m}
        /\ UNCHANGED <<v1, v2, v3, v4, v6, v7, v8>>
    BY <1>21 DEF FU!Read
  <2>2. m \in FU!Notification /\ m.name = n.name /\ m.label = n.label /\ m.first = n.first
    BY <1>19
  <2>. HIDE DEF m
  <2>3. v5' \subseteq FU!Notification
    BY <1>20, <2>1, <2>2
  <2>4. \A x \in v5' : \E y \in v5 : x.name = y.name /\ x.label = y.label /\ x.first = y.first
    BY <2>1, <2>2
  <2>. QED
    BY <1>18, <2>1, <2>3, <2>4
<1>22. CASE FU!ReadAll
  <2>1. v5' = {[n EXCEPT !.is_read = TRUE] : n \in v5}
        /\ UNCHANGED <<v1, v2, v3, v4, v6, v7, v8>>
    BY <1>22 DEF FU!ReadAll
  <2>. QED
    BY <1>18, <1>19, <2>1
<1>23. ASSUME NEW n \in v5, FU!Remove(n) PROVE FU!IInv'
  BY <1>18, <1>20, <1>23 DEF FU!Remove
<1>24. CASE FU!ClearRead
  BY <1>18, <1>20, <1>24 DEF FU!ClearRead
<1>25. ASSUME NEW r \in Requests, FU!Crash(r) PROVE FU!IInv'
  <2>1. r \in DOMAIN v7 /\ FU!Drop(r)
        /\ UNCHANGED <<v1, v2, v3, v4, v5, v6, v8>>
    BY <1>25 DEF FU!Crash
  <2>2. FollowUpsWorks' /\ DOMAIN v7' = DOMAIN v7 \ {r} /\ \A q \in DOMAIN v7' : v7'[q] = v7[q]
    BY <1>1, <2>1, FollowUpsDropIs
  <2>3. FollowUpsCalendar'
    BY <1>1, <2>1 DEF FollowUpsCalendar
  <2>. QED
    BY <1>4, <2>1, <2>2, <2>3
<1>26. CASE UNCHANGED FU!vars
  BY <1>1, <1>5, <1>26 DEF FU!vars, FollowUpsCalendar
<1>. QED
  BY <1>6, <1>7, <1>8, <1>9, <1>11, <1>12, <1>13, <1>15, <1>16, <1>17, <1>21, <1>22, <1>23,
     <1>24, <1>25, <1>26
  DEF FU!Next

LEMMA FollowUpsEnough ==
  ASSUME FU!IInv
  PROVE  FU!TypeOK /\ FU!OneCheckpointEach /\ FU!OverdueToldOnce
<1>1. v5 \subseteq FU!Notification
  BY DEF FU!IInv, FU!TypeOK
<1>2. \A m \in v5 : m.cand \in Placed
  BY <1>1 DEF FU!Notification
<1>. QED
  BY <1>2 DEF FU!IInv, FU!FirstTold, FU!OverdueToldOnce

LEMMA FollowUpsMoves ==
  ASSUME [Next]_vars, part' = "FollowUps"
  PROVE  part = "FollowUps" /\ [FU!Next]_FU!vars
BY DEF Next, vars, FU!vars

LEMMA FollowUpsAlways == Spec => [](part = "FollowUps" => FU!IInv)
<1>1. Init => (part = "FollowUps" => FU!IInv)
  BY FollowUpsStart, OfficeAssumption DEF Init
<1>2. (part = "FollowUps" => FU!IInv) /\ [Next]_vars => (part = "FollowUps" => FU!IInv)'
  BY FollowUpsStep, FollowUpsMoves, OfficeAssumption
<1>. QED
  BY <1>1, <1>2, PTL DEF Spec

------------------------------------------------------------------------------
(* CallCentre: v1 is task_status, v2 is active, v3 is logs, v4 is forms, v5 *)
(* is overlapped.                                                           *)

------------------------------------------------------------------------------
(* Forms are opened and closed                                              *)

CallCentreRows ==
  /\ v1 \in [Tasks -> {"pending", "completed"}]
  /\ v3 \in [Tasks -> Seq(CC!Log)]
  /\ DOMAIN v4 \subseteq Requests
  /\ \A r \in DOMAIN v4 : v4[r] \in CC!Form /\ v4[r].log \in 0 .. Len(v3[v4[r].task])
  /\ v5 \subseteq Tasks

CallCentreActiveOK == DOMAIN v2 \subseteq Dispositions /\ \A d \in DOMAIN v2 : v2[d] \in BOOLEAN

LEMMA CallCentreTypesAre == (CC!TypeOK <=> CallCentreRows /\ CallCentreActiveOK) /\ (CC!TypeOK' <=> CallCentreRows' /\ CallCentreActiveOK')
BY Zenon DEF CC!TypeOK, CallCentreRows, CallCentreActiveOK

\* IInv of the tasks, logs and forms
CallCentreCallsKept ==
  /\ CallCentreRows /\ CC!CompletedWithLog
  /\ \A t \in Tasks \ v5 : CC!InOrder(t)

LEMMA CallCentreFormIs ==
  ASSUME NEW f \in CC!Form
  PROVE  /\ f.task \in Tasks /\ f.log \in Nat
         /\ f.old \in CC!Values /\ f.new \in CC!Values
BY DEF CC!Form

LEMMA CallCentreOpened ==
  ASSUME CallCentreCallsKept, NEW r, NEW t \in Tasks, NEW i \in 0 .. Len(v3[t]),
         NEW old \in CC!Values, NEW new \in CC!Values, CC!Open(r, t, i, old, new),
         IF i = 0 THEN v3[t] = <<>> ELSE old = v3[t][i].now
  PROVE  CallCentreCallsKept'
<1>. DEFINE f == [task |-> t, log |-> i, old |-> old, new |-> new]
<1>1. f \in CC!Form
  <2>1. Len(v3[t]) \in Nat
    BY DEF CallCentreCallsKept, CallCentreRows
  <2>. QED
    BY <2>1 DEF CC!Form
<1>0. f \in CC!Form /\ r \in Requests
  BY <1>1 DEF CC!Open
<1>2. /\ r \notin DOMAIN v4 /\ DOMAIN v4' = DOMAIN v4 \cup {r}
      /\ v4'[r] = f /\ \A q \in DOMAIN v4 : v4'[q] = v4[q]
  BY <1>0 DEF CC!Open
<1>3. v3' = v3 /\ v1' = v1
  BY DEF CC!Open
<1>4. v5' \subseteq Tasks /\ v5 \subseteq v5'
  BY DEF CC!Open, CallCentreCallsKept, CallCentreRows
<1>5. CallCentreRows' /\ CC!CompletedWithLog'
  <2>1. \A q \in DOMAIN v4' : v4'[q] \in CC!Form /\ v4'[q].log \in 0 .. Len(v3'[v4'[q].task])
    BY <1>1, <1>2, <1>3 DEF CallCentreCallsKept, CallCentreRows
  <2>2. DOMAIN v4' \subseteq Requests
    BY <1>0, <1>2 DEF CallCentreCallsKept, CallCentreRows
  <2>3. v1' \in [Tasks -> {"pending", "completed"}] /\ v3' \in [Tasks -> Seq(CC!Log)]
    BY <1>3 DEF CallCentreCallsKept, CallCentreRows
  <2>4. CallCentreRows'
    BY <1>4, <2>1, <2>2, <2>3 DEF CallCentreRows
  <2>. QED
    BY <1>3, <2>4 DEF CallCentreCallsKept, CC!CompletedWithLog
<1>6. ASSUME NEW u \in Tasks \ v5' PROVE CC!InOrder(u)'
  <2>1. CC!InOrder(u)
    BY <1>4 DEF CallCentreCallsKept
  <2>2. u = t => \A q \in DOMAIN v4 : v4[q].task # t
    BY DEF CC!Open
  <2>3. CC!OneForm(u)'
    BY <1>2, <2>1, <2>2 DEF CC!InOrder, CC!OneForm
  <2>4. ASSUME NEW q \in DOMAIN v4', v4'[q].task = u PROVE CC!Current(q)'
    <3>1. CASE q = r
      BY <1>2, <1>3, <3>1 DEF CC!Current
    <3>2. CASE q # r
      BY <1>2, <1>3, <2>1, <2>4, <3>2 DEF CC!Current, CC!InOrder
    <3>. QED
      BY <3>1, <3>2
  <2>. QED
    BY <1>3, <2>1, <2>3, <2>4 DEF CC!InOrder
<1>. QED
  BY <1>5, <1>6 DEF CallCentreCallsKept

\* Once a form is closed the others are what they were
LEMMA CallCentreClosed ==
  ASSUME NEW r, CC!Close(r)
  PROVE  DOMAIN v4' = DOMAIN v4 \ {r} /\ \A q \in DOMAIN v4' : v4'[q] = v4[q]
BY DEF CC!Close

LEMMA CallCentreDropped ==
  ASSUME CallCentreCallsKept, NEW r, CC!Drop(r)
  PROVE  CallCentreCallsKept'
<1>1. UNCHANGED <<v1, v3, v5>> /\ CC!Close(r)
  BY DEF CC!Drop
<1>2. DOMAIN v4' = DOMAIN v4 \ {r} /\ \A q \in DOMAIN v4' : v4'[q] = v4[q]
  BY <1>1, CallCentreClosed
<1>3. \A q \in DOMAIN v4' : CC!Current(q) => CC!Current(q)'
  BY <1>1, <1>2 DEF CC!Current
<1>4. \A t \in Tasks : CC!InOrder(t) => CC!InOrder(t)'
  BY <1>1, <1>2, <1>3 DEF CC!InOrder, CC!OneForm
<1>5. CallCentreRows' /\ CC!CompletedWithLog'
  BY <1>1, <1>2 DEF CallCentreCallsKept, CallCentreRows, CC!CompletedWithLog
<1>. QED
  BY <1>1, <1>4, <1>5 DEF CallCentreCallsKept

------------------------------------------------------------------------------
(* Forms are saved                                                          *)

\* A form on one call leaves the others as they are
LEMMA CallCentreOtherCalls ==
  ASSUME CallCentreCallsKept, NEW r \in DOMAIN v4, CC!Close(r), v5' = v5,
         \A u \in Tasks : u # v4[r].task => v3'[u] = v3[u],
         NEW u \in Tasks \ v5, u # v4[r].task
  PROVE  CC!InOrder(u)'
<1>1. DOMAIN v4' = DOMAIN v4 \ {r} /\ \A q \in DOMAIN v4' : v4'[q] = v4[q]
  BY CallCentreClosed
<1>2. CC!InOrder(u)
  BY DEF CallCentreCallsKept
<1>3. \A q \in DOMAIN v4' : v4'[q].task = u /\ CC!Current(q) => CC!Current(q)'
  BY <1>1 DEF CC!Current
<1>. QED
  BY <1>1, <1>2, <1>3 DEF CC!InOrder, CC!OneForm

\* Of the form's own call no other form is left
LEMMA CallCentreOwnCall ==
  ASSUME CallCentreCallsKept, NEW r \in DOMAIN v4, CC!Close(r), v4[r].task \notin v5
  PROVE  \A q \in DOMAIN v4' : v4'[q].task # v4[r].task
<1>1. v4[r].task \in Tasks
  BY CallCentreFormIs DEF CallCentreCallsKept, CallCentreRows
<1>2. CC!OneForm(v4[r].task)
  BY <1>1 DEF CallCentreCallsKept, CC!InOrder
<1>. QED
  BY <1>2, CallCentreClosed DEF CC!OneForm

LEMMA CallCentreLogSaved ==
  ASSUME CallCentreCallsKept, NEW r, CC!SaveLog(r), NEW t \in Tasks, t = v4[r].task
  PROVE  CallCentreCallsKept'
<1>. DEFINE f   == v4[r]
            log == [entered |-> f.new, now |-> f.new, edits |-> <<>>]
<1>1. r \in DOMAIN v4 /\ f \in CC!Form /\ t = f.task /\ f.new \in CC!Values
  BY CallCentreFormIs DEF CC!SaveLog, CallCentreCallsKept, CallCentreRows
<1>2. log \in CC!Log /\ log.edits = <<>>
  BY <1>1 DEF CC!Log
<1>3. /\ CC!Close(r) /\ v5' = v5
      /\ v3' = [v3 EXCEPT ![t] = Append(@, log)]
      /\ v1' = [v1 EXCEPT ![t] = "completed"]
  BY DEF CC!SaveLog
<1>4. /\ DOMAIN v4' = DOMAIN v4 \ {r} /\ \A q \in DOMAIN v4' : v4'[q] = v4[q]
  BY <1>3, CallCentreClosed
<1>5. /\ v3'[t] = Append(v3[t], log) /\ v3[t] \in Seq(CC!Log)
      /\ \A u \in Tasks : u # t => v3'[u] = v3[u]
  BY <1>1, <1>3 DEF CallCentreCallsKept, CallCentreRows
<1>6. v3' \in [Tasks -> Seq(CC!Log)] /\ \A u \in Tasks : Len(v3'[u]) >= Len(v3[u])
  BY <1>1, <1>2, <1>3 DEF CallCentreCallsKept, CallCentreRows
<1>7. CallCentreRows'
  <2>1. ASSUME NEW q \in DOMAIN v4'
        PROVE  v4'[q] \in CC!Form /\ v4'[q].log \in 0 .. Len(v3'[v4'[q].task])
    <3>1. v4'[q] = v4[q] /\ v4[q] \in CC!Form /\ v4[q].log \in 0 .. Len(v3[v4[q].task])
      BY <1>4 DEF CallCentreCallsKept, CallCentreRows
    <3>2. v4[q].task \in Tasks
      BY <3>1, CallCentreFormIs
    <3>. QED
      BY <1>6, <3>1, <3>2
  <2>2. v1' \in [Tasks -> {"pending", "completed"}]
    BY <1>3 DEF CallCentreCallsKept, CallCentreRows
  <2>3. DOMAIN v4' \subseteq Requests
    BY <1>4 DEF CallCentreCallsKept, CallCentreRows
  <2>4. v5' \subseteq Tasks
    BY <1>3 DEF CallCentreCallsKept, CallCentreRows
  <2>. QED
    BY <1>6, <2>1, <2>2, <2>3, <2>4 DEF CallCentreRows
<1>8. CC!CompletedWithLog'
  <2>1. v3'[t] # <<>> /\ v1'[t] = "completed"
    <3>1. v1'[t] = "completed"
      BY <1>3 DEF CallCentreCallsKept, CallCentreRows
    <3>. HIDE DEF log
    <3>2. v3'[t] # <<>>
      BY <1>5
    <3>. QED
      BY <3>1, <3>2
  <2>2. \A u \in Tasks : u # t => v1'[u] = v1[u]
    BY <1>3 DEF CallCentreCallsKept, CallCentreRows
  <2>. QED
    BY <1>5, <2>1, <2>2 DEF CallCentreCallsKept, CC!CompletedWithLog
<1>9. ASSUME t \notin v5 PROVE CC!InOrder(t)'
  <2>1. \A q \in DOMAIN v4' : v4'[q].task # t
    BY <1>1, <1>3, <1>9, CallCentreOwnCall
  <2>2. v3[t] = <<>>
    BY <1>1, <1>9 DEF CallCentreCallsKept, CC!InOrder, CC!Current, CC!SaveLog
  <2>3. v3'[t] = <<log>>
    BY <1>5, <2>2
  <2>4. CC!Led(log)
    BY <1>2 DEF CC!Led, CC!Was
  <2>. QED
    BY <2>1, <2>3, <2>4 DEF CC!InOrder, CC!OneForm
<1>10. \A u \in Tasks \ v5 : u # t => CC!InOrder(u)'
  BY <1>1, <1>3, <1>5, CallCentreOtherCalls
<1>. QED
  BY <1>3, <1>7, <1>8, <1>9, <1>10 DEF CallCentreCallsKept

\* A correction of what the log says is what the log says afterwards
LEMMA CallCentreCorrected ==
  ASSUME NEW now \in CC!Values, NEW new \in CC!Values
  PROVE  [x \in DOMAIN now |-> IF new[x] # now[x] THEN new[x] ELSE now[x]] = new
BY DEF CC!Values

LEMMA CallCentreWrittenValues ==
  ASSUME NEW now \in CC!Values, NEW old \in CC!Values, NEW new \in CC!Values
  PROVE  [x \in DOMAIN now |-> IF new[x] # old[x] THEN new[x] ELSE now[x]] \in CC!Values
BY DEF CC!Values

\* The corrections lead on by one
LEMMA CallCentreLedOn ==
  ASSUME NEW log \in CC!Log, CC!Led(log), NEW new \in CC!Values, NEW after \in CC!Log,
         after.entered = log.entered, after.now = new,
         after.edits = Append(log.edits, [old |-> log.now, new |-> new])
  PROVE  CC!Led(after)
<1>. DEFINE n == Len(log.edits)
<1>1. log.edits \in Seq(CC!Edit) /\ n \in Nat
  BY DEF CC!Log
<1>2. Len(after.edits) = n + 1 /\ after.edits[n + 1] = [old |-> log.now, new |-> new]
  BY <1>1
<1>3. \A k \in 1 .. n : after.edits[k] = log.edits[k]
  BY <1>1
<1>4. \A k \in 1 .. n + 1 : CC!Was(after, k) = CC!Was(log, k)
  BY <1>1, <1>3 DEF CC!Was
<1>5. CC!Was(after, n + 2) = new
  BY <1>1, <1>2 DEF CC!Was
<1>6. \A k \in 1 .. n + 1 : after.edits[k].old = CC!Was(after, k)
  BY <1>1, <1>2, <1>3, <1>4 DEF CC!Led
<1>. QED
  BY <1>1, <1>2, <1>5, <1>6 DEF CC!Led

\* A row of a log is changed, and its correction is added
LEMMA CallCentreLogAfter ==
  ASSUME NEW log \in CC!Log, NEW now \in CC!Values, NEW edit \in CC!Edit
  PROVE  LET after == [log EXCEPT !.now = now, !.edits = Append(@, edit)] IN
         /\ after \in CC!Log /\ after.entered = log.entered /\ after.now = now
         /\ after.edits = Append(log.edits, edit)
<1>. DEFINE edits == Append(log.edits, edit)
            after == [log EXCEPT !.now = now, !.edits = edits]
<1>1. edits \in Seq(CC!Edit)
  BY DEF CC!Log
<1>. HIDE DEF edits
<1>3. after \in CC!Log /\ after.entered = log.entered /\ after.now = now /\ after.edits = edits
  BY <1>1 DEF CC!Log
<1>. QED
  BY <1>3 DEF edits

LEMMA CallCentreLogsAfter ==
  ASSUME CallCentreRows, NEW t \in Tasks, NEW i \in 1 .. Len(v3[t]), NEW after \in CC!Log,
         v3' = [v3 EXCEPT ![t] = [@ EXCEPT ![i] = after]]
  PROVE  /\ v3' \in [Tasks -> Seq(CC!Log)] /\ \A u \in Tasks : Len(v3'[u]) = Len(v3[u])
         /\ \A u \in Tasks : u # t => v3'[u] = v3[u]
         /\ v3'[t] = [v3[t] EXCEPT ![i] = after]
<1>1. v3[t] \in Seq(CC!Log) /\ v3 \in [Tasks -> Seq(CC!Log)]
  BY DEF CallCentreRows
<1>2. [v3[t] EXCEPT ![i] = after] \in Seq(CC!Log) /\ Len([v3[t] EXCEPT ![i] = after]) = Len(v3[t])
  BY <1>1
<1>. QED
  BY <1>1, <1>2

LEMMA CallCentreEditSaved ==
  ASSUME CallCentreCallsKept, NEW r, CC!SaveEdit(r), NEW t \in Tasks, t = v4[r].task
  PROVE  CallCentreCallsKept'
<1>. DEFINE f     == v4[r]
            i     == f.log
            log   == v3[t][i]
            now   == [x \in DOMAIN log.now |-> IF f.new[x] # f.old[x] THEN f.new[x] ELSE log.now[x]]
            after == [log EXCEPT !.now = now, !.edits = Append(@, [old |-> f.old, new |-> f.new])]
<1>1. r \in DOMAIN v4 /\ f \in CC!Form /\ t = f.task /\ f.new \in CC!Values /\ f.old \in CC!Values
  BY CallCentreFormIs DEF CC!SaveEdit, CallCentreCallsKept, CallCentreRows
<1>2. i \in 1 .. Len(v3[t]) /\ v3[t] \in Seq(CC!Log) /\ log \in CC!Log
  BY <1>1 DEF CC!SaveEdit, CallCentreCallsKept, CallCentreRows
<1>3. /\ log.now \in CC!Values /\ log.edits \in Seq(CC!Edit) /\ log.entered \in CC!Values
  BY <1>2 DEF CC!Log
<1>4. now \in CC!Values
  BY <1>1, <1>3, CallCentreWrittenValues
<1>5. /\ after \in CC!Log /\ after.entered = log.entered /\ after.now = now
      /\ after.edits = Append(log.edits, [old |-> f.old, new |-> f.new])
  <2>1. [old |-> f.old, new |-> f.new] \in CC!Edit
    BY <1>1 DEF CC!Edit
  <2>. QED
    BY <1>2, <1>4, <2>1, CallCentreLogAfter
<1>6. CC!Close(r) /\ v5' = v5 /\ v1' = v1
  BY DEF CC!SaveEdit
<1>7. DOMAIN v4' = DOMAIN v4 \ {r} /\ \A q \in DOMAIN v4' : v4'[q] = v4[q]
  BY <1>6, CallCentreClosed
<1>8. v3' = [v3 EXCEPT ![t] = [@ EXCEPT ![i] = after]]
  BY <1>1, <1>2, <1>3 DEF CC!SaveEdit, CC!OldOf, CallCentreCallsKept, CallCentreRows, CC!Log
<1>9. /\ v3' \in [Tasks -> Seq(CC!Log)] /\ \A u \in Tasks : Len(v3'[u]) = Len(v3[u])
      /\ \A u \in Tasks : u # t => v3'[u] = v3[u]
      /\ v3'[t] = [v3[t] EXCEPT ![i] = after]
  BY <1>1, <1>2, <1>5, <1>8, CallCentreLogsAfter DEF CallCentreCallsKept
<1>. HIDE DEF after, now
<1>10. CallCentreRows'
  <2>1. ASSUME NEW q \in DOMAIN v4'
        PROVE  v4'[q] \in CC!Form /\ v4'[q].log \in 0 .. Len(v3'[v4'[q].task])
    <3>1. v4'[q] = v4[q] /\ v4[q] \in CC!Form /\ v4[q].log \in 0 .. Len(v3[v4[q].task])
      BY <1>7 DEF CallCentreCallsKept, CallCentreRows
    <3>2. v4[q].task \in Tasks
      BY <3>1, CallCentreFormIs
    <3>. QED
      BY <1>9, <3>1, <3>2
  <2>2. v1' \in [Tasks -> {"pending", "completed"}] /\ v5' \subseteq Tasks
    BY <1>6 DEF CallCentreCallsKept, CallCentreRows
  <2>3. DOMAIN v4' \subseteq Requests
    BY <1>7 DEF CallCentreCallsKept, CallCentreRows
  <2>. QED
    BY <1>9, <2>1, <2>2, <2>3 DEF CallCentreRows
<1>11. CC!CompletedWithLog'
  <2>1. \A u \in Tasks : v3'[u] # <<>> <=> v3[u] # <<>>
    BY <1>9 DEF CallCentreCallsKept, CallCentreRows
  <2>. QED
    BY <1>6, <2>1 DEF CallCentreCallsKept, CC!CompletedWithLog
<1>12. ASSUME t \notin v5 PROVE CC!InOrder(t)'
  <2>1. \A q \in DOMAIN v4' : v4'[q].task # t
    BY <1>1, <1>6, <1>12, CallCentreOwnCall
  <2>2. CC!InOrder(t)
    BY <1>1, <1>12 DEF CallCentreCallsKept
  <2>3. f.old = log.now
    BY <1>1, <1>2, <2>2 DEF CC!InOrder, CC!Current
  <2>4. now = f.new
    BY <1>1, <1>3, <2>3, CallCentreCorrected DEF now
  <2>5. CC!Led(after)
    BY <1>1, <1>2, <1>5, <2>2, <2>3, <2>4, CallCentreLedOn DEF CC!InOrder
  <2>6. \A j \in DOMAIN v3'[t] : CC!Led(v3'[t][j])
    BY <1>2, <1>9, <2>2, <2>5 DEF CC!InOrder
  <2>. QED
    BY <1>1, <1>9, <2>1, <2>2, <2>6 DEF CC!InOrder, CC!OneForm
<1>13. \A u \in Tasks \ v5 : u # t => CC!InOrder(u)'
  BY <1>1, <1>6, <1>9, CallCentreOtherCalls
<1>. QED
  BY <1>6, <1>10, <1>11, <1>12, <1>13 DEF CallCentreCallsKept

------------------------------------------------------------------------------
(* Every step                                                               *)

LEMMA CallCentreCallsStart ==
  ASSUME CC!Init
  PROVE  CallCentreCallsKept
BY DEF CC!Init, CallCentreCallsKept, CallCentreRows, CC!CompletedWithLog, CC!InOrder, CC!OneForm

LEMMA CallCentreCallsStep ==
  ASSUME CallCentreCallsKept, [CC!Next]_CC!vars
  PROVE  CallCentreCallsKept'
<1>1. ASSUME UNCHANGED <<v1, v3, v4, v5>> PROVE CallCentreCallsKept'
  BY <1>1 DEF CallCentreCallsKept, CallCentreRows, CC!CompletedWithLog, CC!InOrder, CC!OneForm,
     CC!Current
<1>2. ASSUME NEW d \in Dispositions, CC!CreateDisposition(d) \/ CC!ToggleDisposition(d) PROVE CallCentreCallsKept'
  BY <1>1, <1>2 DEF CC!CreateDisposition, CC!ToggleDisposition
<1>3. ASSUME NEW r, NEW t \in Tasks, NEW new \in CC!Values, CC!LogCall(r, t, new) PROVE CallCentreCallsKept'
  <2>1. v3[t] = <<>> /\ CC!Open(r, t, 0, new, new)
    BY <1>3 DEF CC!LogCall, CC!NotLogged, CallCentreCallsKept, CC!CompletedWithLog
  <2>2. 0 \in 0 .. Len(v3[t])
    BY DEF CallCentreCallsKept, CallCentreRows
  <2>. QED
    BY <2>1, <2>2, CallCentreOpened
<1>4. ASSUME NEW r, NEW t \in Tasks, NEW new \in CC!Values, NEW i \in DOMAIN v3[t], CC!EditLog(r, t, i, new)
      PROVE  CallCentreCallsKept'
  <2>1. i \in 1 .. Len(v3[t]) /\ v3[t][i] \in CC!Log
    BY DEF CallCentreCallsKept, CallCentreRows
  <2>2. v3[t][i].now \in CC!Values /\ i \in 0 .. Len(v3[t]) /\ i # 0
    BY <2>1 DEF CC!Log
  <2>3. CC!Open(r, t, i, v3[t][i].now, new)
    BY <1>4 DEF CC!EditLog
  <2>. QED
    BY <2>2, <2>3, CallCentreOpened
<1>5. ASSUME NEW r, CC!SaveLog(r) \/ CC!SaveEdit(r) PROVE CallCentreCallsKept'
  <2>1. v4[r].task \in Tasks
    BY <1>5, CallCentreFormIs DEF CC!SaveLog, CC!SaveEdit, CallCentreCallsKept, CallCentreRows
  <2>. QED
    BY <1>5, <2>1, CallCentreLogSaved, CallCentreEditSaved
<1>7. ASSUME NEW r, CC!Drop(r) PROVE CallCentreCallsKept'
  BY <1>7, CallCentreDropped
<1>6. CASE UNCHANGED CC!vars
  BY <1>1, <1>6 DEF CC!vars
<1>. QED
  BY <1>2, <1>3, <1>4, <1>5, <1>6, <1>7 DEF CC!Next

LEMMA CallCentreStart ==
  ASSUME CC!CallCentreAssumption, CC!Init
  PROVE  CC!IInv
<1>1. CallCentreActiveOK
  BY DEF CC!CallCentreAssumption, CC!Init, CallCentreActiveOK
<1>. QED
  BY <1>1, CallCentreCallsStart, CallCentreTypesAre DEF CallCentreCallsKept, CC!IInv

LEMMA CallCentreStep ==
  ASSUME CC!IInv, [CC!Next]_CC!vars
  PROVE  CC!IInv'
<1>1. CallCentreCallsKept /\ CallCentreActiveOK
  BY CallCentreTypesAre DEF CallCentreCallsKept, CC!IInv
<1>2. CallCentreActiveOK'
  <2>1. CASE UNCHANGED v2
    BY <1>1, <2>1 DEF CallCentreActiveOK
  <2>2. ASSUME NEW d \in Dispositions, CC!CreateDisposition(d) PROVE CallCentreActiveOK'
    BY <1>1, <2>2 DEF CallCentreActiveOK, CC!CreateDisposition
  <2>3. ASSUME NEW d, CC!ToggleDisposition(d) PROVE CallCentreActiveOK'
    BY <1>1, <2>3 DEF CallCentreActiveOK, CC!ToggleDisposition
  <2>4. CASE \/ \E r \in Requests, t \in Tasks, new \in CC!Values : CC!LogCall(r, t, new)
             \/ \E r \in Requests, t \in Tasks, new \in CC!Values : \E i \in DOMAIN v3[t] : CC!EditLog(r, t, i, new)
             \/ \E r \in Requests : CC!SaveLog(r) \/ CC!SaveEdit(r) \/ CC!Drop(r)
             \/ UNCHANGED CC!vars
    <3>1. UNCHANGED v2
      BY <2>4, Zenon DEF CC!LogCall, CC!EditLog, CC!Open, CC!SaveLog, CC!SaveEdit, CC!Drop,
         CC!vars
    <3>. QED
      BY <2>1, <3>1
  <2>. QED
    BY <2>2, <2>3, <2>4 DEF CC!Next
<1>. QED
  BY <1>1, <1>2, CallCentreCallsStep, CallCentreTypesAre DEF CallCentreCallsKept, CC!IInv

LEMMA CallCentreEnough ==
  ASSUME CC!IInv
  PROVE  CC!TypeOK /\ CC!LoggedOnce /\ CC!CorrectionsKept
<1>0. CallCentreCallsKept
  BY CallCentreTypesAre DEF CallCentreCallsKept, CC!IInv
<1>1. \A t \in Tasks : Len(v3[t]) > 1 => t \in v5
  BY <1>0 DEF CallCentreCallsKept, CC!InOrder, CallCentreRows
<1>2. CC!LoggedOnce
  BY <1>0, <1>1 DEF CC!LoggedOnce, CallCentreCallsKept, CC!CompletedWithLog
<1>3. ASSUME NEW t \in Tasks \ v5, NEW i \in DOMAIN v3[t]
      PROVE  LET log == v3[t][i]
                 n   == Len(log.edits)
                 was == [k \in 1 .. n + 1 |-> IF k = 1 THEN log.entered ELSE log.edits[k - 1].new]
             IN  log.now = was[n + 1] /\ \A k \in 1 .. n : log.edits[k].old = was[k]
  <2>1. CC!Led(v3[t][i])
    BY <1>0 DEF CallCentreCallsKept, CC!InOrder
  <2>2. Len(v3[t][i].edits) \in Nat
    BY <1>0 DEF CallCentreCallsKept, CallCentreRows, CC!Log
  <2>. QED
    BY <2>1, <2>2 DEF CC!Led, CC!Was
<1>4. CC!CorrectionsKept
  BY <1>3 DEF CC!CorrectionsKept
<1>. QED
  BY <1>2, <1>4 DEF CC!IInv

LEMMA CallCentreMoves ==
  ASSUME [Next]_vars, part' = "CallCentre"
  PROVE  part = "CallCentre" /\ [CC!Next]_CC!vars
BY DEF Next, vars, CC!vars

LEMMA CallCentreAlways == Spec => [](part = "CallCentre" => CC!IInv)
<1>1. Init => (part = "CallCentre" => CC!IInv)
  BY CallCentreStart, OfficeAssumption DEF Init
<1>2. (part = "CallCentre" => CC!IInv) /\ [Next]_vars => (part = "CallCentre" => CC!IInv)'
  BY CallCentreStep, CallCentreMoves, OfficeAssumption
<1>. QED
  BY <1>1, <1>2, PTL DEF Spec
------------------------------------------------------------------------------
\* Two reminders of the same document are a repetition apart (document_reminders.py).
THEOREM RemindersAreApart == Spec => []RemindersApart
<1>1. (part = "Reminders" => RM!IInv) => RemindersApart
  BY RemindersEnough, OfficeAssumption DEF RemindersApart
<1>. QED
  BY RemindersAlways, <1>1, PTL

\* No run collects a reminder that was sent before, whatever runs overlap, but for
\* those that the property names (run_document_reminders).
THEOREM ReminderIsSentOnce == Spec => ReminderOnce
<1>1. (part = "Reminders" => RM!IInv) /\ [Next]_vars => [part = "Reminders" => RM!SentOnce]_vars
  <2>1. ASSUME part = "Reminders", RM!IInv, Next PROVE RM!SentOnce
    <3>1. RM!Next
      BY <2>1 DEF Next
    <3>. QED
      BY <2>1, <3>1, RemindersSendsOnce, OfficeAssumption
  <2>. QED
    BY <2>1
<1>. QED
  BY RemindersAlways, <1>1, PTL DEF Spec, ReminderOnce

\* One run sends the messages of a schedule in a period, whatever runs overlap, but for
\* those that the property names (notification_scheduler.py).
THEOREM PeriodsAreServedOnce == Spec => []OncePerPeriod
<1>1. (part = "Schedules" => SC!IInv) => OncePerPeriod
  BY SchedulesEnough DEF OncePerPeriod
<1>. QED
  BY SchedulesAlways, <1>1, PTL

\* A run that looks at a schedule on the last day of a period has it served, whatever
\* the lengths of the months.
THEOREM PeriodsAreServed == Spec => []EveryPeriod
<1>1. (part = "Schedules" => SC!IInv) => EveryPeriod
  BY SchedulesEnough DEF EveryPeriod
<1>. QED
  BY SchedulesAlways, <1>1, PTL

\* A candidate has a checkpoint of each name at most once, however the requests that
\* make them overlap (the unique key of follow_up_checkpoints).
THEOREM CheckpointsAreSingle == Spec => []OneCheckpointEach
<1>1. (part = "FollowUps" => FU!IInv) => OneCheckpointEach
  BY FollowUpsEnough DEF OneCheckpointEach
<1>. QED
  BY FollowUpsAlways, <1>1, PTL

\* However many forms are open, a call has a second log only where two forms of it
\* were open at the same time (call_center_log_call).
THEOREM CallsAreLoggedOnce == Spec => []LoggedOnce
<1>1. (part = "CallCentre" => CC!IInv) => LoggedOnce
  BY CallCentreEnough DEF LoggedOnce
<1>. QED
  BY CallCentreAlways, <1>1, PTL

\* The history of a log is complete, however many corrections it has and whatever is
\* corrected in other calls meanwhile (call_center_edit_call_log).
THEOREM HistoryIsComplete == Spec => []CorrectionsKept
<1>1. (part = "CallCentre" => CC!IInv) => CorrectionsKept
  BY CallCentreEnough DEF CorrectionsKept
<1>. QED
  BY CallCentreAlways, <1>1, PTL

\* Whichever requests overlap, what only a unique key of the database keeps is kept: one
\* feedback, one successor of a refresh token, one mark a day, one override.
THEOREM KeysAreUnique == Spec => []KeysHold
<1>1. Spec => [](part = "Support" => SU!OneFeedback)
  <2>1. (part = "Support" => SU!IInv) => (part = "Support" => SU!OneFeedback)
    BY SupportEnough
  <2>. QED
    BY SupportAlways, <2>1, PTL
<1>2. Spec => [](part = "ApiTokens" => AT!RefreshedOnce)
  <2>1. (part = "ApiTokens" => AT!IInv) => (part = "ApiTokens" => AT!RefreshedOnce)
    BY TokensEnough
  <2>. QED
    BY TokensAlways, <2>1, PTL
<1>3. Spec => [](part = "Attendance" => AD!MarkedOnce)
  <2>1. (part = "Attendance" => AD!IInv) => (part = "Attendance" => AD!MarkedOnce)
    BY AttendanceEnough
  <2>. QED
    BY AttendanceAlways, <2>1, PTL
<1>4. Spec => [](part = "FeatureFlags" => FF!OneRow)
  <2>1. (part = "FeatureFlags" => FF!IInv) => (part = "FeatureFlags" => FF!OneRow)
    BY FlagsEnough, OfficeAssumption
  <2>. QED
    BY FlagsAlways, <2>1, PTL
<1>5. /\ (part = "Support" => SU!OneFeedback)
      /\ (part = "ApiTokens" => AT!RefreshedOnce)
      /\ (part = "Attendance" => AD!MarkedOnce)
      /\ (part = "FeatureFlags" => FF!OneRow)
      => KeysHold
  BY DEF KeysHold
<1>. QED
  BY <1>1, <1>2, <1>3, <1>4, <1>5, PTL

\* The rules of the forms hold of rows that several forms wrote at the same time, where
\* the properties do not name what went wrong: a closed ticket without its date needs
\* answers that overlapped, a notice that does not account for its recipients a broken
\* loop, and a mail log that is short of rows as many lost ones.
THEOREM FormRulesHold == Spec => []FormRulesKept
<1>1. Spec => [](part = "Support" => SU!ClosedTicketsAnswered)
  <2>1. (part = "Support" => SU!IInv) => (part = "Support" => SU!ClosedTicketsAnswered)
    BY SupportEnough
  <2>. QED
    BY SupportAlways, <2>1, PTL
<1>2. Spec => [](part = "Vacancies" => VA!SalaryRange)
  <2>1. (part = "Vacancies" => VA!IInv) => (part = "Vacancies" => VA!SalaryRange)
    BY VacanciesEnough
  <2>. QED
    BY VacanciesAlways, <2>1, PTL
<1>3. Spec => [](part = "FeatureFlags" => FF!FlagsAsAsked)
  <2>1. (part = "FeatureFlags" => FF!IInv) => (part = "FeatureFlags" => FF!FlagsAsAsked)
    BY FlagsEnough, OfficeAssumption
  <2>. QED
    BY FlagsAlways, <2>1, PTL
<1>4. Spec => [](part = "BreachNotices" => BN!NoticeAccounted)
  <2>1. (part = "BreachNotices" => BN!IInv) => (part = "BreachNotices" => BN!NoticeAccounted)
    BY BreachEnough
  <2>. QED
    BY BreachAlways, <2>1, PTL
<1>5. /\ (part = "Support" => SU!ClosedTicketsAnswered)
      /\ (part = "Vacancies" => VA!SalaryRange)
      /\ (part = "FeatureFlags" => FF!FlagsAsAsked)
      /\ (part = "BreachNotices" => BN!NoticeAccounted)
      => FormRulesKept
  BY DEF FormRulesKept
<1>. QED
  BY <1>1, <1>2, <1>3, <1>4, <1>5, PTL

\* One notification of an overdue checkpoint and one notice of a breach to each
\* candidate, unless the property names what went wrong.
THEOREM EverybodyIsToldOnce == Spec => []ToldOnce
<1>1. Spec => [](part = "FollowUps" => FU!OverdueToldOnce)
  <2>1. (part = "FollowUps" => FU!IInv) => (part = "FollowUps" => FU!OverdueToldOnce)
    BY FollowUpsEnough
  <2>. QED
    BY FollowUpsAlways, <2>1, PTL
<1>2. Spec => [](part = "BreachNotices" => BN!SentOnce)
  <2>1. (part = "BreachNotices" => BN!IInv) => (part = "BreachNotices" => BN!SentOnce)
    BY BreachEnough
  <2>. QED
    BY BreachAlways, <2>1, PTL
<1>3. /\ (part = "FollowUps" => FU!OverdueToldOnce)
      /\ (part = "BreachNotices" => BN!SentOnce)
      => ToldOnce
  BY DEF ToldOnce
<1>. QED
  BY <1>1, <1>2, <1>3, PTL

\* The variables of every component keep their types.
THEOREM OfficeTyped == Spec => []TypeOK
<1>. DEFINE A == /\ part = "Support" => SU!IInv
                 /\ part = "Documents" => DO!IInv
                 /\ part = "Kyc" => KY!IInv
                 /\ part = "Reminders" => RM!IInv
            B == /\ part = "Schedules" => SC!IInv
                 /\ part = "FollowUps" => FU!IInv
                 /\ part = "CallCentre" => CC!IInv
                 /\ part = "StaffAccess" => SA!IInv
            C == /\ part = "ApiTokens" => AT!IInv
                 /\ part = "RateLimits" => RL!IInv
                 /\ part = "Permissions" => PE!IInv
                 /\ part = "ReportCache" => RC!IInv
            D == /\ part = "Attendance" => AD!IInv
                 /\ part = "Vacancies" => VA!IInv
                 /\ part = "FeatureFlags" => FF!IInv
                 /\ part = "BreachNotices" => BN!IInv
<1>1. Spec => []A
  BY SupportAlways, DocumentsAlways, KycAlways, RemindersAlways, PTL
<1>2. Spec => []B
  BY SchedulesAlways, FollowUpsAlways, CallCentreAlways, StaffAlways, PTL
<1>3. Spec => []C
  BY TokensAlways, RatesAlways, PermissionsAlways, ReportsAlways, PTL
<1>4. Spec => []D
  BY AttendanceAlways, VacanciesAlways, FlagsAlways, BreachAlways, PTL
<1>5. A /\ B /\ C /\ D => TypeOK
  BY DEF TypeOK,
         SU!IInv, DO!IInv, KY!IInv, RM!IInv, SC!IInv, FU!IInv, CC!IInv, SA!IInv,
         AT!IInv, RL!IInv, PE!IInv, RC!IInv, AD!IInv, VA!IInv, FF!IInv, BN!IInv
<1>. HIDE DEF A, B, C, D
<1>. QED
  BY <1>1, <1>2, <1>3, <1>4, <1>5, PTL
==============================================================================
