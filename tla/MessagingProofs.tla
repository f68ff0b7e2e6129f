--------------------------- MODULE MessagingProofs ---------------------------
(* Credits are conserved and messages are given up late: proofs about       *)
(* Messaging for any number of accounts, processes and messages.            *)
EXTENDS Messaging, FiniteSetTheorems, TLAPS

\* An item being retried is in the queue.
Queued == \A p \in Procs : job[p].item # 0 => job[p].item \in DOMAIN queue

\* A credit is in hand only between its reservation and the provider's answer,
\* and what is refunded was in hand.
Orderly(label, j) == /\ j.charged => label \in Holding
                     /\ label \in {"debit", "debitRow", "refund"} => j.charged

HandsInOrder == \A p \in Procs : Orderly(pc[p], job[p])

Retrying(i) == {p \in Procs : job[p].item = i}

\* job[p].seen is the attempts p will add one to
Counting(p) == pc[p] = "count" \/ (pc[p] = "send" /\ ~job[p].charged)

\* Every retry that is over raised an item's attempts by one at most.
Bound(i) == 1 + tries[i] - Cardinality(Retrying(i))

AttemptsBounded ==
  \A i \in DOMAIN queue :
    tries[i] < MaxRetries =>
      /\ queue[i].attempts <= Bound(i)
      /\ \A p \in Retrying(i) : Counting(p) => job[p].seen <= Bound(i)

IInv == /\ TypeOK /\ Queued /\ HandsInOrder /\ CreditsConserved
        /\ AttemptsBounded /\ GivenUpLate

------------------------------------------------------------------------------
(* Types                                                                    *)

LEMMA NoJobType == MessagingAssumption => NoJob \in Job
BY DEF MessagingAssumption, NoJob, Job, Accounts

LEMMA SetElement ==
  ASSUME NEW S, NEW s \in Seq(S), NEW n, NEW e \in S
  PROVE  /\ [s EXCEPT ![n] = e] \in Seq(S)
         /\ Len([s EXCEPT ![n] = e]) = Len(s)
         /\ DOMAIN [s EXCEPT ![n] = e] = DOMAIN s
         /\ \A k \in DOMAIN s : [s EXCEPT ![n] = e][k] = IF k = n THEN e ELSE s[k]
<1>. DEFINE t == [k \in 1 .. Len(s) |-> IF k = n THEN e ELSE s[k]]
<1>1. [s EXCEPT ![n] = e] = t
  OBVIOUS
<1>2. t \in [1 .. Len(s) -> S]
  OBVIOUS
<1>3. t \in Seq(S) /\ Len(t) = Len(s) /\ DOMAIN t = DOMAIN s
  BY <1>2
<1>. QED
  BY <1>1, <1>3

LEMMA Element == ASSUME NEW S, NEW s \in Seq(S), NEW n \in DOMAIN s PROVE s[n] \in S
OBVIOUS

LEMMA FinishType ==
  ASSUME MessagingAssumption, TypeOK, NEW p \in Procs, NEW label \in Labels, Finish(p, label)
  PROVE  pc' \in [Procs -> Labels] /\ job' \in [Procs -> Job]
BY NoJobType DEF Finish, GoTo, TypeOK

LEMMA GoToType ==
  ASSUME TypeOK, NEW p \in Procs, NEW label \in Labels, GoTo(p, label)
  PROVE  pc' \in [Procs -> Labels]
BY DEF GoTo, TypeOK

LEMMA PickedType ==
  ASSUME TypeOK, NEW a \in Accounts, NEW i \in Nat, i # 0 => i \in DOMAIN queue,
         NEW charged \in BOOLEAN
  PROVE  Picked(a, i, charged) \in Job
<1>1. i # 0 => queue[i].attempts \in Nat
  <2>1. queue \in Seq(Item)
    BY DEF TypeOK
  <2>2. i # 0 => queue[i] \in Item
    BY <2>1, Element
  <2>. QED
    BY <2>2 DEF Item
<1>. QED
  BY <1>1 DEF Picked, Job

LEMMA PickType ==
  ASSUME TypeOK, NEW p \in Procs, NEW a \in Accounts, NEW i \in Nat, i # 0 => i \in DOMAIN queue,
         NEW charged \in BOOLEAN, NEW label \in Labels, Pick(p, a, i, charged, label)
  PROVE  pc' \in [Procs -> Labels] /\ job' \in [Procs -> Job]
BY PickedType, GoToType DEF Pick, TypeOK

LEMMA ReserveType ==
  ASSUME MessagingAssumption, TypeOK, NEW p \in Procs, NEW a \in Accounts, NEW i \in Nat,
         i # 0 => i \in DOMAIN queue, Reserve(p, a, i)
  PROVE  /\ balance' \in [Accounts -> Nat]
         /\ pc' \in [Procs -> Labels]
         /\ job' \in [Procs -> Job]
<1>1. ASSUME NEW charged \in BOOLEAN, NEW label \in {"send", "debit", "failed", "count"},
             Pick(p, a, i, charged, label)
      PROVE  pc' \in [Procs -> Labels] /\ job' \in [Procs -> Job]
  BY <1>1, PickType DEF Labels
<1>2. ASSUME balance' = balance \/ (balance[a] > 0 /\ balance' = [balance EXCEPT ![a] = @ - 1])
      PROVE  balance' \in [Accounts -> Nat]
  <2>1. balance \in [Accounts -> Nat]
    BY DEF TypeOK
  <2>2. balance[a] > 0 => balance[a] - 1 \in Nat
    BY <2>1
  <2>. QED
    BY <1>2, <2>1, <2>2
<1>3. Finish(p, "idle") => pc' \in [Procs -> Labels] /\ job' \in [Procs -> Job]
  BY FinishType DEF Labels
<1>. QED
  BY <1>1, <1>2, <1>3 DEF Reserve, HasCredit

LEMMA SetNumber ==
  ASSUME NEW s \in Seq(Nat), NEW n, NEW e \in Nat
  PROVE  [s EXCEPT ![n] = e] \in Seq(Nat) /\ Len([s EXCEPT ![n] = e]) = Len(s)
BY SetElement

LEMMA SetItem ==
  ASSUME NEW s \in Seq(Item), NEW n, NEW e \in Item
  PROVE  [s EXCEPT ![n] = e] \in Seq(Item) /\ Len([s EXCEPT ![n] = e]) = Len(s)
BY SetElement

LEMMA SetNowhere ==
  ASSUME NEW s \in Seq(Item), NEW n, n \notin DOMAIN s, NEW e
  PROVE  [s EXCEPT ![n] = e] = s
OBVIOUS

LEMMA ItemOf == ASSUME NEW s \in Seq(Item), NEW n \in DOMAIN s PROVE s[n] \in Item
OBVIOUS

LEMMA InitType == ASSUME MessagingAssumption, Init PROVE TypeOK
<1>1. NoJob \in Job
  BY NoJobType
<1>2. ledger \in [Accounts -> [change : {-1, 0, 1}, after : Nat]]
  BY DEF Init, MessagingAssumption
<1>. QED
  BY <1>1, <1>2 DEF Init, TypeOK, MessagingAssumption, Labels

LEMMA TypeStep ==
  ASSUME MessagingAssumption, TypeOK, Queued, [Next]_vars
  PROVE  TypeOK'
<1>0. /\ balance \in [Accounts -> Nat] /\ queue \in Seq(Item) /\ job \in [Procs -> Job]
      /\ pc \in [Procs -> Labels] /\ tries \in Seq(Nat) /\ accepted \in Seq(Nat)
      /\ Len(tries) = Len(queue) /\ Len(accepted) = Len(queue)
  BY DEF TypeOK
<1>1. ASSUME NEW p \in Procs, ReadBalance(p) PROVE TypeOK'
  <2>1. [job[p] EXCEPT !.seen = balance[job[p].acct]] \in Job
    BY <1>0 DEF Job
  <2>2. job' \in [Procs -> Job]
    BY <1>0, <1>1, <2>1 DEF ReadBalance
  <2>3. pc' \in [Procs -> Labels]
    BY <1>1, GoToType DEF ReadBalance, Labels
  <2>. QED
    BY <1>1, <2>2, <2>3 DEF ReadBalance, TypeOK, tables, work, history
<1>2. ASSUME NEW p \in Procs, WriteRow(p) PROVE TypeOK'
  <2>1. [change |-> IF pc[p] = "debitRow" THEN -1 ELSE 1, after |-> job[p].seen]
          \in [change : {-1, 0, 1}, after : Nat]
    BY <1>0 DEF Job
  <2>2. ledger' \in [Accounts -> [change : {-1, 0, 1}, after : Nat]]
    BY <1>2, <2>1 DEF WriteRow, TypeOK
  <2>3. pc' \in [Procs -> Labels]
    BY <1>2, GoToType DEF WriteRow, Labels
  <2>. QED
    BY <1>2, <2>2, <2>3 DEF WriteRow, TypeOK, tables, work, history
<1>3. ASSUME NEW p \in Procs, Refund(p) PROVE TypeOK'
  <2>1. [job[p] EXCEPT !.charged = FALSE] \in Job
    BY <1>0 DEF Job
  <2>2. job' \in [Procs -> Job] /\ balance' \in [Accounts -> Nat]
    <3>1. job[p].acct \in Accounts
      BY <1>0 DEF Job
    <3>. QED
      BY <1>0, <1>3, <2>1, <3>1 DEF Refund
  <2>3. pc' \in [Procs -> Labels]
    BY <1>3, GoToType DEF Refund, Labels
  <2>. QED
    BY <1>3, <2>2, <2>3 DEF Refund, TypeOK, work, history
<1>4. ASSUME NEW p \in Procs, Accept(p) PROVE TypeOK'
  <2>1. spent' \in [Accounts -> Nat]
    BY <1>0, <1>4 DEF Accept, TypeOK, Job
  <2>2. accepted' \in Seq(Nat) /\ Len(accepted') = Len(accepted)
    <3>1. CASE job[p].item = 0
      BY <3>1, <1>0, <1>4 DEF Accept
    <3>2. CASE job[p].item # 0
      <4>1. accepted' = [accepted EXCEPT ![job[p].item] = UpTo(2, accepted[job[p].item] + 1)]
        BY <3>2, <1>4 DEF Accept
      <4>2. job[p].item \in DOMAIN accepted
        BY <3>2, <1>0 DEF Queued
      <4>3. accepted[job[p].item] \in Nat
        BY <4>2, <1>0
      <4>4. UpTo(2, accepted[job[p].item] + 1) \in Nat
        BY <4>3 DEF UpTo
      <4>. QED
        BY <4>1, <4>4, <1>0, SetNumber
    <3>. QED
      BY <3>1, <3>2
  <2>3. [job[p] EXCEPT !.charged = FALSE] \in Job
    BY <1>0 DEF Job
  <2>4. pc' \in [Procs -> Labels] /\ job' \in [Procs -> Job]
    <3>1. CASE job[p].item = 0
      BY <3>1, <1>4, FinishType DEF Accept, Labels
    <3>2. CASE job[p].item # 0
      BY <3>2, <1>0, <1>4, <2>3, GoToType DEF Accept, Labels
    <3>. QED
      BY <3>1, <3>2
  <2>. QED
    BY <1>4, <2>1, <2>2, <2>4 DEF Accept, TypeOK, tables, work
<1>5. ASSUME NEW p \in Procs, Reject(p) PROVE TypeOK'
  <2>1. PICK retry \in BOOLEAN : job' = [job EXCEPT ![p].retry = retry]
    BY <1>5 DEF Reject
  <2>2. [job[p] EXCEPT !.retry = retry] \in Job
    BY <1>0 DEF Job
  <2>3. job' \in [Procs -> Job]
    BY <1>0, <2>1, <2>2
  <2>4. pc' \in [Procs -> Labels]
    BY <1>5, GoToType DEF Reject, Labels
  <2>. QED
    BY <1>5, <2>3, <2>4 DEF Reject, TypeOK, tables, work, history
<1>6. ASSUME NEW p \in Procs, Queue(p) PROVE TypeOK'
  <2>1. [acct |-> job[p].acct, attempts |-> 1, status |-> "pending", due |-> FALSE] \in Item
    BY <1>0 DEF Job, Item
  <2>2. /\ queue' \in Seq(Item)
        /\ tries' \in Seq(Nat) /\ Len(tries') = Len(queue')
        /\ accepted' \in Seq(Nat) /\ Len(accepted') = Len(queue')
    <3>1. CASE ~job[p].retry
      BY <3>1, <1>0, <1>6 DEF Queue
    <3>2. CASE job[p].retry
      <4>1. /\ queue' = Append(queue, [acct |-> job[p].acct, attempts |-> 1,
                                       status |-> "pending", due |-> FALSE])
            /\ tries' = Append(tries, 0) /\ accepted' = Append(accepted, 0)
        BY <3>2, <1>6 DEF Queue
      <4>. QED
        BY <4>1, <2>1, <1>0
    <3>. QED
      BY <3>1, <3>2
  <2>3. pc' \in [Procs -> Labels] /\ job' \in [Procs -> Job]
    BY <1>6, FinishType DEF Queue, Labels
  <2>. QED
    BY <1>6, <2>2, <2>3 DEF Queue, TypeOK, work
<1>7. ASSUME NEW p \in Procs, StartRetries(p) PROVE TypeOK'
  <2>1. Due \subseteq Nat
    BY <1>0 DEF Due
  <2>2. todo' \in [Procs -> SUBSET Nat]
    BY <1>7, <2>1 DEF StartRetries, TypeOK
  <2>3. pc' \in [Procs -> Labels]
    BY <1>7, GoToType DEF StartRetries, Labels
  <2>. QED
    BY <1>7, <2>2, <2>3 DEF StartRetries, TypeOK, tables, history
<1>8. ASSUME NEW p \in Procs, RetryItem(p) PROVE TypeOK'
  <2>1. PICK i \in todo[p] \cap DOMAIN queue :
          /\ todo' = [todo EXCEPT ![p] = @ \ {i}]
          /\ tries' = [tries EXCEPT ![i] = UpTo(MaxRetries, @ + 1)]
          /\ Reserve(p, queue[i].acct, i)
    BY <1>8 DEF RetryItem
  <2>2. i \in Nat /\ queue[i] \in Item /\ i \in DOMAIN tries
    BY <1>0, ItemOf
  <2>3. queue[i].acct \in Accounts
    BY <2>2 DEF Item
  <2>4. balance' \in [Accounts -> Nat] /\ pc' \in [Procs -> Labels] /\ job' \in [Procs -> Job]
    BY <2>1, <2>2, <2>3, ReserveType
  <2>5. tries[i] \in Nat /\ MaxRetries \in Nat
    BY <2>2, <1>0 DEF MessagingAssumption
  <2>6. UpTo(MaxRetries, tries[i] + 1) \in Nat
    BY <2>5 DEF UpTo
  <2>8. tries' \in Seq(Nat) /\ Len(tries') = Len(tries)
    BY <2>1, <2>6, <1>0, SetNumber
  <2>7. todo' \in [Procs -> SUBSET Nat]
    BY <2>1 DEF TypeOK
  <2>. QED
    BY <1>8, <2>4, <2>7, <2>8 DEF RetryItem, TypeOK
<1>9. ASSUME NEW p \in Procs, EndRetries(p) PROVE TypeOK'
  <2>1. pc' \in [Procs -> Labels]
    BY <1>9, GoToType DEF EndRetries, Labels
  <2>. QED
    BY <1>9, <2>1 DEF EndRetries, TypeOK, tables, work, history
<1>10. ASSUME NEW p \in Procs, SettleSent(p) PROVE TypeOK'
  <2>1. queue' \in Seq(Item) /\ Len(queue') = Len(queue)
    <3>1. CASE job[p].item \in DOMAIN queue
      <4>1. queue[job[p].item] \in Item
        BY <3>1, <1>0, ItemOf
      <4>2. [queue[job[p].item] EXCEPT !.status = "sent"] \in Item
        BY <4>1 DEF Item
      <4>. QED
        BY <4>2, <1>0, <1>10, SetItem DEF SettleSent
    <3>2. CASE job[p].item \notin DOMAIN queue
      BY <3>2, <1>0, <1>10, SetNowhere DEF SettleSent
    <3>. QED
      BY <3>1, <3>2
  <2>2. pc' \in [Procs -> Labels] /\ job' \in [Procs -> Job]
    BY <1>10, FinishType DEF SettleSent, Labels
  <2>. QED
    BY <1>10, <2>1, <2>2 DEF SettleSent, TypeOK, work, history
<1>11. ASSUME NEW p \in Procs, ReadAttempts(p) PROVE TypeOK'
  <2>1. job[p].item \in DOMAIN queue
    BY <1>11 DEF ReadAttempts, Queued
  <2>2. queue[job[p].item].attempts \in Nat
    BY <2>1, <1>0, ItemOf DEF Item
  <2>3. [job[p] EXCEPT !.seen = queue[job[p].item].attempts] \in Job
    BY <2>2, <1>0 DEF Job
  <2>4. job' \in [Procs -> Job]
    BY <2>3, <1>0, <1>11 DEF ReadAttempts
  <2>5. pc' \in [Procs -> Labels]
    BY <1>11, GoToType DEF ReadAttempts, Labels
  <2>. QED
    BY <1>11, <2>4, <2>5 DEF ReadAttempts, TypeOK, tables, work, history
<1>12. ASSUME NEW p \in Procs, CountAttempt(p) PROVE TypeOK'
  <2>. DEFINE i == job[p].item
              n == job[p].seen + 1
              item == IF IsOver(n) THEN [queue[i] EXCEPT !.attempts = n, !.status = "failed"]
                                   ELSE [queue[i] EXCEPT !.attempts = n, !.due = FALSE]
  <2>1. queue' = [queue EXCEPT ![i] = item]
    BY <1>12 DEF CountAttempt, Counted
  <2>2. queue' \in Seq(Item) /\ Len(queue') = Len(queue)
    <3>1. CASE i \in DOMAIN queue
      <4>1. queue[i] \in Item /\ n \in Nat
        BY <3>1, <1>0, ItemOf DEF Job
      <4>2. item \in Item
        BY <4>1 DEF Item
      <4>. HIDE DEF item
      <4>. QED
        BY <4>2, <2>1, <1>0, SetItem
    <3>2. CASE i \notin DOMAIN queue
      <4>. HIDE DEF item
      <4>. QED
        BY <3>2, <1>0, <2>1, SetNowhere
    <3>. QED
      BY <3>1, <3>2
  <2>3. pc' \in [Procs -> Labels] /\ job' \in [Procs -> Job]
    BY <1>12, FinishType DEF CountAttempt, Labels
  <2>. QED
    BY <1>12, <2>2, <2>3 DEF CountAttempt, TypeOK, work, history
<1>13. ASSUME NEW p \in Procs, ReadForTopUp(p) PROVE TypeOK'
  <2>1. pc' \in [Procs -> Labels]
    BY <1>13, GoToType DEF ReadForTopUp, Labels
  <2>2. form' \in [Procs -> [Accounts -> Nat]]
    BY <1>13, <1>0 DEF ReadForTopUp, TypeOK
  <2>3. requests' \in Nat
    BY <1>13 DEF ReadForTopUp, TypeOK
  <2>. QED
    BY <1>13, <2>1, <2>2, <2>3 DEF ReadForTopUp, TypeOK, tables, history
<1>14. ASSUME NEW p \in Procs, TopUp(p) PROVE TypeOK'
  <2>1. PICK chosen \in SUBSET Accounts, m \in Amounts \cup {0}, n \in Amounts \cup {0},
             base \in {form[p], [a \in Accounts |-> 0]} :
          balance' = Filled(p, chosen, base, m, n)
    BY <1>14 DEF TopUp
  <2>2. m \in Nat /\ n \in Nat
    BY DEF MessagingAssumption
  <2>3. base \in [Accounts -> Nat]
    BY DEF TypeOK
  <2>4. balance' \in [Accounts -> Nat]
    BY <2>1, <2>2, <2>3, <1>0 DEF Filled
  <2>5. added' \in [Accounts -> Int]
    BY <1>14, <2>4, <1>0 DEF TopUp, TypeOK
  <2>6. pc' \in [Procs -> Labels]
    BY <1>14, GoToType DEF TopUp, Labels
  <2>7. form' \in [Procs -> [Accounts -> Nat]]
    BY <1>14 DEF TopUp, TypeOK
  <2>. QED
    BY <1>14, <2>4, <2>5, <2>6, <2>7 DEF TopUp, TypeOK
<1>15. ASSUME NEW p \in Procs, ItemCrashes(p) \/ Crash(p) PROVE TypeOK'
  <2>1. added' \in [Accounts -> Int]
    BY <1>0, <1>15 DEF ItemCrashes, Crash, TypeOK, Job
  <2>2. pc' \in [Procs -> Labels] /\ job' \in [Procs -> Job]
    BY <1>15, FinishType DEF ItemCrashes, Crash, Labels
  <2>3. /\ todo' \in [Procs -> SUBSET Nat]
        /\ form' \in [Procs -> [Accounts -> Nat]]
    <3>1. CASE ItemCrashes(p)
      BY <3>1 DEF ItemCrashes, TypeOK, work
    <3>2. CASE Crash(p)
      <4>1. [a \in Accounts |-> 0] \in [Accounts -> Nat]
        OBVIOUS
      <4>. QED
        BY <3>2, <4>1 DEF Crash, TypeOK
    <3>. QED
      BY <1>15, <3>1, <3>2
  <2>. QED
    BY <1>15, <2>1, <2>2, <2>3 DEF ItemCrashes, Crash, TypeOK, tables, work
<1>16. ASSUME NEW p \in Procs, NEW a \in Accounts, Send(p, a) PROVE TypeOK'
  <2>1. balance' \in [Accounts -> Nat] /\ pc' \in [Procs -> Labels] /\ job' \in [Procs -> Job]
    BY <1>16, ReserveType DEF Send
  <2>2. requests' \in Nat
    BY <1>16 DEF Send, TypeOK
  <2>. QED
    BY <1>16, <2>1, <2>2 DEF Send, TypeOK, work, history
<1>17. ASSUME NEW i, Elapse(i) PROVE TypeOK'
  <2>1. queue[i] \in Item
    BY <1>0, <1>17, ItemOf DEF Elapse
  <2>2. [queue[i] EXCEPT !.due = TRUE] \in Item
    BY <2>1 DEF Item
  <2>3. queue' \in Seq(Item) /\ Len(queue') = Len(queue)
    BY <2>2, <1>0, <1>17, SetItem DEF Elapse
  <2>. QED
    BY <1>17, <2>3 DEF Elapse, TypeOK, work, history
<1>18. ASSUME NEW a \in Accounts, ChangeSettings(a) PROVE TypeOK'
  BY <1>18 DEF ChangeSettings, TypeOK, tables, work, history
<1>19. ASSUME UNCHANGED vars PROVE TypeOK'
  BY <1>19 DEF vars, TypeOK, tables, work, history
<1>. QED
  BY <1>1, <1>2, <1>3, <1>4, <1>5, <1>6, <1>7, <1>8, <1>9, <1>10, <1>11, <1>12, <1>13,
     <1>14, <1>15, <1>16, <1>17, <1>18, <1>19 DEF Next, SendStep, RetryStep

------------------------------------------------------------------------------
(* One process moves                                                        *)

Moves(p, label, j) == pc' = [pc EXCEPT ![p] = label] /\ job' = [job EXCEPT ![p] = j]

LEMMA Moved ==
  ASSUME TypeOK, NEW p \in Procs, NEW label, NEW j, Moves(p, label, j)
  PROVE  /\ pc'[p] = label /\ job'[p] = j
         /\ \A q \in Procs \ {p} : pc'[q] = pc[q] /\ job'[q] = job[q]
BY DEF TypeOK, Moves

LEMMA GoToMoves ==
  ASSUME TypeOK, NEW p \in Procs, NEW label, GoTo(p, label), UNCHANGED job
  PROVE  Moves(p, label, job[p])
<1>1. job = [job EXCEPT ![p] = job[p]]
  BY DEF TypeOK
<1>. QED
  BY <1>1 DEF GoTo, Moves

LEMMA FinishMoves ==
  ASSUME NEW p, NEW label, Finish(p, label) PROVE Moves(p, label, NoJob)
BY DEF Finish, GoTo, Moves

LEMMA PickMoves ==
  ASSUME NEW p, NEW a, NEW i, NEW charged, NEW label, Pick(p, a, i, charged, label)
  PROVE  Moves(p, label, Picked(a, i, charged))
BY DEF Pick, GoTo, Moves

LEMMA NoJobIdle == NoJob.item = 0 /\ NoJob.charged = FALSE
BY DEF NoJob

LEMMA KeepsOrder ==
  ASSUME TypeOK, HandsInOrder, Queued, NEW p \in Procs, NEW label, NEW j, Moves(p, label, j),
         Orderly(label, j), j.item # 0 => j.item \in DOMAIN queue,
         DOMAIN queue \subseteq DOMAIN queue'
  PROVE  HandsInOrder' /\ Queued'
<1>1. ASSUME NEW q \in Procs
      PROVE  Orderly(pc[q], job[q])' /\ (job'[q].item # 0 => job'[q].item \in DOMAIN queue')
  <2>1. CASE q = p
    BY <2>1, Moved DEF Orderly
  <2>2. CASE q # p
    BY <2>2, Moved DEF Orderly, HandsInOrder, Queued
  <2>. QED
    BY <2>1, <2>2
<1>. QED
  BY <1>1 DEF HandsInOrder, Queued

------------------------------------------------------------------------------
(* Credits in hand                                                          *)

InHand(label, j, a) == label \in Holding /\ j.charged /\ j.acct = a

LEMMA HoldersFinite ==
  ASSUME MessagingAssumption, NEW a
  PROVE  IsFiniteSet(Holders(a)) /\ Cardinality(Holders(a)) \in Nat
<1>1. IsFiniteSet(Procs)
  BY FS_Union DEF MessagingAssumption, Procs
<1>2. Holders(a) \in SUBSET Procs
  BY DEF Holders
<1>3. IsFiniteSet(Holders(a))
  BY <1>1, <1>2, FS_Subset
<1>. QED
  BY <1>3, FS_CardinalityType

LEMMA HoldersMove ==
  ASSUME MessagingAssumption, TypeOK, NEW p \in Procs, NEW label, NEW j, Moves(p, label, j), NEW a
  PROVE  /\ (InHand(label, j, a) <=> Holds(p, a)) =>
              Cardinality(Holders(a))' = Cardinality(Holders(a))
         /\ InHand(label, j, a) /\ ~Holds(p, a) =>
              Cardinality(Holders(a))' = Cardinality(Holders(a)) + 1
         /\ ~InHand(label, j, a) /\ Holds(p, a) =>
              /\ Cardinality(Holders(a))' = Cardinality(Holders(a)) - 1
              /\ Cardinality(Holders(a)) > 0
<1>1. Holds(p, a)' <=> InHand(label, j, a)
  BY Moved DEF Holds, InHand
<1>2. \A q \in Procs \ {p} : Holds(q, a)' <=> Holds(q, a)
  BY Moved DEF Holds
<1>3. IsFiniteSet(Holders(a)) /\ Cardinality(Holders(a)) \in Nat
  BY HoldersFinite
<1>4. CASE InHand(label, j, a) <=> Holds(p, a)
  <2>1. Holders(a)' = Holders(a)
    BY <1>1, <1>2, <1>4 DEF Holders
  <2>. QED
    BY <2>1, <1>4
<1>5. CASE InHand(label, j, a) /\ ~Holds(p, a)
  <2>1. Holders(a)' = Holders(a) \cup {p} /\ p \notin Holders(a)
    BY <1>1, <1>2, <1>5 DEF Holders
  <2>2. Cardinality(Holders(a)') = Cardinality(Holders(a)) + 1
    BY <2>1, <1>3, FS_AddElement
  <2>. QED
    BY <2>2, <1>5
<1>6. CASE ~InHand(label, j, a) /\ Holds(p, a)
  <2>1. Holders(a)' = Holders(a) \ {p} /\ p \in Holders(a)
    BY <1>1, <1>2, <1>6 DEF Holders
  <2>2. Cardinality(Holders(a)') = Cardinality(Holders(a)) - 1
    BY <2>1, <1>3, FS_RemoveElement
  <2>3. Cardinality(Holders(a)) # 0
    BY <2>1, <1>3, FS_EmptySet
  <2>. QED
    BY <2>2, <2>3, <1>3, <1>6
<1>. QED
  BY <1>4, <1>5, <1>6

LEMMA HeldSame ==
  ASSUME MessagingAssumption, TypeOK, NEW p \in Procs, NEW label, NEW j, Moves(p, label, j),
         \A a \in Accounts : InHand(label, j, a) <=> Holds(p, a)
  PROVE  Held' = Held
<1>1. \A a \in Accounts : Cardinality(Holders(a))' = Cardinality(Holders(a))
  BY HoldersMove
<1>. QED
  BY <1>1, Zenon DEF Held

LEMMA HeldTaken ==
  ASSUME MessagingAssumption, TypeOK, NEW p \in Procs, NEW label, NEW j, Moves(p, label, j),
         NEW a \in Accounts, InHand(label, j, a), \A b \in Accounts : ~Holds(p, b)
  PROVE  Held' = [Held EXCEPT ![a] = @ + 1]
<1>1. ASSUME NEW b \in Accounts
      PROVE  Cardinality(Holders(b))' = IF b = a THEN Cardinality(Holders(b)) + 1
                                        ELSE Cardinality(Holders(b))
  <2>1. InHand(label, j, b) <=> b = a
    BY DEF InHand
  <2>. QED
    BY <2>1, HoldersMove
<1>2. Held' = [b \in Accounts |-> Cardinality(Holders(b))']
  BY DEF Held
<1>3. Held' = [b \in Accounts |-> IF b = a THEN Cardinality(Holders(b)) + 1
                                  ELSE Cardinality(Holders(b))]
  BY <1>1, <1>2
<1>. QED
  BY <1>3 DEF Held

LEMMA HeldGone ==
  ASSUME MessagingAssumption, TypeOK, NEW p \in Procs, NEW label, NEW j, Moves(p, label, j),
         NEW a \in Accounts, Holds(p, a), \A b \in Accounts : ~InHand(label, j, b)
  PROVE  Held' = [Held EXCEPT ![a] = @ - 1] /\ Held[a] > 0
<1>1. ASSUME NEW b \in Accounts
      PROVE  Cardinality(Holders(b))' = IF b = a THEN Cardinality(Holders(b)) - 1
                                        ELSE Cardinality(Holders(b))
  <2>1. Holds(p, b) <=> b = a
    BY DEF Holds
  <2>. QED
    BY <2>1, HoldersMove
<1>2. Held' = [b \in Accounts |-> Cardinality(Holders(b))']
  BY DEF Held
<1>3. Held' = [b \in Accounts |-> IF b = a THEN Cardinality(Holders(b)) - 1
                                  ELSE Cardinality(Holders(b))]
  BY <1>1, <1>2
<1>4. Cardinality(Holders(a)) > 0
  BY HoldersMove
<1>. QED
  BY <1>3, <1>4 DEF Held

\* What a step does to credits
CreditStep ==
  \/ UNCHANGED <<balance, Held, spent, added>>
  \/ \E a \in Accounts : /\ Credits!Take(a) \/ Credits!Return(a) \/ Credits!Spend(a)
                         /\ added' = added
  \/ \E a \in Accounts : Credits!Lose(a) /\ added' = [added EXCEPT ![a] = @ - 1]
  \/ /\ Credits!Write
     /\ added' = [a \in Accounts |-> added[a] + balance'[a] - balance[a]]

Disciplined == HandsInOrder' /\ Queued' /\ CreditStep

\* A process that neither takes nor gives up a credit.
LEMMA QuietMove ==
  ASSUME MessagingAssumption, TypeOK, HandsInOrder, Queued,
         NEW p \in Procs, NEW label, NEW j, Moves(p, label, j), Orderly(label, j),
         j.charged = job[p].charged, j.charged => j.acct = job[p].acct,
         j.item # 0 => j.item \in DOMAIN queue,
         DOMAIN queue \subseteq DOMAIN queue', UNCHANGED <<balance, spent, added>>
  PROVE  Disciplined
<1>1. HandsInOrder' /\ Queued'
  BY KeepsOrder
<1>2. \A a \in Accounts : InHand(label, j, a) <=> Holds(p, a)
  BY DEF InHand, Holds, Orderly, HandsInOrder
<1>3. Held' = Held
  BY <1>2, HeldSame
<1>. QED
  BY <1>1, <1>3 DEF Disciplined, CreditStep

LEMMA StillMove ==
  ASSUME HandsInOrder, Queued, UNCHANGED <<pc, job, balance, spent, added>>,
         DOMAIN queue \subseteq DOMAIN queue'
  PROVE  Disciplined
<1>1. Held' = Held
  BY DEF Held, Holders, Holds
<1>2. HandsInOrder' /\ Queued'
  BY DEF HandsInOrder, Orderly, Queued
<1>. QED
  BY <1>1, <1>2 DEF Disciplined, CreditStep

\* A process that ends what it did without holding a credit.
LEMMA FinishMove ==
  ASSUME MessagingAssumption, TypeOK, HandsInOrder, Queued,
         NEW p \in Procs, NEW label, label \notin {"debit", "debitRow", "refund"}, Finish(p, label), ~job[p].charged,
         DOMAIN queue \subseteq DOMAIN queue', UNCHANGED <<balance, spent, added>>
  PROVE  Disciplined
<1>1. job[p].charged = FALSE
  BY DEF TypeOK, Job
<1>. QED
  BY <1>1, FinishMoves, NoJobIdle, QuietMove DEF Orderly

LEMMA ReserveMove ==
  ASSUME MessagingAssumption, TypeOK, HandsInOrder, Queued,
         NEW p \in Procs, NEW a \in Accounts, NEW i \in Nat, i # 0 => i \in DOMAIN queue,
         pc[p] \in {"idle", "retrying"}, Reserve(p, a, i), UNCHANGED <<queue, spent, added>>
  PROVE  Disciplined
<1>0. job[p].charged = FALSE
  BY DEF HandsInOrder, Orderly, Holding, TypeOK, Job
<1>1. ASSUME NEW charged \in BOOLEAN
      PROVE  /\ Picked(a, i, charged).item = i /\ Picked(a, i, charged).charged = charged
             /\ Picked(a, i, charged).acct = a
  BY DEF Picked
<1>2. ASSUME NEW label, label \notin {"debit", "debitRow", "refund"}, Pick(p, a, i, FALSE, label), UNCHANGED balance
      PROVE  Disciplined
  <2>1. Orderly(label, Picked(a, i, FALSE))
    BY <1>1, <1>2 DEF Orderly
  <2>. QED
    BY <1>0, <1>1, <1>2, <2>1, PickMoves, QuietMove
<1>3. ASSUME balance[a] > 0, balance' = [balance EXCEPT ![a] = @ - 1],
             Pick(p, a, i, TRUE, "debit")
      PROVE  Disciplined
  <2>1. Moves(p, "debit", Picked(a, i, TRUE))
    BY <1>3, PickMoves
  <2>2. Orderly("debit", Picked(a, i, TRUE)) /\ InHand("debit", Picked(a, i, TRUE), a)
    BY <1>1 DEF Orderly, InHand, Holding
  <2>3. HandsInOrder' /\ Queued'
    BY <1>1, <2>1, <2>2, KeepsOrder
  <2>4. \A b \in Accounts : ~Holds(p, b)
    BY <1>0 DEF Holds
  <2>5. Held' = [Held EXCEPT ![a] = @ + 1]
    BY <2>1, <2>2, <2>4, HeldTaken
  <2>6. Credits!Take(a)
    BY <1>3, <2>5 DEF Credits!Take, Credits!Add
  <2>. QED
    BY <2>3, <2>6 DEF Disciplined, CreditStep
<1>4. Finish(p, "idle") /\ UNCHANGED balance => Disciplined
  BY <1>0, FinishMove
<1>. QED
  BY <1>2, <1>3, <1>4 DEF Reserve, HasCredit

\* A process whose credit goes back, pays, or is lost.
LEMMA HandsOver ==
  ASSUME MessagingAssumption, TypeOK, HandsInOrder, Queued,
         NEW p \in Procs, NEW label, NEW j, Moves(p, label, j), label \notin {"debit", "debitRow", "refund"},
         job[p].charged, ~j.charged, j.item # 0 => j.item \in DOMAIN queue, UNCHANGED queue
  PROVE  /\ HandsInOrder' /\ Queued'
         /\ job[p].acct \in Accounts /\ Held[job[p].acct] > 0
         /\ Held' = [Held EXCEPT ![job[p].acct] = @ - 1]
<1>1. HandsInOrder' /\ Queued'
  BY KeepsOrder DEF Orderly
<1>2. job[p].acct \in Accounts
  BY DEF TypeOK, Job
<1>3. Holds(p, job[p].acct)
  BY DEF Holds, HandsInOrder, Orderly
<1>4. \A b \in Accounts : ~InHand(label, j, b)
  BY DEF InHand
<1>. QED
  BY <1>1, <1>2, <1>3, <1>4, HeldGone

LEMMA CreditDiscipline ==
  ASSUME MessagingAssumption, TypeOK, HandsInOrder, Queued, [Next]_vars
  PROVE  Disciplined
<1>0. /\ job \in [Procs -> Job] /\ queue \in Seq(Item)
      /\ \A p \in Procs : job[p] \in Job /\ job[p].charged \in BOOLEAN /\ Orderly(pc[p], job[p])
      /\ \A p \in Procs : job[p].item # 0 => job[p].item \in DOMAIN queue
  BY DEF TypeOK, HandsInOrder, Job, Queued
<1>1. ASSUME NEW p \in Procs, ReadBalance(p) PROVE Disciplined
  <2>. DEFINE j == [job[p] EXCEPT !.seen = balance[job[p].acct]]
              label == IF pc[p] = "debit" THEN "debitRow" ELSE "creditRow"
  <2>1. Moves(p, label, j)
    BY <1>1, <1>0 DEF ReadBalance, GoTo, Moves
  <2>2. j.charged = job[p].charged /\ j.acct = job[p].acct /\ j.item = job[p].item
    BY <1>0 DEF Job
  <2>3. Orderly(label, j)
    BY <1>0, <1>1, <2>2 DEF ReadBalance, Orderly, Holding
  <2>. HIDE DEF j, label
  <2>. QED
    BY <1>0, <1>1, <2>1, <2>2, <2>3, QuietMove DEF ReadBalance, tables, history
<1>2. ASSUME NEW p \in Procs, WriteRow(p) PROVE Disciplined
  <2>. DEFINE label == IF pc[p] = "debitRow" THEN "send" ELSE "failed"
  <2>1. Moves(p, label, job[p])
    BY <1>2, GoToMoves DEF WriteRow
  <2>2. Orderly(label, job[p])
    BY <1>0, <1>2 DEF WriteRow, Orderly, Holding
  <2>. HIDE DEF label
  <2>. QED
    BY <1>0, <1>2, <2>1, <2>2, QuietMove DEF WriteRow, history
<1>3. ASSUME NEW p \in Procs, Refund(p) PROVE Disciplined
  <2>. DEFINE j == [job[p] EXCEPT !.charged = FALSE]
              a == job[p].acct
  <2>1. Moves(p, "credit", j) /\ ~j.charged /\ j.item = job[p].item
    BY <1>0, <1>3 DEF Refund, GoTo, Moves, Job
  <2>2. job[p].charged
    BY <1>0, <1>3 DEF Refund, Orderly
  <2>. HIDE DEF j
  <2>3. /\ HandsInOrder' /\ Queued' /\ a \in Accounts /\ Held[a] > 0
        /\ Held' = [Held EXCEPT ![a] = @ - 1]
    BY <1>0, <1>3, <2>1, <2>2, HandsOver DEF Refund
  <2>4. Credits!Return(a)
    BY <1>3, <2>3 DEF Refund, Credits!Return, Credits!Add, history
  <2>. QED
    BY <1>3, <2>3, <2>4 DEF Refund, Disciplined, CreditStep, history
<1>4. ASSUME NEW p \in Procs, Accept(p) PROVE Disciplined
  <2>. DEFINE kept == [job[p] EXCEPT !.charged = FALSE]
              j == IF job[p].item = 0 THEN NoJob ELSE kept
              label == IF job[p].item = 0 THEN "idle" ELSE "sent"
              a == job[p].acct
  <2>1. kept.charged = FALSE /\ kept.item = job[p].item
    BY <1>0 DEF Job
  <2>. HIDE DEF kept
  <2>2. j.charged = FALSE /\ (j.item # 0 => j.item \in DOMAIN queue)
    BY <1>0, <2>1, NoJobIdle
  <2>3. Moves(p, label, j)
    BY <1>4 DEF Accept, Finish, GoTo, Moves, kept
  <2>4. UNCHANGED <<queue, balance, added>>
    BY <1>4 DEF Accept, tables
  <2>5. CASE ~job[p].charged
    <3>1. spent' = spent
      BY <1>4, <2>5 DEF Accept, TypeOK
    <3>2. label \notin {"debit", "debitRow", "refund"}
      OBVIOUS
    <3>. HIDE DEF j, label
    <3>. QED
      BY <1>0, <2>2, <2>3, <2>4, <2>5, <3>1, <3>2, QuietMove DEF Orderly
  <2>6. CASE job[p].charged
    <3>1. label \notin {"debit", "debitRow", "refund"}
      OBVIOUS
    <3>. HIDE DEF j, label
    <3>2. /\ HandsInOrder' /\ Queued' /\ a \in Accounts /\ Held[a] > 0
          /\ Held' = [Held EXCEPT ![a] = @ - 1]
      BY <2>2, <2>3, <2>4, <2>6, <3>1, HandsOver
    <3>3. spent' = [spent EXCEPT ![a] = @ + 1]
      BY <1>4, <2>6 DEF Accept
    <3>4. Credits!Spend(a)
      BY <2>4, <3>2, <3>3 DEF Credits!Spend, Credits!Add
    <3>. QED
      BY <2>4, <3>2, <3>4 DEF Disciplined, CreditStep
  <2>. QED
    BY <2>5, <2>6
<1>5. ASSUME NEW p \in Procs, Reject(p) PROVE Disciplined
  <2>1. PICK retry \in BOOLEAN : job' = [job EXCEPT ![p].retry = retry]
    BY <1>5 DEF Reject
  <2>. DEFINE j == [job[p] EXCEPT !.retry = retry]
              label == IF job[p].charged THEN "refund"
                       ELSE IF job[p].item # 0 /\ job[p].acct \in WhatsApps THEN "count"
                       ELSE "failed"
  <2>2. Moves(p, label, j)
    BY <1>0, <1>5, <2>1 DEF Reject, Owed, GoTo, Moves
  <2>3. j.charged = job[p].charged /\ j.acct = job[p].acct /\ j.item = job[p].item
    BY <1>0 DEF Job
  <2>4. Orderly(label, j)
    BY <2>3 DEF Orderly, Holding
  <2>. HIDE DEF j, label
  <2>. QED
    BY <1>0, <1>5, <2>2, <2>3, <2>4, QuietMove DEF Reject, tables, history
<1>6. ASSUME NEW p \in Procs, Queue(p) PROVE Disciplined
  <2>1. ~job[p].charged
    BY <1>0, <1>6 DEF Queue, Orderly, Holding
  <2>2. DOMAIN queue \subseteq DOMAIN queue'
    BY <1>0, <1>6 DEF Queue
  <2>. QED
    BY <1>6, <2>1, <2>2, FinishMove DEF Queue
<1>7. ASSUME NEW p \in Procs, StartRetries(p) PROVE Disciplined
  <2>1. Moves(p, "retrying", job[p]) /\ Orderly("retrying", job[p])
    BY <1>0, <1>7, GoToMoves DEF StartRetries, Orderly, Holding
  <2>. QED
    BY <1>0, <1>7, <2>1, QuietMove DEF StartRetries, tables, history
<1>8. ASSUME NEW p \in Procs, RetryItem(p) PROVE Disciplined
  <2>1. PICK i \in todo[p] \cap DOMAIN queue : Reserve(p, queue[i].acct, i)
    BY <1>8 DEF RetryItem
  <2>2. queue[i] \in Item
    BY <1>0, ItemOf
  <2>3. queue[i].acct \in Accounts /\ i \in Nat
    BY <2>2, <1>0 DEF Item
  <2>. QED
    BY <1>8, <2>1, <2>3, ReserveMove DEF RetryItem
<1>9. ASSUME NEW p \in Procs, EndRetries(p) PROVE Disciplined
  <2>1. Moves(p, "idle", job[p]) /\ Orderly("idle", job[p])
    BY <1>0, <1>9, GoToMoves DEF EndRetries, Orderly, Holding
  <2>. QED
    BY <1>0, <1>9, <2>1, QuietMove DEF EndRetries, tables, history
<1>10. ASSUME NEW p \in Procs, SettleSent(p) PROVE Disciplined
  <2>1. ~job[p].charged
    BY <1>0, <1>10 DEF SettleSent, Orderly, Holding
  <2>2. DOMAIN queue \subseteq DOMAIN queue'
    BY <1>0, <1>10 DEF SettleSent
  <2>. QED
    BY <1>10, <2>1, <2>2, FinishMove DEF SettleSent, history
<1>11. ASSUME NEW p \in Procs, ReadAttempts(p) PROVE Disciplined
  <2>. DEFINE j == [job[p] EXCEPT !.seen = queue[job[p].item].attempts]
  <2>1. Moves(p, "count", j)
    BY <1>0, <1>11 DEF ReadAttempts, GoTo, Moves
  <2>2. j.charged = job[p].charged /\ j.acct = job[p].acct /\ j.item = job[p].item
    BY <1>0 DEF Job
  <2>3. Orderly("count", j)
    BY <1>0, <1>11, <2>2 DEF ReadAttempts, Orderly, Holding
  <2>. HIDE DEF j
  <2>. QED
    BY <1>0, <1>11, <2>1, <2>2, <2>3, QuietMove DEF ReadAttempts, tables, history
<1>12. ASSUME NEW p \in Procs, CountAttempt(p) PROVE Disciplined
  <2>1. ~job[p].charged
    BY <1>0, <1>12 DEF CountAttempt, Orderly, Holding
  <2>2. DOMAIN queue \subseteq DOMAIN queue'
    BY <1>0, <1>12 DEF CountAttempt
  <2>. QED
    BY <1>12, <2>1, <2>2, FinishMove DEF CountAttempt, history
<1>13. ASSUME NEW p \in Procs, ReadForTopUp(p) PROVE Disciplined
  <2>1. Moves(p, "topup", job[p]) /\ Orderly("topup", job[p])
    BY <1>0, <1>13, GoToMoves DEF ReadForTopUp, Orderly, Holding
  <2>. QED
    BY <1>0, <1>13, <2>1, QuietMove DEF ReadForTopUp, tables, history
<1>14. ASSUME NEW p \in Procs, TopUp(p) PROVE Disciplined
  <2>1. Moves(p, "idle", job[p]) /\ Orderly("idle", job[p])
    BY <1>0, <1>14, GoToMoves DEF TopUp, Orderly, Holding
  <2>2. HandsInOrder' /\ Queued'
    BY <1>0, <1>14, <2>1, KeepsOrder DEF TopUp
  <2>3. \A a \in Accounts : InHand("idle", job[p], a) <=> Holds(p, a)
    BY <1>14, <1>0 DEF TopUp, InHand, Holds, Holding
  <2>4. Held' = Held
    BY <2>1, <2>3, HeldSame
  <2>5. balance' \in [Accounts -> Nat]
    BY TypeStep DEF TypeOK
  <2>6. Credits!Write
    BY <1>14, <2>4, <2>5 DEF TopUp, Credits!Write
  <2>7. added' = [a \in Accounts |-> added[a] + balance'[a] - balance[a]]
    BY <1>14 DEF TopUp
  <2>. QED
    BY <2>2, <2>6, <2>7 DEF Disciplined, CreditStep
<1>15. ASSUME NEW p \in Procs, NEW label \in {"idle", "retrying"}, Finish(p, label),
              added' = [added EXCEPT ![job[p].acct] = @ - IF job[p].charged THEN 1 ELSE 0],
              UNCHANGED <<queue, balance, spent>>
       PROVE  Disciplined
  <2>1. Moves(p, label, NoJob)
    BY <1>15, FinishMoves
  <2>2. CASE ~job[p].charged
    <3>1. added' = added
      BY <1>15, <2>2 DEF TypeOK
    <3>. QED
      BY <1>15, <2>2, <3>1, FinishMove
  <2>3. CASE job[p].charged
    <3>. DEFINE a == job[p].acct
    <3>1. /\ HandsInOrder' /\ Queued' /\ a \in Accounts /\ Held[a] > 0
          /\ Held' = [Held EXCEPT ![a] = @ - 1]
      BY <1>15, <2>1, <2>3, NoJobIdle, HandsOver
    <3>2. Credits!Lose(a)
      BY <1>15, <3>1 DEF Credits!Lose, Credits!Add
    <3>3. added' = [added EXCEPT ![a] = @ - 1]
      BY <1>15, <2>3
    <3>. QED
      BY <3>1, <3>2, <3>3 DEF Disciplined, CreditStep
  <2>. QED
    BY <2>2, <2>3
<1>16. ASSUME NEW p \in Procs, ItemCrashes(p) \/ Crash(p) PROVE Disciplined
  BY <1>15, <1>16 DEF ItemCrashes, Crash, tables
<1>17. ASSUME NEW p \in Procs, NEW a \in Accounts, Send(p, a) PROVE Disciplined
  BY <1>17, ReserveMove DEF Send, history
<1>18. ASSUME NEW i, Elapse(i) PROVE Disciplined
  <2>1. DOMAIN queue \subseteq DOMAIN queue'
    BY <1>0, <1>18 DEF Elapse
  <2>. QED
    BY <1>18, <2>1, StillMove DEF Elapse, history
<1>19. ASSUME NEW a \in Accounts, ChangeSettings(a) PROVE Disciplined
  BY <1>19, StillMove DEF ChangeSettings, tables, history
<1>20. ASSUME UNCHANGED vars PROVE Disciplined
  BY <1>20, StillMove DEF vars, tables, history
<1>. QED
  BY <1>1, <1>2, <1>3, <1>4, <1>5, <1>6, <1>7, <1>8, <1>9, <1>10, <1>11, <1>12, <1>13,
     <1>14, <1>16, <1>17, <1>18, <1>19, <1>20 DEF Next, SendStep, RetryStep

\* Whatever a step does to credits, the sum stays what it has to be.
LEMMA ConservedStep ==
  ASSUME MessagingAssumption, TypeOK, CreditsConserved, CreditStep, TypeOK'
  PROVE  CreditsConserved'
<1>0. /\ \A a \in Accounts : /\ balance[a] \in Nat /\ spent[a] \in Nat /\ added[a] \in Int
                             /\ Held[a] \in Nat /\ balance'[a] \in Nat
      /\ InitCredits \in Nat
  <2>1. \A a \in Accounts : Held[a] \in Nat
    BY HoldersFinite DEF Held
  <2>. QED
    BY <2>1 DEF TypeOK, MessagingAssumption
<1>1. Held = [a \in Accounts |-> Held[a]]
  BY DEF Held
<1>2. \A a \in Accounts : balance[a] + Held[a] + spent[a] = InitCredits + added[a]
  BY DEF CreditsConserved
<1>3. SUFFICES \A b \in Accounts : balance'[b] + Held'[b] + spent'[b] = InitCredits + added'[b]
  BY DEF CreditsConserved
<1>4. CASE UNCHANGED <<balance, Held, spent, added>>
  BY <1>2, <1>4
<1>5. ASSUME NEW a \in Accounts, Credits!Take(a), added' = added
      PROVE  \A b \in Accounts : balance'[b] + Held'[b] + spent'[b] = InitCredits + added'[b]
  BY <1>0, <1>1, <1>2, <1>5 DEF Credits!Take, Credits!Add, TypeOK
<1>6. ASSUME NEW a \in Accounts, Credits!Return(a), added' = added
      PROVE  \A b \in Accounts : balance'[b] + Held'[b] + spent'[b] = InitCredits + added'[b]
  BY <1>0, <1>1, <1>2, <1>6 DEF Credits!Return, Credits!Add, TypeOK
<1>7. ASSUME NEW a \in Accounts, Credits!Spend(a), added' = added
      PROVE  \A b \in Accounts : balance'[b] + Held'[b] + spent'[b] = InitCredits + added'[b]
  BY <1>0, <1>1, <1>2, <1>7 DEF Credits!Spend, Credits!Add, TypeOK
<1>8. ASSUME NEW a \in Accounts, Credits!Lose(a), added' = [added EXCEPT ![a] = @ - 1]
      PROVE  \A b \in Accounts : balance'[b] + Held'[b] + spent'[b] = InitCredits + added'[b]
  <2>. TAKE b \in Accounts
  <2>1. balance'[b] = balance[b] /\ spent'[b] = spent[b]
    BY <1>8 DEF Credits!Lose
  <2>2. Held'[b] = IF b = a THEN Held[b] - 1 ELSE Held[b]
    BY <1>1, <1>8 DEF Credits!Lose, Credits!Add
  <2>3. added'[b] = IF b = a THEN added[b] - 1 ELSE added[b]
    BY <1>8 DEF TypeOK
  <2>. QED
    BY <1>0, <1>2, <2>1, <2>2, <2>3
<1>9. ASSUME Credits!Write, added' = [a \in Accounts |-> added[a] + balance'[a] - balance[a]]
      PROVE  \A b \in Accounts : balance'[b] + Held'[b] + spent'[b] = InitCredits + added'[b]
  BY <1>0, <1>2, <1>9 DEF Credits!Write
<1>. QED
  BY <1>4, <1>5, <1>6, <1>7, <1>8, <1>9 DEF CreditStep

LEMMA CreditInit ==
  ASSUME MessagingAssumption, Init
  PROVE  HandsInOrder /\ Queued /\ CreditsConserved /\ Credits!AccountInit
<1>1. \A p \in Procs : job[p].charged = FALSE /\ job[p].item = 0 /\ pc[p] = "idle"
  BY NoJobIdle DEF Init
<1>2. \A a \in Accounts : Holders(a) = {}
  BY <1>1 DEF Holders, Holds, Holding
<1>3. Held = [a \in Accounts |-> 0]
  BY <1>2, FS_EmptySet DEF Held
<1>4. HandsInOrder /\ Queued
  BY <1>1 DEF HandsInOrder, Orderly, Queued
<1>5. CreditsConserved
  BY <1>3 DEF Init, CreditsConserved, MessagingAssumption
<1>. QED
  BY <1>3, <1>4, <1>5 DEF Init, Credits!AccountInit

------------------------------------------------------------------------------
(* Attempts                                                                 *)

LEMMA RetryingFinite ==
  ASSUME MessagingAssumption, NEW i
  PROVE  IsFiniteSet(Retrying(i)) /\ Cardinality(Retrying(i)) \in Nat
<1>1. IsFiniteSet(Procs)
  BY FS_Union DEF MessagingAssumption, Procs
<1>2. Retrying(i) \in SUBSET Procs
  BY DEF Retrying
<1>3. IsFiniteSet(Retrying(i))
  BY <1>1, <1>2, FS_Subset
<1>. QED
  BY <1>3, FS_CardinalityType

LEMMA RetryingMove ==
  ASSUME MessagingAssumption, TypeOK, NEW p \in Procs, NEW label, NEW j, Moves(p, label, j), NEW i
  PROVE  /\ j.item # i => Retrying(i)' = Retrying(i) \ {p}
         /\ j.item = i => Retrying(i)' = Retrying(i) \cup {p}
         /\ j.item = job[p].item => Cardinality(Retrying(i))' = Cardinality(Retrying(i))
         /\ j.item # i => Cardinality(Retrying(i))' <= Cardinality(Retrying(i))
         /\ j.item # i /\ job[p].item = i =>
              Cardinality(Retrying(i))' = Cardinality(Retrying(i)) - 1
         /\ Cardinality(Retrying(i))' <= Cardinality(Retrying(i)) + 1
         /\ Cardinality(Retrying(i))' \in Nat /\ Cardinality(Retrying(i)) \in Nat
<1>1. IsFiniteSet(Retrying(i)) /\ Cardinality(Retrying(i)) \in Nat
  BY RetryingFinite
<1>2. j.item # i => Retrying(i)' = Retrying(i) \ {p}
  BY Moved DEF Retrying
<1>3. j.item = i => Retrying(i)' = Retrying(i) \cup {p}
  BY Moved DEF Retrying
<1>4. p \in Retrying(i) <=> job[p].item = i
  BY DEF Retrying
<1>5. j.item # i => Cardinality(Retrying(i)') = IF job[p].item = i THEN Cardinality(Retrying(i)) - 1
                                                 ELSE Cardinality(Retrying(i))
  BY <1>1, <1>2, <1>4, FS_RemoveElement
<1>6. j.item = i => Cardinality(Retrying(i)') = IF job[p].item = i THEN Cardinality(Retrying(i))
                                                 ELSE Cardinality(Retrying(i)) + 1
  BY <1>1, <1>3, <1>4, FS_AddElement
<1>7. p \in Retrying(i) => Cardinality(Retrying(i)) # 0
  BY <1>1, FS_EmptySet
<1>8. Cardinality(Retrying(i))' = Cardinality(Retrying(i)')
  OBVIOUS
<1>. QED
  BY <1>1, <1>2, <1>3, <1>4, <1>5, <1>6, <1>7, <1>8

LEMMA QueueFacts ==
  ASSUME TypeOK, NEW i \in DOMAIN queue
  PROVE  /\ i \in Nat /\ i # 0 /\ tries[i] \in Nat
         /\ queue[i] \in Item /\ queue[i].attempts \in Nat /\ queue[i].acct \in Accounts
<1>1. queue \in Seq(Item) /\ tries \in Seq(Nat) /\ Len(tries) = Len(queue)
  BY DEF TypeOK
<1>2. queue[i] \in Item
  BY <1>1, ItemOf
<1>. QED
  BY <1>1, <1>2 DEF Item

\* A move that starts no retry and counts no attempt
LEMMA BoundKept ==
  ASSUME MessagingAssumption, TypeOK, AttemptsBounded, GivenUpLate,
         NEW p \in Procs, NEW label, NEW j, Moves(p, label, j), j.item \in {0, job[p].item},
         j.item # 0 /\ (label = "count" \/ (label = "send" /\ ~j.charged)) =>
            (j.seen = job[p].seen /\ Counting(p)) \/ j.seen = queue[j.item].attempts,
         UNCHANGED tries, DOMAIN queue' = DOMAIN queue,
         \A i \in DOMAIN queue : /\ queue'[i].attempts = queue[i].attempts
                                 /\ queue'[i].status = "failed" => queue[i].status = "failed"
  PROVE  AttemptsBounded' /\ GivenUpLate'
<1>1. ASSUME NEW i \in DOMAIN queue, tries[i] < MaxRetries
      PROVE  /\ queue'[i].attempts <= Bound(i)'
             /\ \A q \in Retrying(i)' : Counting(q)' => job'[q].seen <= Bound(i)'
  <2>1. i # 0 /\ tries[i] \in Nat /\ queue[i].attempts \in Nat
    BY QueueFacts
  <2>2. Bound(i) <= Bound(i)' /\ Bound(i) \in Int /\ Bound(i)' \in Int
    <3>1. Cardinality(Retrying(i))' <= Cardinality(Retrying(i))
      BY RetryingMove, <2>1
    <3>2. Cardinality(Retrying(i))' \in Nat /\ Cardinality(Retrying(i)) \in Nat
      BY RetryingMove
    <3>. QED
      BY <2>1, <3>1, <3>2 DEF Bound
  <2>3. queue[i].attempts <= Bound(i)
    BY <1>1 DEF AttemptsBounded
  <2>4. ASSUME NEW q \in Retrying(i)', Counting(q)' PROVE job'[q].seen <= Bound(i)'
    <3>1. q \in Procs /\ job'[q].item = i
      BY <2>4 DEF Retrying
    <3>2. CASE q = p
      <4>1. j.item = i /\ job'[p] = j /\ pc'[p] = label /\ job[p].item = i
        BY <3>1, <3>2, <2>1, Moved
      <4>2. label = "count" \/ (label = "send" /\ ~j.charged)
        BY <4>1, <3>2, <2>4 DEF Counting
      <4>3. CASE j.seen = queue[i].attempts
        BY <4>1, <4>3, <3>2, <2>1, <2>2, <2>3
      <4>4. CASE j.seen = job[p].seen /\ Counting(p)
        <5>1. p \in Retrying(i)
          BY <4>1 DEF Retrying
        <5>2. job[p].seen <= Bound(i) /\ job[p].seen \in Nat
          BY <5>1, <4>4, <1>1 DEF AttemptsBounded, TypeOK, Job
        <5>. QED
          BY <5>2, <4>1, <4>4, <3>2, <2>2
      <4>. QED
        BY <4>1, <4>2, <4>3, <4>4, <2>1
    <3>3. CASE q # p
      <4>1. job'[q] = job[q] /\ pc'[q] = pc[q]
        BY <3>1, <3>3, Moved
      <4>2. q \in Retrying(i) /\ Counting(q)
        BY <4>1, <3>1, <2>4 DEF Retrying, Counting
      <4>3. job[q].seen <= Bound(i) /\ job[q].seen \in Nat
        BY <4>2, <3>1, <1>1 DEF AttemptsBounded, TypeOK, Job
      <4>. QED
        BY <4>1, <4>3, <2>2
    <3>. QED
      BY <3>2, <3>3
  <2>. QED
    BY <2>1, <2>2, <2>3, <2>4
<1>2. AttemptsBounded'
  BY <1>1 DEF AttemptsBounded
<1>3. GivenUpLate'
  BY DEF GivenUpLate
<1>. QED
  BY <1>2, <1>3

LEMMA BoundStill ==
  ASSUME TypeOK, AttemptsBounded, GivenUpLate, UNCHANGED <<pc, job, tries>>,
         DOMAIN queue' = DOMAIN queue,
         \A i \in DOMAIN queue : /\ queue'[i].attempts = queue[i].attempts
                                 /\ queue'[i].status = "failed" => queue[i].status = "failed"
  PROVE  AttemptsBounded' /\ GivenUpLate'
<1>1. \A i : Retrying(i)' = Retrying(i)
  BY DEF Retrying
<1>2. \A i : Bound(i)' = Bound(i)
  BY <1>1 DEF Bound
<1>3. \A p : Counting(p)' <=> Counting(p)
  BY DEF Counting
<1>. QED
  BY <1>1, <1>2, <1>3 DEF AttemptsBounded, GivenUpLate

LEMMA FinishBound ==
  ASSUME MessagingAssumption, TypeOK, AttemptsBounded, GivenUpLate,
         NEW p \in Procs, NEW label, Finish(p, label), UNCHANGED <<queue, tries>>
  PROVE  AttemptsBounded' /\ GivenUpLate'
BY FinishMoves, NoJobIdle, BoundKept

\* Retries are counted up to MaxRetries and never down.
LEMMA TriedAgain ==
  ASSUME MessagingAssumption, NEW n \in Nat
  PROVE  /\ UpTo(MaxRetries, n + 1) \in Nat
         /\ UpTo(MaxRetries, n + 1) < MaxRetries =>
              n < MaxRetries /\ UpTo(MaxRetries, n + 1) = n + 1
         /\ n >= MaxRetries => UpTo(MaxRetries, n + 1) >= MaxRetries
BY DEF UpTo, MessagingAssumption

LEMMA RetryBound ==
  ASSUME MessagingAssumption, TypeOK, AttemptsBounded, GivenUpLate,
         NEW p \in Procs, NEW i \in DOMAIN queue, NEW label, NEW charged \in BOOLEAN,
         Pick(p, queue[i].acct, i, charged, label),
         tries' = [tries EXCEPT ![i] = UpTo(MaxRetries, @ + 1)], UNCHANGED queue
  PROVE  AttemptsBounded' /\ GivenUpLate'
<1>. DEFINE j == Picked(queue[i].acct, i, charged)
<1>1. Moves(p, label, j)
  BY PickMoves
<1>2. j.item = i /\ j.seen = queue[i].attempts
  BY QueueFacts DEF Picked
<1>. HIDE DEF j
<1>3. \A k \in DOMAIN queue : tries'[k] = IF k = i THEN UpTo(MaxRetries, tries[k] + 1) ELSE tries[k]
  BY DEF TypeOK
<1>4. ASSUME NEW k \in DOMAIN queue, tries'[k] < MaxRetries
      PROVE  /\ queue'[k].attempts <= Bound(k)'
             /\ \A q \in Retrying(k)' : Counting(q)' => job'[q].seen <= Bound(k)'
  <2>1. tries[k] \in Nat /\ queue[k].attempts \in Nat
    BY QueueFacts
  <2>2. tries[k] < MaxRetries /\ tries'[k] = IF k = i THEN tries[k] + 1 ELSE tries[k]
    BY <1>3, <1>4, <2>1, TriedAgain
  <2>3. Bound(k) <= Bound(k)' /\ Bound(k) \in Int /\ Bound(k)' \in Int
    <3>1. /\ Cardinality(Retrying(k))' \in Nat /\ Cardinality(Retrying(k)) \in Nat
          /\ Cardinality(Retrying(k))' <= Cardinality(Retrying(k)) + 1
      BY <1>1, RetryingMove
    <3>2. k # i => Cardinality(Retrying(k))' <= Cardinality(Retrying(k))
      BY <1>1, <1>2, RetryingMove
    <3>. QED
      BY <2>1, <2>2, <3>1, <3>2 DEF Bound
  <2>4. queue[k].attempts <= Bound(k)
    BY <2>2 DEF AttemptsBounded
  <2>5. ASSUME NEW q \in Retrying(k)', Counting(q)' PROVE job'[q].seen <= Bound(k)'
    <3>1. q \in Procs /\ job'[q].item = k
      BY <2>5 DEF Retrying
    <3>2. CASE q = p
      <4>1. job'[q] = j /\ k = i
        BY <1>1, <1>2, <3>1, <3>2, Moved
      <4>. QED
        BY <4>1, <1>2, <2>1, <2>3, <2>4
    <3>3. CASE q # p
      <4>1. job'[q] = job[q] /\ pc'[q] = pc[q]
        BY <1>1, <3>1, <3>3, Moved
      <4>2. q \in Retrying(k) /\ Counting(q)
        BY <4>1, <3>1, <2>5 DEF Retrying, Counting
      <4>3. job[q].seen <= Bound(k) /\ job[q].seen \in Nat
        BY <4>2, <3>1, <2>2 DEF AttemptsBounded, TypeOK, Job
      <4>. QED
        BY <4>1, <4>3, <2>3
    <3>. QED
      BY <3>2, <3>3
  <2>. QED
    BY <2>1, <2>3, <2>4, <2>5
<1>5. AttemptsBounded'
  BY <1>4 DEF AttemptsBounded
<1>6. GivenUpLate'
  <2>1. ASSUME NEW k \in DOMAIN queue, queue[k].status = "failed" PROVE tries'[k] >= MaxRetries
    <3>1. tries[k] \in Nat /\ tries[k] >= MaxRetries
      BY <2>1, QueueFacts DEF GivenUpLate
    <3>. QED
      BY <3>1, <1>3, TriedAgain
  <2>. QED
    BY <2>1 DEF GivenUpLate
<1>. QED
  BY <1>5, <1>6

\* An attempt that is counted was made: its process leaves the item.
LEMMA CountBound ==
  ASSUME MessagingAssumption, TypeOK, Queued, AttemptsBounded, GivenUpLate,
         NEW p \in Procs, CountAttempt(p), job[p].item # 0
  PROVE  AttemptsBounded' /\ GivenUpLate'
<1>. DEFINE i == job[p].item
            n == job[p].seen + 1
<1>1. Moves(p, "retrying", NoJob) /\ pc[p] = "count"
  BY FinishMoves DEF CountAttempt
<1>2. i \in DOMAIN queue /\ queue[i] \in Item /\ job[p].seen \in Nat
  BY QueueFacts DEF Queued, TypeOK, Job
<1>3. /\ DOMAIN queue' = DOMAIN queue
      /\ \A k \in DOMAIN queue \ {i} : queue'[k] = queue[k]
      /\ queue'[i].attempts = n
      /\ queue'[i].status = "failed" => queue[i].status = "failed" \/ n > MaxRetries
  BY <1>2 DEF CountAttempt, Counted, IsOver, TypeOK, Item
<1>4. tries' = tries
  BY DEF CountAttempt, history
<1>5. p \in Retrying(i) /\ Counting(p)
  BY <1>1 DEF Retrying, Counting
<1>6. MaxRetries \in Nat
  BY DEF MessagingAssumption
<1>7. ASSUME NEW k \in DOMAIN queue, tries[k] < MaxRetries
      PROVE  /\ queue'[k].attempts <= Bound(k)'
             /\ \A q \in Retrying(k)' : Counting(q)' => job'[q].seen <= Bound(k)'
  <2>1. tries[k] \in Nat /\ queue[k].attempts \in Nat /\ k # 0
    BY QueueFacts
  <2>2. /\ Bound(k) \in Int /\ Bound(k)' \in Int /\ Bound(k) <= Bound(k)'
        /\ k = i => Bound(k)' = Bound(k) + 1
    <3>1. /\ Cardinality(Retrying(k))' \in Nat /\ Cardinality(Retrying(k)) \in Nat
          /\ Cardinality(Retrying(k))' <= Cardinality(Retrying(k))
          /\ k = i => Cardinality(Retrying(k))' = Cardinality(Retrying(k)) - 1
      BY <1>1, <2>1, NoJobIdle, RetryingMove
    <3>. QED
      BY <1>4, <2>1, <3>1 DEF Bound
  <2>3. queue'[k].attempts <= Bound(k)'
    <3>1. CASE k = i
      <4>1. job[p].seen <= Bound(k)
        BY <1>5, <1>7, <3>1 DEF AttemptsBounded
      <4>. QED
        BY <4>1, <1>2, <1>3, <2>2, <3>1
    <3>2. CASE k # i
      <4>1. queue[k].attempts <= Bound(k)
        BY <1>7 DEF AttemptsBounded
      <4>. QED
        BY <4>1, <1>3, <2>1, <2>2, <3>2
    <3>. QED
      BY <3>1, <3>2
  <2>4. ASSUME NEW q \in Retrying(k)', Counting(q)' PROVE job'[q].seen <= Bound(k)'
    <3>1. q \in Procs /\ job'[q].item = k
      BY <2>4 DEF Retrying
    <3>2. q # p
      BY <1>1, <2>1, <3>1, NoJobIdle, Moved
    <3>3. job'[q] = job[q] /\ pc'[q] = pc[q]
      BY <1>1, <3>1, <3>2, Moved
    <3>4. q \in Retrying(k) /\ Counting(q)
      BY <3>1, <3>3, <2>4 DEF Retrying, Counting
    <3>5. job[q].seen <= Bound(k) /\ job[q].seen \in Nat
      BY <3>1, <3>4, <1>7 DEF AttemptsBounded, TypeOK, Job
    <3>. QED
      BY <3>3, <3>5, <2>2
  <2>. QED
    BY <2>3, <2>4
<1>8. AttemptsBounded'
  BY <1>3, <1>4, <1>7 DEF AttemptsBounded
<1>9. n > MaxRetries => tries[i] >= MaxRetries
  <2>1. SUFFICES ASSUME tries[i] < MaxRetries PROVE n <= MaxRetries
    BY <1>2, <1>6, QueueFacts
  <2>2. job[p].seen <= Bound(i)
    BY <1>2, <1>5, <2>1 DEF AttemptsBounded
  <2>3. Cardinality(Retrying(i)) \in Nat /\ Cardinality(Retrying(i)) # 0
    BY <1>5, RetryingFinite, FS_EmptySet
  <2>4. tries[i] \in Nat
    BY <1>2, QueueFacts
  <2>. QED
    BY <1>2, <1>6, <2>1, <2>2, <2>3, <2>4 DEF Bound
<1>10. GivenUpLate'
  BY <1>2, <1>3, <1>4, <1>9 DEF GivenUpLate
<1>. QED
  BY <1>8, <1>10

\* A new item has no retries behind it and none under way.
LEMMA QueueBound ==
  ASSUME MessagingAssumption, TypeOK, Queued, AttemptsBounded, GivenUpLate,
         NEW p \in Procs, Queue(p), job[p].retry
  PROVE  AttemptsBounded' /\ GivenUpLate'
<1>0. PICK new \in Nat : new = Len(queue) + 1
  BY DEF TypeOK
<1>1. Moves(p, "idle", NoJob) /\ job[p].item = 0
  BY FinishMoves DEF Queue
<1>2. /\ DOMAIN queue' = DOMAIN queue \cup {new} /\ new \notin DOMAIN queue
      /\ \A k \in DOMAIN queue : queue'[k] = queue[k] /\ tries'[k] = tries[k]
      /\ queue'[new].attempts = 1 /\ queue'[new].status = "pending" /\ tries'[new] = 0
  BY <1>0 DEF Queue, TypeOK
<1>3. new # 0 /\ \A k \in DOMAIN queue : k # 0
  BY <1>0 DEF TypeOK
<1>4. \A k \in DOMAIN queue \cup {new} : Retrying(k)' = Retrying(k)
  <2>1. ASSUME NEW k, k # 0 PROVE Retrying(k)' = Retrying(k)
    <3>1. Retrying(k)' = Retrying(k) \ {p}
      BY <1>1, <2>1, NoJobIdle, RetryingMove
    <3>2. p \notin Retrying(k)
      BY <1>1, <2>1 DEF Retrying
    <3>. QED
      BY <3>1, <3>2
  <2>. QED
    BY <2>1, <1>3
<1>5. Retrying(new) = {}
  BY <1>2, <1>3 DEF Retrying, Queued
<1>6. ASSUME NEW k \in DOMAIN queue, tries'[k] < MaxRetries
      PROVE  /\ queue'[k].attempts <= Bound(k)'
             /\ \A q \in Retrying(k)' : Counting(q)' => job'[q].seen <= Bound(k)'
  <2>1. Bound(k)' = Bound(k)
    BY <1>2, <1>4 DEF Bound
  <2>2. ASSUME NEW q \in Retrying(k)
        PROVE  q # p /\ q \in Procs /\ job'[q] = job[q] /\ pc'[q] = pc[q]
    <3>1. q # p /\ q \in Procs
      BY <1>1, <1>3 DEF Retrying
    <3>. QED
      BY <3>1, <1>1, Moved
  <2>. QED
    BY <1>2, <1>4, <1>6, <2>1, <2>2 DEF AttemptsBounded, Counting
<1>7. queue'[new].attempts <= Bound(new)' /\ Retrying(new)' = {}
  <2>1. Retrying(new)' = {}
    BY <1>4, <1>5
  <2>2. Bound(new)' = 1
    BY <1>2, <2>1, FS_EmptySet DEF Bound
  <2>. QED
    BY <1>2, <2>1, <2>2
<1>8. AttemptsBounded'
  BY <1>2, <1>6, <1>7 DEF AttemptsBounded
<1>9. GivenUpLate'
  BY <1>2 DEF GivenUpLate
<1>. QED
  BY <1>8, <1>9

LEMMA AttemptsStep ==
  ASSUME MessagingAssumption, TypeOK, Queued, HandsInOrder, AttemptsBounded, GivenUpLate, [Next]_vars
  PROVE  AttemptsBounded' /\ GivenUpLate'
<1>0. \A p \in Procs : job[p] \in Job /\ Orderly(pc[p], job[p]) /\ job[p].charged \in BOOLEAN
  BY DEF TypeOK, HandsInOrder, Job
<1>1. ASSUME NEW p \in Procs, ReadBalance(p) PROVE AttemptsBounded' /\ GivenUpLate'
  <2>. DEFINE j == [job[p] EXCEPT !.seen = balance[job[p].acct]]
              label == IF pc[p] = "debit" THEN "debitRow" ELSE "creditRow"
  <2>1. Moves(p, label, j) /\ j.item = job[p].item
    BY <1>0, <1>1 DEF ReadBalance, GoTo, Moves, Job
  <2>2. label \notin {"count", "send"}
    OBVIOUS
  <2>. HIDE DEF j, label
  <2>. QED
    BY <1>1, <2>1, <2>2, BoundKept DEF ReadBalance, tables, history
<1>2. ASSUME NEW p \in Procs, WriteRow(p) PROVE AttemptsBounded' /\ GivenUpLate'
  <2>. DEFINE label == IF pc[p] = "debitRow" THEN "send" ELSE "failed"
  <2>1. Moves(p, label, job[p])
    BY <1>2, GoToMoves DEF WriteRow
  <2>2. label # "count" /\ (label = "send" => job[p].charged)
    BY <1>0 DEF Orderly
  <2>. HIDE DEF label
  <2>. QED
    BY <1>2, <2>1, <2>2, BoundKept DEF WriteRow, history
<1>3. ASSUME NEW p \in Procs, Refund(p) PROVE AttemptsBounded' /\ GivenUpLate'
  <2>. DEFINE j == [job[p] EXCEPT !.charged = FALSE]
  <2>1. Moves(p, "credit", j) /\ j.item = job[p].item
    BY <1>0, <1>3 DEF Refund, GoTo, Moves, Job
  <2>. HIDE DEF j
  <2>. QED
    BY <1>3, <2>1, BoundKept DEF Refund, history
<1>4. ASSUME NEW p \in Procs, Accept(p) PROVE AttemptsBounded' /\ GivenUpLate'
  <2>1. CASE job[p].item = 0
    BY <1>4, <2>1, FinishBound DEF Accept, tables
  <2>2. CASE job[p].item # 0
    <3>. DEFINE j == [job[p] EXCEPT !.charged = FALSE]
    <3>1. Moves(p, "sent", j) /\ j.item = job[p].item
      BY <1>0, <1>4, <2>2 DEF Accept, GoTo, Moves, Job
    <3>. HIDE DEF j
    <3>. QED
      BY <1>4, <3>1, BoundKept DEF Accept, tables
  <2>. QED
    BY <2>1, <2>2
<1>5. ASSUME NEW p \in Procs, Reject(p) PROVE AttemptsBounded' /\ GivenUpLate'
  <2>1. PICK retry \in BOOLEAN : job' = [job EXCEPT ![p].retry = retry]
    BY <1>5 DEF Reject
  <2>. DEFINE j == [job[p] EXCEPT !.retry = retry]
              label == IF job[p].charged THEN "refund"
                       ELSE IF job[p].item # 0 /\ job[p].acct \in WhatsApps THEN "count"
                       ELSE "failed"
  <2>2. Moves(p, label, j)
    BY <1>0, <1>5, <2>1 DEF Reject, Owed, GoTo, Moves
  <2>3. j.seen = job[p].seen /\ j.item = job[p].item
    BY <1>0 DEF Job
  <2>4. label # "send" /\ (label = "count" => Counting(p))
    BY <1>5 DEF Reject, Counting
  <2>. HIDE DEF j, label
  <2>. QED
    BY <1>5, <2>2, <2>3, <2>4, BoundKept DEF Reject, tables, history
<1>6. ASSUME NEW p \in Procs, Queue(p) PROVE AttemptsBounded' /\ GivenUpLate'
  <2>1. CASE job[p].retry
    BY <1>6, <2>1, QueueBound
  <2>2. CASE ~job[p].retry
    BY <1>6, <2>2, FinishBound DEF Queue
  <2>. QED
    BY <2>1, <2>2
<1>7. ASSUME NEW p \in Procs,
             StartRetries(p) \/ EndRetries(p) \/ ReadForTopUp(p) \/ TopUp(p)
      PROVE  AttemptsBounded' /\ GivenUpLate'
  <2>1. PICK label \in {"retrying", "idle", "topup"} : Moves(p, label, job[p])
    BY <1>7, GoToMoves DEF StartRetries, EndRetries, ReadForTopUp, TopUp
  <2>2. UNCHANGED <<queue, tries>>
    BY <1>7 DEF StartRetries, EndRetries, ReadForTopUp, TopUp, tables, history
  <2>. QED
    BY <2>1, <2>2, BoundKept
<1>8. ASSUME NEW p \in Procs, RetryItem(p) PROVE AttemptsBounded' /\ GivenUpLate'
  <2>1. PICK i \in todo[p] \cap DOMAIN queue :
          /\ tries' = [tries EXCEPT ![i] = UpTo(MaxRetries, @ + 1)]
          /\ Reserve(p, queue[i].acct, i)
    BY <1>8 DEF RetryItem
  <2>2. i # 0
    BY QueueFacts
  <2>3. PICK label \in {"send", "debit", "failed", "count"}, charged \in BOOLEAN :
          Pick(p, queue[i].acct, i, charged, label)
    BY <2>1, <2>2 DEF Reserve
  <2>4. UNCHANGED queue /\ i \in DOMAIN queue
    BY <1>8 DEF RetryItem
  <2>5. tries' = [tries EXCEPT ![i] = UpTo(MaxRetries, @ + 1)]
    BY <2>1
  <2>. QED
    BY <2>3, <2>4, <2>5, RetryBound
<1>9. ASSUME NEW p \in Procs, SettleSent(p) PROVE AttemptsBounded' /\ GivenUpLate'
  <2>1. Moves(p, "retrying", NoJob) /\ NoJob.item = 0
    BY <1>9, FinishMoves, NoJobIdle DEF SettleSent
  <2>2. /\ DOMAIN queue' = DOMAIN queue
        /\ \A i \in DOMAIN queue : /\ queue'[i].attempts = queue[i].attempts
                                   /\ queue'[i].status = "failed" => queue[i].status = "failed"
    BY <1>9, QueueFacts DEF SettleSent, TypeOK, Item
  <2>. QED
    BY <1>9, <2>1, <2>2, BoundKept DEF SettleSent, history
<1>10. ASSUME NEW p \in Procs, ReadAttempts(p) PROVE AttemptsBounded' /\ GivenUpLate'
  <2>. DEFINE j == [job[p] EXCEPT !.seen = queue[job[p].item].attempts]
  <2>1. /\ Moves(p, "count", j) /\ j.item = job[p].item
        /\ j.seen = queue[j.item].attempts
    BY <1>0, <1>10 DEF ReadAttempts, GoTo, Moves, Job
  <2>. HIDE DEF j
  <2>. QED
    BY <1>10, <2>1, BoundKept DEF ReadAttempts, tables, history
<1>11. ASSUME NEW p \in Procs, CountAttempt(p) PROVE AttemptsBounded' /\ GivenUpLate'
  <2>1. CASE job[p].item # 0
    BY <1>11, <2>1, CountBound
  <2>2. CASE job[p].item = 0
    <3>1. 0 \notin DOMAIN queue
      BY DEF TypeOK
    <3>2. queue' = queue
      BY <1>11, <2>2, <3>1, SetNowhere DEF CountAttempt, TypeOK
    <3>. QED
      BY <1>11, <3>2, FinishBound DEF CountAttempt, history
  <2>. QED
    BY <2>1, <2>2
<1>12. ASSUME NEW p \in Procs, ItemCrashes(p) \/ Crash(p) PROVE AttemptsBounded' /\ GivenUpLate'
  BY <1>12, FinishBound DEF ItemCrashes, Crash, tables
<1>13. ASSUME NEW p \in Procs, NEW a \in Accounts, Send(p, a) PROVE AttemptsBounded' /\ GivenUpLate'
  <2>1. UNCHANGED <<queue, tries>> /\ Reserve(p, a, 0)
    BY <1>13 DEF Send, history
  <2>2. ASSUME NEW label, NEW charged \in BOOLEAN, Pick(p, a, 0, charged, label)
        PROVE  AttemptsBounded' /\ GivenUpLate'
    <3>1. Moves(p, label, Picked(a, 0, charged)) /\ Picked(a, 0, charged).item = 0
      BY <2>2, PickMoves DEF Picked
    <3>. QED
      BY <2>1, <3>1, BoundKept
  <2>3. Finish(p, "idle") => AttemptsBounded' /\ GivenUpLate'
    BY <2>1, FinishBound
  <2>. QED
    BY <2>1, <2>2, <2>3 DEF Reserve
<1>14. ASSUME NEW i, Elapse(i) PROVE AttemptsBounded' /\ GivenUpLate'
  <2>1. /\ DOMAIN queue' = DOMAIN queue
        /\ \A k \in DOMAIN queue : /\ queue'[k].attempts = queue[k].attempts
                                   /\ queue'[k].status = "failed" => queue[k].status = "failed"
    BY <1>14, QueueFacts DEF Elapse, TypeOK, Item
  <2>. QED
    BY <1>14, <2>1, BoundStill DEF Elapse, history
<1>15. ASSUME NEW a \in Accounts, ChangeSettings(a) PROVE AttemptsBounded' /\ GivenUpLate'
  BY <1>15, BoundStill DEF ChangeSettings, tables, history
<1>16. ASSUME UNCHANGED vars PROVE AttemptsBounded' /\ GivenUpLate'
  BY <1>16, BoundStill DEF vars, tables, history
<1>. QED
  BY <1>1, <1>2, <1>3, <1>4, <1>5, <1>6, <1>7, <1>8, <1>9, <1>10, <1>11, <1>12, <1>13,
     <1>14, <1>15, <1>16 DEF Next, SendStep, RetryStep

------------------------------------------------------------------------------
(* Theorems                                                                 *)

LEMMA Inductive == Spec => []IInv
<1>1. Init => IInv
  <2>1. SUFFICES ASSUME Init PROVE IInv
    OBVIOUS
  <2>2. DOMAIN queue = {}
    BY <2>1 DEF Init
  <2>3. AttemptsBounded /\ GivenUpLate
    BY <2>2 DEF AttemptsBounded, GivenUpLate
  <2>. QED
    BY <2>1, <2>3, MessagingAssumption, InitType, CreditInit DEF IInv
<1>2. IInv /\ [Next]_vars => IInv'
  <2>1. SUFFICES ASSUME IInv, [Next]_vars PROVE IInv'
    OBVIOUS
  <2>2. TypeOK'
    BY <2>1, MessagingAssumption, TypeStep DEF IInv
  <2>3. Disciplined
    BY <2>1, MessagingAssumption, CreditDiscipline DEF IInv
  <2>4. CreditsConserved'
    BY <2>1, <2>2, <2>3, MessagingAssumption, ConservedStep DEF IInv, Disciplined
  <2>5. AttemptsBounded' /\ GivenUpLate'
    BY <2>1, MessagingAssumption, AttemptsStep DEF IInv
  <2>. QED
    BY <2>2, <2>3, <2>4, <2>5 DEF IInv, Disciplined
<1>. QED
  BY <1>1, <1>2, PTL DEF Spec

\* Balances never go below zero and the tables keep their shape, whatever the
\* interleaving of reservations, refunds, top-ups, retries and crashes.
THEOREM MessagingTypes == Spec => []TypeOK
<1>1. IInv => TypeOK
  BY DEF IInv
<1>. QED
  BY <1>1, Inductive, PTL

\* No credit is spent or refunded twice and none leaks, for any number of
\* organizations, processes and messages (_reserve_*, _refund_*, charge_credit).
THEOREM CreditsAreConserved == Spec => []CreditsConserved
<1>1. IInv => CreditsConserved
  BY DEF IInv
<1>. QED
  BY <1>1, Inductive, PTL

\* run_notification_retries marks an item failed only after MaxRetries retries,
\* however many schedulers overwrite each other's count of attempts.
THEOREM GivenUpAfterAllRetries == Spec => []GivenUpLate
<1>1. IInv => GivenUpLate
  BY DEF IInv
<1>. QED
  BY <1>1, Inductive, PTL

\* The messaging service keeps the promises of a prepaid balance: every step is a
\* step of CreditAccount or leaves credits alone.
THEOREM KeepsAccounts == Spec => CreditSpec
<1>1. Init => Credits!AccountInit
  BY MessagingAssumption, CreditInit
<1>2. IInv /\ [Next]_vars => [Credits!AccountNext]_<<balance, Held, spent>>
  <2>1. SUFFICES ASSUME IInv, [Next]_vars PROVE [Credits!AccountNext]_<<balance, Held, spent>>
    OBVIOUS
  <2>2. CreditStep
    BY <2>1, MessagingAssumption, CreditDiscipline DEF IInv, Disciplined
  <2>. QED
    BY <2>2 DEF CreditStep, Credits!AccountNext
<1>. QED
  BY <1>1, <1>2, Inductive, PTL DEF Spec, CreditSpec, Credits!AccountSpec
=============================================================================
