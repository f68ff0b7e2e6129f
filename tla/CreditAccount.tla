--------------------------- MODULE CreditAccount ---------------------------
(***************************************************************************)
(* What a prepaid balance promises: a message takes one credit in hand     *)
(* before it is sent, only where there is one, and afterwards the credit   *)
(* is either spent or returned, or lost with the process that held it.     *)
(* Whatever else changes a balance leaves the credits in hand and the      *)
(* spent ones alone.                                                       *)
(***************************************************************************)
EXTENDS Integers

CONSTANTS Accounts, InitCredits

VARIABLES avail, held, spent

Add(f, a, n) == [f EXCEPT ![a] = @ + n]

Take(a) == /\ avail[a] > 0
           /\ avail' = Add(avail, a, -1) /\ held' = Add(held, a, 1) /\ spent' = spent

Return(a) == /\ held[a] > 0
             /\ avail' = Add(avail, a, 1) /\ held' = Add(held, a, -1) /\ spent' = spent

Spend(a) == /\ held[a] > 0
            /\ avail' = avail /\ held' = Add(held, a, -1) /\ spent' = Add(spent, a, 1)

Lose(a) == /\ held[a] > 0
           /\ avail' = avail /\ held' = Add(held, a, -1) /\ spent' = spent

\* A form writes balances
Write == avail' \in [Accounts -> Nat] /\ held' = held /\ spent' = spent

AccountInit == /\ avail = [a \in Accounts |-> InitCredits]
               /\ held = [a \in Accounts |-> 0] /\ spent = [a \in Accounts |-> 0]

AccountNext == Write \/ \E a \in Accounts : Take(a) \/ Return(a) \/ Spend(a) \/ Lose(a)

AccountSpec == AccountInit /\ [][AccountNext]_<<avail, held, spent>>
=============================================================================
