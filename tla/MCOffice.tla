------------------------------ MODULE MCOffice ------------------------------
(* The office on small instances.                                            *)
EXTENDS Office, TLC

\* Requests and processes are told apart nowhere
Symmetric == Permutations(Requests) \cup Permutations(Processes)

\* A slot of each kind
MCKind == [s \in Slots |-> s]

\* A month of two days and one of one
MCFirstDay == <<0, 2, 3>>

MCCheckpoints == [l \in {"7 days"} |-> 0]

CONSTANTS c1, c2

MCOrganization == c1 :> "o1" @@ c2 :> "o2"

MCBound ==
  [tickets |-> 1, stored |-> 4, documents |-> 3, files |-> 3, days |-> 4, hours |-> 5,
   today |-> 2, made |-> 4, edits |-> 3,
   logins_now |-> 2, codes |-> 3, sessions |-> 2,
   tokens |-> 4, attempts_now |-> 4, attempts |-> 4, permissions_now |-> 1,
   reports_now |-> 3, data |-> 2, notices |-> 2]
==============================================================================
