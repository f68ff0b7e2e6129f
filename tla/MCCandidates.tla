---------------------------- MODULE MCCandidates ----------------------------
(* Candidates on small instances, and what the repository's comments say.   *)
EXTENDS Candidates

CONSTANTS acme, bolt, m1, m2, role1, role2

Filled(mobile, employer, left, role, training, verified) ==
  [mobile |-> mobile, employer |-> employer, left |-> left, role |-> role,
   training |-> training, verified |-> verified]

\* In training, placed, moved and verified, left and dropped out
MCForms == {Filled(m1, NoCompany, FALSE, role1, "training_started", FALSE),
            Filled(m1, acme, FALSE, role1, "training_completed", FALSE),
            Filled(m2, bolt, FALSE, role2, "training_completed", TRUE),
            Filled(m2, bolt, TRUE, role2, "dropped_out", TRUE)}

\* organization_employer_delete: placements and history stay intact, candidates
\* working there keep their placement records.  A save that does not change the
\* employer does not end the placement.
PlacementKept ==
  [][\A i \in DOMAIN db.placements :
       LET c == db.placements[i].cand IN
       /\ c \notin raced'
       /\ db.placements[i].working /\ ~db'.placements[i].working
       => db'.cands[c].form.employer # db.cands[c].form.employer
          \/ db'.cands[c].form.left]_vars
==============================================================================
