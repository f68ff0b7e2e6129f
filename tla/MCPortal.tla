------------------------------ MODULE MCPortal ------------------------------
(* The candidate's side on a small instance.                                *)
EXTENDS CandidatePortal, TLC

Alike == Permutations(Browsers) \cup Permutations(Mobiles)
=============================================================================
