------------------------------ MODULE MCAuthFlow ------------------------------
(***************************************************************************)
(* AuthFlow on a small instance: two tabs, in one browser or in two, three *)
(* calls of the token endpoint, and times of two units each.               *)
(***************************************************************************)
EXTENDS AuthFlow, TLC

AuthSymmetry ==
  Permutations(SignIns) \cup Permutations(Browsers) \cup Permutations(Posts)
=============================================================================
