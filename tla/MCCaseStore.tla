----------------------------- MODULE MCCaseStore -----------------------------
(***************************************************************************)
(* CaseStore on small instances: a full and a sparse document, whose parts *)
(* differ in every field, and a body that breaks a rule.                   *)
(***************************************************************************)
EXTENDS CaseStoreProps, TLC

Full ==
  [ case |-> [place |-> "VIA_PUBLICA", generalNotes |-> "notes", hadLegalComplaints |-> TRUE],
    victim |-> [nationality |-> "ARGENTINA", hasChildren |-> TRUE, numberOfChildren |-> 1],
    aggressor |-> [belongsSecurityForce |-> TRUE, securityForce |-> "force"] ]

Sparse ==
  [ case |-> [place |-> "OTRO_LUGAR"],
    victim |-> [fullName |-> "name"],
    aggressor |-> [fullName |-> "name"] ]

Refused ==
  [ case |-> [place |-> "OTRO_LUGAR", organizedCrimeNotes |-> "text",
              isRelatedToOrganizedCrime |-> FALSE],
    victim |-> [fullName |-> "name"],
    aggressor |-> [fullName |-> "name"] ]

MCBodies == {Full, Sparse, Refused}

MCAcceptedBodies == {Full}

RequestSymmetry == Permutations(Requests)
=============================================================================
