SPECIFICATION Spec
CONSTANTS
  Null = Null
  NoCase = NoCase
  Bodies <- MCBodies
INVARIANTS
  TypeOK
  ReturnedCaseCanBeResubmitted
  StoredFactsHaveTheirPremises
PROPERTY
  EditLeavesNoResidue
