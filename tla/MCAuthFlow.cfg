SPECIFICATION Spec
CONSTANTS
  SignIns = {f1, f2}
  Browsers = {b1, b2}
  Accounts = {ana, eva, outsider}
  OrgAccounts = {ana, eva}
  NoAccount = NoAccount
  NoSignIn = NoSignIn
  Posts = {p1, p2}
  XsrfLife = 2
  CodeLife = 2
  TokenLife = 2
  MaxNow = 4
  MaxUserId = 2
SYMMETRY AuthSymmetry
INVARIANTS
  TypeOK
  TokenNamesWhoConsented
  OneUserPerAccount
  CodesEndWithTheirSignIn
  TurnedAwayOnlyIfOvertaken
  UserOperationsComeFromSignIns
PROPERTY
  UsersKeepTheirIds
CHECK_DEADLOCK FALSE
