SPECIFICATION Spec
CONSTANTS
  Account = {a1, a2}
  Email = {e1}
  Session = {s1, s2, s3}
  Challenge = {c1, c2, c3}
  Identity = {i1}
  Login = {l1}
  None = None
  CodeInterval = 1
  CodeLifetime = 2
  IssueWindow = 3
  MaxIssues = 2
  MaxGuesses = 2
  MaxTime = 3
SYMMETRY Symmetry
INVARIANTS
  AccountsInv
  SessionMatchesCredential
  IssueBudget
PROPERTIES
  VerifiedByMailbox
  PasswordChangeIsComplete
  NoRevival
CHECK_DEADLOCK FALSE
