\* One user, one sign-in, three token calls.
CONSTANTS
  Users = {u1}
  Clients = {app}
  Requests = {r1}
  Calls = {c1, c2, c3}
  None = None
  MaxEpoch = 1
  MaxMarks = 1
\* Accounts, clients and ids run out: the system may stop.
CHECK_DEADLOCK FALSE
SPECIFICATION Spec
SYMMETRY MCSymmetry
INVARIANTS
  TypeOK
  OneSuccessor
  RevocationComplete
  CodeGoneAfterUse
  RevokedStayDead
PROPERTIES
  RotatedForLiveClient
  TokensAreCredentials
