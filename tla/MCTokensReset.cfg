\* A sign-in from before a reset redeemed after it.
CONSTANTS
  Users = {u1}
  Clients = {app}
  Requests = {r1}
  Calls = {c1}
  None = None
  MaxEpoch = 1
  MaxMarks = 1
\* Accounts, clients and ids run out: the system may stop.
CHECK_DEADLOCK FALSE
SPECIFICATION Spec
SYMMETRY MCSymmetry
INVARIANT GrantsFollowReset
