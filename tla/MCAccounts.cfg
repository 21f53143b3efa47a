\* Two handlers beside the CLI; accounts come and go while logins are under way.
CONSTANTS
  Names = {alice, bob}
  Sids = {s1, s2}
  Procs = {p1, p2}
  Absent = Absent
  MaxUsers = 3
  MaxEpoch = 1
  UseCli = TRUE
SPECIFICATION Spec
SYMMETRY MCSymmetry
INVARIANTS
  TypeOK
  RevocationComplete
  SessionOfVerified
PROPERTY
  SessionsAreCredentials
