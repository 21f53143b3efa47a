\* A login overtaken by a reset of the password.
CONSTANTS
  Names = {alice, bob}
  Sids = {s1, s2}
  Procs = {p1, p2}
  Absent = Absent
  MaxUsers = 2
  MaxEpoch = 1
  UseCli = TRUE
SPECIFICATION Spec
SYMMETRY MCSymmetry
INVARIANT ResetLocksOut
