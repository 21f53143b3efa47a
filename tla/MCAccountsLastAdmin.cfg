\* Two admins who act on each other at the same time, no CLI.
CONSTANTS
  Names = {alice, bob}
  Sids = {s1, s2}
  Procs = {p1, p2}
  Absent = Absent
  MaxUsers = 2
  MaxEpoch = 1
  UseCli = FALSE
SPECIFICATION Spec
SYMMETRY MCSymmetry
INVARIANT AdminRemains
