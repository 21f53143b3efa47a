\* Two logins at the same time, nine ticks in windows of one second of three
\* ticks, four failures.
CONSTANTS
  IPs = {ip}
  Names = {alice, bob}
  AnyName = AnyName
  Workers = {w1, w2}
  max = 1
  ipMax = 2
  window = 3
  Second = 3
  MaxTime = 9
  MaxFailures = 4
SPECIFICATION Spec
SYMMETRY MCSymmetry
INVARIANTS
  TypeOK
  WindowExact
  OverrunBounded
  RetryKept
  NoStaleKeys
