\* Two overlapping Syncs, two apps, two changes while they run, any table to
\* start from; fairness, for EventuallyInStep.
CONSTANTS
  x = x
  y = y
  a1 = a1
  a2 = a2
  Apps = {1, 2}
  Hosts = {auth, portal, x, y}
  AuthHost = auth
  PortalHost = portal
  Addrs = {a1, a2}
  NoHost = NoHost
  NoAddr = NoAddr
  BadAddr = BadAddr
  NoRow = NoRow
  Nass = Nass
  NotFound = NotFound
  GateWired = TRUE
  Inputs <- MCInputs
  Syncers = {ticker, job}
  Ticker = ticker
  Free = Free
  MaxChanges = 2
SPECIFICATION FairSpec
INVARIANTS
  TypeOK
  FixedRoutesKept
  RegistryExact
  NoOutageDuringSync
PROPERTIES
  RemovedOnlyIfUnclaimed
  SyncIsOneStep
  EventuallyInStep
