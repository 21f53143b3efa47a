\* Two jobs, one at a time on each of two apps.
CONSTANTS
  oidcApp = oidcApp
  plainApp = plainApp
  Apps = {oidcApp, plainApp}
  NeedsOIDC = {oidcApp}
  Jobs = {j1, j2}
  PortRange = {1, 2}
  Preferred <- MCPreferred
  Exclusive = TRUE
  Misread = {plainApp}
  MaxClients = 1
  None = None
  Unmanaged = Unmanaged
  Partly = Partly
SPECIFICATION Spec
SYMMETRY MCSymmetry
INVARIANTS
  TypeOK
  InstallComplete
  UninstallComplete
  RowHasFiles
  ContainersStoppable
PROPERTIES
  DeletionAfterDown
  OperatorDataSafe
