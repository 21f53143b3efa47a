\* Nobody keeps two jobs off one app.
CONSTANTS
  oidcApp = oidcApp
  plainApp = plainApp
  Apps = {oidcApp}
  NeedsOIDC = {oidcApp}
  Jobs = {j1, j2}
  PortRange = {1, 2}
  Preferred <- MCPreferred
  Exclusive = FALSE
  Misread = {}
  MaxClients = 1
  None = None
  Unmanaged = Unmanaged
  Partly = Partly
SPECIFICATION Spec
SYMMETRY MCSymmetry
PROPERTY NoDeletionUnderRunning
