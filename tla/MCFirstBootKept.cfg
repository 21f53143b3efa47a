\* Gitea, installed again over its kept data.
CONSTANTS
  Apps = {"gitea"}
  MaxInstalls = 2
SPECIFICATION Spec
INVARIANTS
  ClientRebuilt
CHECK_DEADLOCK FALSE
