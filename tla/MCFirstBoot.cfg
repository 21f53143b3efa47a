\* Every app, and three installs over what the earlier ones left.
CONSTANTS
  Apps = {"jellyfin", "gitea", "calibreweb", "blinko", "nextcloud", "immich",
          "vikunja", "firefly", "qbittorrent"}
  MaxInstalls = 3
SPECIFICATION Spec
INVARIANTS
  TypeOK
  SettingsCurrent
  PasswordReported
  PrefsStay
PROPERTIES
  KeptAccountsAndKeys
CHECK_DEADLOCK FALSE
