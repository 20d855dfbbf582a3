SPECIFICATION Spec
CONSTANTS
  RawConfigs <- MCRawConfigs
  Width = 10
  Clients = {c1, c2}
  MAX_WS_CONNECTIONS = 1
INVARIANTS
  TypeOK
  SettingsHold
  ServesOnlyChecked
  SlotsAccounted
PROPERTY
  ExcessDrains
