CONSTANTS
  Versions <- MCVersions
  Configs <- MCConfigs
  LocalKeys <- MCLocal
  Providers <- MCProviders
  Accepted <- MCAccepted
  Flaky <- MCFlaky
  MaxReloads = 0
  MaxChanges = 1
SPECIFICATION Spec
INVARIANTS
  ReadersFollowConfig
CHECK_DEADLOCK FALSE
