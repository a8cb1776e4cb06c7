CONSTANTS
  Versions <- MCVersions
  Configs <- MCConfigs
  LocalKeys <- MCLocal
  Providers <- MCProviders
  Accepted <- MCAccepted
  Flaky <- MCFlaky
  MaxReloads = 2
  MaxChanges = 1
SPECIFICATION LiveSpec
INVARIANTS
  OneReloader
PROPERTIES
  ImplementsCollection
  ConfigIsCollected
  ReloadReturns
CHECK_DEADLOCK FALSE
