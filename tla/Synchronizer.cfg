SPECIFICATION SyncFairSpec
CONSTANTS
  Http = http
  Data = data
  MinExpiration = 1
  MaxExpiration = 2
  FallbackErrors = 2
  MaxQueue = 2
  MaxFallbacks = 1
  SetBack = 1
INVARIANTS NotStuck
PROPERTIES RulesReplaced
