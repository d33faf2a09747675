SPECIFICATION UtilsSpec
CONSTANTS
  Firefoxes = {f1, f2}
  User = user
  Nothing = nothing
  MaxEnds = 2
  MaxLosses = 2
  ReloadsFail = FALSE
  LateReloads = FALSE
  PrefIgnored = FALSE
  RegistryFails = FALSE
INVARIANTS SettingSafe
PROPERTIES Recovers
