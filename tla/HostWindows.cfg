SPECIFICATION FairSpec
CONSTANTS
  Windows = {u, a, b}
  NoWindow = none
  Cookies = {c1, c2}
  UtilsFirst = u
  Reentered = FALSE
INVARIANTS CookiesKept PopupsOwned
PROPERTIES CookiesArrive
CHECK_DEADLOCK FALSE
