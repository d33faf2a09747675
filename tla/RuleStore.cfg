SPECIFICATION Spec
CONSTANTS
  r1 = r1
  r2 = r2
  download = download
  group = group
  other = other
  Rules = {r1, r2}
  Exceptional <- MCExceptional
  Keywords <- MCKeywords
  Urls <- MCUrls
  Words <- MCWords
  Hits <- MCHits
  MaxCacheEntries = 1
  Active = {r1, r2}
  Subs = {download, group, other}
  Special = {group, other}
  DefaultFor <- MCDefaultFor
  OldExceptional = other
  OldCustom = none
  MaxRules = 2
  Duplicates = FALSE
INVARIANTS LinksExact RulesInForce
