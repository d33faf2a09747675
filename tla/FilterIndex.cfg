SPECIFICATION Spec
CHECK_DEADLOCK FALSE
CONSTANTS
  Filter <- MCFilter
  Text <- MCText
  Url <- MCUrl
  Tokens <- MCTokens
  DomainOf <- MCDomainOf
  Word <- MCWord
  Files <- MCFiles
  Extra <- MCExtra
INVARIANTS
  VerdictsExact
  BlocksAsWritten
  HidesAsWritten
