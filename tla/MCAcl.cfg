\* Two handlers, the refresh task and a login.
SPECIFICATION FairSpec
CONSTANTS
  Users = {"u", "v"}
  Passwords = {"p", "q"}
  Categories = {"c"}
  Patterns <- MCPatterns
  InitialDb <- MCInitialDb
  Handlers = {"h", "i"}
  Requests <- MCRequests
  Logins <- MCLogins
  Enforce = TRUE
  MaxRequests = 1
  MaxFailures = 1
INVARIANTS
  TypeOK
  
PROPERTIES
  LoginHonest
  CatchesUp
