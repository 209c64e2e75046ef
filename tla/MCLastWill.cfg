\* The router has room for one connection, so that one may be refused.
SPECIFICATION FairSpec
CONSTANTS
  Listeners = {"v4", "v5"}
  Clients = {"c", "d"}
  Connects <- MCConnects
  Tasks = {1, 2, 3}
  InvalidIds = {}
  MaxConnections = 1
  None = None
INVARIANTS
  TypeOK
  HandlersSound
PROPERTIES
  WillTaken
  WillsSettle
CHECK_DEADLOCK FALSE
