SPECIFICATION SshFairSpec
CONSTANTS
  MaxClients = 2
PROPERTIES
  DegradedIsCleared
CHECK_DEADLOCK FALSE
