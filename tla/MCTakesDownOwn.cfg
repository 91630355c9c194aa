SPECIFICATION SshFairSpec
CONSTANTS
  MaxClients = 2
PROPERTIES
  TakesDownOwn
CHECK_DEADLOCK FALSE
