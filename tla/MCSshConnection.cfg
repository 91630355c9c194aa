SPECIFICATION SshFairSpec
CONSTANTS
  MaxClients = 2
INVARIANTS
  NoClientLost
PROPERTIES
  LossIsNoticed
  AnswersEndStall
CHECK_DEADLOCK FALSE
