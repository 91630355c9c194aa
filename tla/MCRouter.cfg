SPECIFICATION FairSpec
CONSTANTS
  a = a
  b = b
  up = up
  Links = {a, b, up}
  Upstream = up
  NoLink = nolink
  RouteOf <- MCRouteOf
  Rpcs = {1, 2}
  ClientCap = 1
  InCap = 1
  MaxData <- MCMaxData
  Leaving = {a}
INVARIANTS
  LinkInOrder
  AnswersReturn
CHECK_DEADLOCK FALSE
PROPERTIES
  AnswersArrive
