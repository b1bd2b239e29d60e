CONSTANTS
  Buses = {1}
  Ports = {0}
  Up <- MCUp
  Kinds = {hub1}
  Hubs = {hub1}
  Empty = Empty
  MaxQueue = 1
  Clients = {c1, c2}
  Updater = Updater
  Nobody = Nobody
  MAX_POLLING_ERRORS = 0
SPECIFICATION FairSpec
INVARIANTS ServicesInv WaitFounded
PROPERTIES AnswerEnumerated WaitEndsWithoutCallback
