SPECIFICATION GFairSpec
CONSTANTS
  Clients = {v, i}
  ImageClients = {i}
  Tasks = {t1}
  NoTask = NoTask
  TTL = 1
  Lag = 1
  AuthTimeout = 0
  ApiTimeout = 1
  ImageWait = 2
  MaxTroubles = 1
INVARIANTS SubmitsAccounted HeardIsTrue
PROPERTIES RevocationTakesHold GoodKeyRefusedBriefly EveryCallReturns PollerHears
CHECK_DEADLOCK FALSE
