SPECIFICATION Spec
CONSTANTS
  user = user
  operator = operator
  Clients = {user, operator}
  Kinds <- WhoCalls
  NServers = 2
  NConns = 3
  Retries = 1
  Rows = 1
  MaxCalls <- HowOften
  MaxFaults = 1
  MaxRestarts = 1
INVARIANTS AnswersMatch AnsweredIsDone 
PROPERTIES CallsReturn ShutdownEnds
CHECK_DEADLOCK FALSE
